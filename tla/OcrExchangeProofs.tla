--------------------------- MODULE OcrExchangeProofs ---------------------------
(***************************************************************************)
(* Proofs about OcrExchange, for any number of overlapping consumers, any   *)
(* results a provider may claim and any bound on its denials.               *)
(*                                                                          *)
(* What a consumer has loaded stays true enough (Sound), and the right to   *)
(* submit is a token: the prepared row, a consumer that is about to submit, *)
(* and a consumer that carries a denial hold one each.                      *)
(***************************************************************************)
EXTENDS OcrExchange, FiniteSets, FiniteSetTheorems, TLAPS

USE NoResultAssumption, MaxMissingAssumption

-----------------------------------------------------------------------------
(***************************************************************************)
(* The invariant                                                            *)
(***************************************************************************)
Retrieving == {"retrieve", "download", "retrieved", "settle"}

\* What a call holds, whatever happened to the row since it was loaded.
Sound(k, saved, derived, file) ==
  k # Idle =>
    /\ k.pc \in Retrieving => k.loaded.saved # NoResult
    /\ k.loaded.saved # NoResult => k.loaded.saved = saved
    /\ k.loaded.phase \in Admitted => derived
    /\ k.pc = "admit" => file

\* A row with a child has an admitted one, and protocol 3 stores what it has pinned.
RowOK == /\ handoff.phase \in Admitted => root = "derived"
         /\ protocol = 3 /\ handoff.outputs # NoResult => handoff.outputs = handoff.saved

IInv == /\ TypeOK
        /\ RowOK
        /\ \A c \in Consumers : Sound(con[c], handoff.saved, root = "derived", snapshot)
        /\ ChildHasItsDocument

\* What every step does to the row and its surroundings.
Advances ==
  /\ protocol' = protocol
  /\ handoff' \in Handoffs
  /\ handoff.saved # NoResult => handoff'.saved = handoff.saved
  /\ RowOK'
  /\ root' \in {"parsed", "cancelling", "derived"}
  /\ root = "derived" => root' = "derived"
  /\ snapshot' \in BOOLEAN
  /\ snapshot => snapshot'
  /\ root' = "derived" => snapshot'

\* The call is about to submit, or brings the denial that allows another submission.
MaySubmit(k) ==
  \/ k.pc = "submit"
  \/ k.pc = "reload" /\ k.next = "submit"
  \/ k.pc \in {"answered", "apply"} /\ k.next # "submit" /\ k.answer = Answer("not_found")

Holders == {c \in Consumers : MaySubmit(con[c])}
Unclaimed == IF handoff.phase = "prepared" THEN 1 ELSE 0

TokenInv == /\ IsFiniteSet(Holders)
            /\ sent + Cardinality(Holders) + Unclaimed <= 1 + missing

-----------------------------------------------------------------------------
(***************************************************************************)
(* Lemmas                                                                   *)
(***************************************************************************)
\* A call that is somewhere has the fields of a call.
LEMMA Busy ==
  ASSUME TypeOK, NEW c \in Consumers, con[c].pc # "idle"
  PROVE  con[c] \in Calls /\ con[c] # Idle
BY DEF TypeOK, Idle

LEMMA PreparedIsWellFormed == Prepared \in Handoffs
BY DEF Prepared, Handoffs, Phases, Owned

\* A status may only move a phase, or replace the outputs.
LEMMA MovedType ==
  ASSUME handoff \in Handoffs, NEW from, NEW to \in Phases
  PROVE  /\ Moved(from, to) \in Handoffs
         /\ Moved(from, to).saved = handoff.saved
         /\ Moved(from, to).outputs = handoff.outputs
         /\ Moved(from, to).phase \in {handoff.phase, to}
BY DEF Moved, Handoffs

LEMMA StoredType ==
  ASSUME handoff \in Handoffs, NEW from, NEW v \in Results
  PROVE  /\ Stored(from, v) \in Handoffs
         /\ Stored(from, v).phase \in {handoff.phase, "output_ready"}
         /\ protocol = 3 => Stored(from, v).saved \in {handoff.saved, v}
         /\ protocol # 3 => Stored(from, v).saved = handoff.saved
BY DEF Stored, Handoffs, Phases, Owned, Admitted

\* It suffices to look at the call that moves.
LEMMA CallMoves ==
  ASSUME IInv, NEW c \in Consumers, NEW k \in Calls \cup {Idle},
         con' = [con EXCEPT ![c] = k], Advances,
         Sound(k, handoff'.saved, root' = "derived", snapshot'),
         sent' \in Nat, missing' \in 0..MaxMissing,
         told' \subseteq {"cancelled", "child"}, "child" \in told' => root' = "derived"
  PROVE  IInv'
<1>1. /\ con \in [Consumers -> Calls \cup {Idle}]
      /\ con' \in [Consumers -> Calls \cup {Idle}]
      /\ con'[c] = k /\ \A d \in Consumers \ {c} : con'[d] = con[d]
  BY DEF IInv, TypeOK
<1>2. ASSUME NEW d \in Consumers
      PROVE  Sound(con'[d], handoff'.saved, root' = "derived", snapshot')
  <2>1. CASE d = c
    BY <2>1, <1>1
  <2>2. CASE d # c
    <3>1. con'[d] = con[d] /\ Sound(con[d], handoff.saved, root = "derived", snapshot)
      BY <2>2, <1>1 DEF IInv
    <3> QED
      BY <3>1 DEF Sound, Advances
  <2> QED
    BY <2>1, <2>2
<1>3. TypeOK'
  <2>1. protocol' \in {2, 3}
    BY DEF IInv, TypeOK, Advances
  <2>2. ASSUME NEW d \in Consumers, con'[d].pc = "settle" PROVE con'[d].loaded.saved # NoResult
    BY <2>2, <1>1, <1>2 DEF Sound, Retrieving, Idle
  <2> QED
    BY <2>1, <2>2, <1>1 DEF TypeOK, Advances, At
<1> QED
  BY <1>2, <1>3 DEF IInv, ChildHasItsDocument, Advances

\* A step that leaves the row, the root and the file alone.
LEMMA Still ==
  ASSUME IInv, UNCHANGED <<protocol, handoff, root, snapshot>>
  PROVE  Advances
BY DEF IInv, TypeOK, RowOK, Advances, ChildHasItsDocument

\* A step that moves the phase, and not to an admitted one.
LEMMA PhaseMoves ==
  ASSUME IInv, UNCHANGED <<protocol, root, snapshot>>, NEW from,
         NEW to \in Phases \ Admitted, handoff' = Moved(from, to)
  PROVE  Advances /\ handoff'.saved = handoff.saved
<1>1. handoff \in Handoffs
  BY DEF IInv, TypeOK
<1> QED
  BY <1>1, MovedType DEF IInv, TypeOK, RowOK, Advances, ChildHasItsDocument

\* A call that only goes to another place, or ends.
LEMMA GoesOn ==
  ASSUME IInv, NEW c \in Consumers, con[c].pc # "idle",
         NEW k \in Calls, con' = [con EXCEPT ![c] = k],
         k.loaded = con[c].loaded, k.pc \notin Retrieving \cup {"admit"},
         Advances, sent' \in Nat, missing' \in 0..MaxMissing, told' = told
  PROVE  IInv'
<1>1. con[c] \in Calls /\ con[c] # Idle /\ Sound(con[c], handoff.saved, root = "derived", snapshot)
  BY Busy DEF IInv
<1>2. Sound(k, handoff'.saved, root' = "derived", snapshot')
  BY <1>1 DEF Sound, Advances
<1> QED
  BY <1>2, CallMoves DEF IInv, TypeOK, ChildHasItsDocument, Advances

LEMMA Returns ==
  ASSUME IInv, NEW c \in Consumers, Return(c),
         Advances, sent' = sent, missing' = missing, told' \subseteq {"cancelled", "child"},
         "child" \in told' => root' = "derived"
  PROVE  IInv'
<1>1. Sound(Idle, handoff'.saved, root' = "derived", snapshot')
  BY DEF Sound
<1> QED
  BY <1>1, CallMoves DEF IInv, TypeOK, Return

-----------------------------------------------------------------------------
(***************************************************************************)
(* The invariant is inductive: one lemma per step                           *)
(***************************************************************************)
LEMMA Initially == Init => IInv
<1> SUFFICES ASSUME Init PROVE IInv
  OBVIOUS
<1>1. TypeOK
  <2>1. con \in [Consumers -> Calls \cup {Idle}] /\ \A c \in Consumers : con[c].pc = "idle"
    BY DEF Init, Idle
  <2>2. missing \in 0..MaxMissing /\ sent \in Nat
    BY DEF Init
  <2> QED
    BY <2>1, <2>2, PreparedIsWellFormed DEF Init, TypeOK, At
<1>2. RowOK
  BY DEF Init, RowOK, Prepared, Admitted
<1>3. \A c \in Consumers : Sound(con[c], handoff.saved, root = "derived", snapshot)
  BY DEF Init, Sound
<1> QED
  BY <1>1, <1>2, <1>3 DEF IInv, ChildHasItsDocument, Init

\* A call loads the row as it is now.
LEMMA LoadedIsSound ==
  ASSUME IInv, NEW k \in Calls, k.loaded = handoff, k.pc \notin Retrieving \cup {"admit"}
  PROVE  Sound(k, handoff.saved, root = "derived", snapshot)
BY DEF IInv, RowOK, Sound

LEMMA StartKeeps ==
  ASSUME IInv, NEW c \in Consumers, Start(c) PROVE IInv'
<1> DEFINE k == Call("check", handoff)
<1>1. k \in Calls /\ k.loaded = handoff /\ k.pc = "check"
  BY DEF Call, Calls, Answer, Errors, IInv, TypeOK
<1>2. UNCHANGED <<protocol, handoff, root, snapshot, sent, missing, told>>
  BY DEF Start, Local, Outside
<1>3. Sound(k, handoff.saved, root = "derived", snapshot)
  BY <1>1, LoadedIsSound DEF Retrieving
<1>4. con' = [con EXCEPT ![c] = k]
  BY DEF Start
<1> HIDE DEF k
<1> QED
  BY <1>1, <1>2, <1>3, <1>4, Still, CallMoves DEF IInv, TypeOK, ChildHasItsDocument

LEMMA ReloadKeeps ==
  ASSUME IInv, NEW c \in Consumers, ReloadStep(c) PROVE IInv'
<1> DEFINE k == [con[c] EXCEPT !.pc = con[c].next, !.loaded = handoff]
<1>1. con[c] \in Calls /\ handoff \in Handoffs
  BY Busy DEF ReloadStep, At, IInv, TypeOK
<1>2. k \in Calls /\ k.loaded = handoff /\ k.pc \in {"check", "submit", "poll", "cancel"}
  BY <1>1 DEF Calls
<1>3. UNCHANGED <<protocol, handoff, root, snapshot, sent, missing, told>>
  BY DEF ReloadStep, Local, Outside
<1>4. Sound(k, handoff.saved, root = "derived", snapshot)
  BY <1>2, LoadedIsSound DEF Retrieving
<1>5. con' = [con EXCEPT ![c] = k]
  BY <1>1 DEF ReloadStep
<1> HIDE DEF k
<1> QED
  BY <1>2, <1>3, <1>4, <1>5, Still, CallMoves DEF IInv, TypeOK, ChildHasItsDocument

\* A call that goes to a place that asks nothing of it.
LEMMA GoesTo ==
  ASSUME IInv, NEW c \in Consumers, con[c].pc # "idle",
         NEW pc \in {"check", "claim", "submit", "poll", "apply", "materialize", "cancel",
                     "wrap", "fail"},
         Goto(c, pc),
         Advances, sent' = sent, missing' = missing, told' = told
  PROVE  IInv'
<1> DEFINE k == [con[c] EXCEPT !.pc = pc]
<1>1. con[c] \in Calls
  BY Busy DEF IInv
<1>2. k \in Calls /\ k.loaded = con[c].loaded /\ k.pc \notin Retrieving \cup {"admit"}
  BY <1>1 DEF Calls, Retrieving
<1>3. con' = [con EXCEPT ![c] = k]
  BY <1>1 DEF Goto
<1> HIDE DEF k
<1> QED
  BY <1>2, <1>3, GoesOn DEF IInv, TypeOK

\* A call that will read the row again.
LEMMA Reloads ==
  ASSUME IInv, NEW c \in Consumers, con[c].pc # "idle",
         NEW next \in {"check", "submit", "cancel"}, Reload(c, next),
         Advances, sent' = sent, missing' = missing, told' = told
  PROVE  IInv'
<1> DEFINE k == [con[c] EXCEPT !.pc = "reload", !.next = next]
<1>1. con[c] \in Calls
  BY Busy DEF IInv
<1>2. k \in Calls /\ k.loaded = con[c].loaded /\ k.pc \notin Retrieving \cup {"admit"}
  BY <1>1 DEF Calls, Retrieving
<1>3. con' = [con EXCEPT ![c] = k]
  BY <1>1 DEF Reload
<1> HIDE DEF k
<1> QED
  BY <1>2, <1>3, GoesOn DEF IInv, TypeOK

\* A call that goes on retrieving what it has loaded.
LEMMA KeepsRetrieving ==
  ASSUME IInv, NEW c \in Consumers, con[c].pc # "idle", con[c].loaded.saved # NoResult,
         NEW k \in Calls, k.loaded = con[c].loaded, k.pc \in Retrieving,
         con' = [con EXCEPT ![c] = k],
         UNCHANGED <<protocol, handoff, root, snapshot, sent, missing, told>>
  PROVE  IInv'
<1>1. con[c] \in Calls /\ con[c] # Idle /\ Sound(con[c], handoff.saved, root = "derived", snapshot)
  BY Busy DEF IInv
<1>2. Sound(k, handoff.saved, root = "derived", snapshot)
  BY <1>1 DEF Sound, Retrieving
<1> QED
  BY <1>2, Still, CallMoves DEF IInv, TypeOK, ChildHasItsDocument

LEMMA CheckKeeps ==
  ASSUME IInv, NEW c \in Consumers, Check(c) PROVE IInv'
<1>1. UNCHANGED <<protocol, handoff, root, snapshot, sent, missing, told>> /\ con[c].pc # "idle"
  BY DEF Check, Local, Outside, At
<1>2. Advances /\ con[c] \in Calls /\ con[c].loaded.phase \in Phases
  BY <1>1, Still, Busy DEF IInv, Calls, Handoffs
<1> DEFINE h == con[c].loaded
<1>3. Target(h) \in {"claim", "poll", "retrieve", "materialize", "failed"}
  BY <1>2 DEF Target, Phases, Owned, Admitted
<1>4. CASE Return(c)
  BY <1>1, <1>2, <1>4, Returns DEF IInv, TypeOK, ChildHasItsDocument
<1>5. CASE Goto(c, "cancel")
  BY <1>1, <1>2, <1>5, GoesTo
<1>6. CASE Goto(c, Target(h)) /\ Target(h) \in {"claim", "poll", "materialize"}
  BY <1>1, <1>2, <1>6, GoesTo
<1>7. CASE Goto(c, Target(h)) /\ Target(h) = "retrieve"
  <2>1. h.saved # NoResult
    BY <1>2, <1>7 DEF Target, Phases, Owned, Admitted
  <2>2. [con[c] EXCEPT !.pc = "retrieve"] \in Calls /\ Goto(c, "retrieve")
    BY <1>2, <1>7 DEF Calls
  <2> QED
    BY <1>1, <1>2, <2>1, <2>2, KeepsRetrieving DEF Goto, Calls, Retrieving
<1> QED
  BY <1>3, <1>4, <1>5, <1>6, <1>7 DEF Check, Checkpoint

LEMMA GiveUpKeeps ==
  ASSUME IInv, NEW c \in Consumers, GiveUp(c) PROVE IInv'
<1>1. UNCHANGED <<protocol, handoff, root, snapshot, sent, missing, told>> /\ Return(c)
  BY DEF GiveUp, Local, Outside
<1> QED
  BY <1>1, Still, Returns DEF IInv, TypeOK, ChildHasItsDocument

LEMMA CancelKeeps ==
  ASSUME IInv, NEW c \in Consumers, Cancel(c) PROVE IInv'
<1>1. UNCHANGED <<protocol, root, snapshot, sent, missing>> /\ con[c].pc # "idle"
  BY DEF Cancel, Outside, At
<1>2. CASE con[c].loaded.phase \notin Admitted \cup {"failed"} /\ CancelFail(c)
  <2>1. Advances
    BY <1>1, <1>2, PhaseMoves DEF CancelFail, Phases, Admitted
  <2>2. CASE Report(c, "cancelled")
    BY <1>1, <2>1, <2>2, Returns DEF Report, IInv, TypeOK, ChildHasItsDocument
  <2>3. CASE Reload(c, "cancel") /\ UNCHANGED told
    BY <1>1, <2>1, <2>3, Reloads
  <2> QED
    BY <1>2, <2>2, <2>3 DEF CancelFail
<1>3. CASE Report(c, "cancelled") /\ UNCHANGED handoff
  BY <1>1, <1>3, Still, Returns DEF Report, IInv, TypeOK, ChildHasItsDocument
<1> QED
  BY <1>2, <1>3 DEF Cancel

LEMMA RequestInvalidKeeps ==
  ASSUME IInv, NEW c \in Consumers, RequestInvalid(c) PROVE IInv'
<1>1. UNCHANGED <<protocol, root, snapshot, sent, missing, told>> /\ con[c].pc # "idle"
  BY DEF RequestInvalid, Outside, At
<1> QED
  BY <1>1, PhaseMoves, GoesTo DEF RequestInvalid, Phases, Admitted

LEMMA ClaimKeeps ==
  ASSUME IInv, NEW c \in Consumers, Claim(c) PROVE IInv'
<1>1. UNCHANGED <<protocol, root, snapshot, sent, missing, told>> /\ con[c].pc # "idle"
  BY DEF Claim, Outside, At
<1>2. Advances
  BY <1>1, PhaseMoves DEF Claim, Phases, Owned, Admitted
<1> QED
  BY <1>1, <1>2, Reloads DEF Claim, ClaimNext

\* An answer is kept with the call until it is used.
LEMMA ExchangedIsCall ==
  ASSUME IInv, NEW c \in Consumers, At(c, "submit") \/ At(c, "poll"),
         NEW a \in Statuses \cup Errors
  PROVE  LET k == [con[c] EXCEPT !.pc = "answered", !.answer = a, !.next = con[c].pc] IN
           /\ k \in Calls /\ k.loaded = con[c].loaded /\ k.pc = "answered"
           /\ Exchanged(c, a) => con' = [con EXCEPT ![c] = k]
<1>1. con[c] \in Calls
  BY Busy DEF At, IInv
<1> QED
  BY <1>1 DEF Calls, Exchanged, At

LEMMA SubmitKeeps ==
  ASSUME IInv, NEW c \in Consumers, Submit(c) PROVE IInv'
<1>1. PICK a \in Statuses \cup Errors : Exchanged(c, a)
  BY DEF Submit
<1>2. UNCHANGED <<protocol, handoff, root, snapshot, missing, told>> /\ sent' \in Nat
      /\ con[c].pc # "idle" /\ missing' \in 0..MaxMissing
  BY DEF Submit, At, IInv, TypeOK
<1> QED
  BY <1>1, <1>2, Still, ExchangedIsCall, GoesOn DEF Submit, Retrieving

LEMMA PollKeeps ==
  ASSUME IInv, NEW c \in Consumers, Poll(c) PROVE IInv'
<1>1. PICK a \in Statuses \cup Errors :
        /\ a = Answer("not_found") => missing < MaxMissing
        /\ missing' = IF a = Answer("not_found") THEN missing + 1 ELSE missing
        /\ Exchanged(c, a)
  BY DEF Poll
<1>2. UNCHANGED <<protocol, handoff, root, snapshot, sent, told>> /\ sent' \in Nat
      /\ con[c].pc # "idle" /\ missing' \in 0..MaxMissing
  BY <1>1 DEF Poll, At, IInv, TypeOK
<1> QED
  BY <1>1, <1>2, Still, ExchangedIsCall, GoesOn DEF Poll, Retrieving

LEMMA AnsweredKeeps ==
  ASSUME IInv, NEW c \in Consumers, Answered(c) PROVE IInv'
<1>1. UNCHANGED <<protocol, handoff, root, snapshot, sent, missing, told>> /\ con[c].pc # "idle"
  BY DEF Answered, Local, Outside, At
<1> QED
  BY <1>1, Still, GoesTo DEF Answered, Checkpoint

LEMMA ApplyInlineKeeps ==
  ASSUME IInv, NEW c \in Consumers, ApplyStatus(c), protocol = 2,
         ApplyInline(c, con[c].loaded.phase, con[c].answer)
  PROVE  IInv'
<1>1. UNCHANGED <<protocol, root, snapshot, sent, missing, told>> /\ con[c].pc # "idle"
  BY DEF ApplyStatus, Outside, At
<1> DEFINE from == con[c].loaded.phase
           a == con[c].answer
<1>2. CASE handoff' = Moved(from, "running") /\ Reload(c, "check")
  <2>1. Advances
    BY <1>1, <1>2, PhaseMoves DEF Phases, Owned, Admitted
  <2> QED
    BY <1>1, <1>2, <2>1, Reloads
<1>3. CASE a.kind = "completed" /\ handoff' = Stored(from, a.result) /\ Reload(c, "check")
  <2>1. a.result \in Results
    BY <1>3 DEF ApplyStatus, Statuses, Answer
  <2>2. Advances
    BY <1>1, <1>3, <2>1, StoredType
       DEF IInv, TypeOK, RowOK, Advances, ChildHasItsDocument, Admitted
  <2> QED
    BY <1>1, <1>3, <2>2, Reloads
<1>4. CASE handoff' = Moved(from, "failed") /\ Return(c)
  <2>1. Advances
    BY <1>1, <1>4, PhaseMoves DEF Phases, Admitted
  <2> QED
    BY <1>1, <1>4, <2>1, Returns DEF IInv, TypeOK, ChildHasItsDocument
<1> QED
  BY <1>2, <1>3, <1>4 DEF ApplyInline

LEMMA SaveStatusKeeps ==
  ASSUME IInv, NEW c \in Consumers, ApplyStatus(c), protocol = 3,
         SaveStatus(c, con[c].loaded, con[c].answer)
  PROVE  IInv'
<1>1. UNCHANGED <<protocol, root, snapshot, sent, missing, told>> /\ con[c].pc # "idle"
  BY DEF ApplyStatus, Outside, At
<1> DEFINE a == con[c].answer
<1>2. handoff \in Handoffs /\ "running" \in Phases \ Admitted /\ "failed" \in Phases \ Admitted
  BY DEF IInv, TypeOK, Phases, Owned, Admitted
<1>3. CASE UNCHANGED handoff /\ Reload(c, "check")
  BY <1>1, <1>3, Still, Reloads
<1>4. CASE handoff' = [handoff EXCEPT !.phase = "running"] /\ Reload(c, "check")
  <2>1. Advances
    BY <1>1, <1>2, <1>4 DEF IInv, TypeOK, RowOK, Advances, ChildHasItsDocument, Handoffs
  <2> QED
    BY <1>1, <1>4, <2>1, Reloads
<1>5. CASE /\ a.kind = "completed" /\ handoff.saved \in {NoResult, a.result}
           /\ handoff' = [handoff EXCEPT !.phase = "running", !.saved = a.result]
           /\ Reload(c, "check")
  <2>1. a.result \in Results
    BY <1>5 DEF ApplyStatus, Statuses, Answer
  <2>2. Advances
    BY <1>1, <1>2, <1>5, <2>1
       DEF IInv, TypeOK, RowOK, Advances, ChildHasItsDocument, Handoffs
  <2> QED
    BY <1>1, <1>5, <2>2, Reloads
<1>6. CASE handoff' = [handoff EXCEPT !.phase = "failed"] /\ Goto(c, "wrap")
  <2>1. Advances
    BY <1>1, <1>2, <1>6 DEF IInv, TypeOK, RowOK, Advances, ChildHasItsDocument, Handoffs
  <2> QED
    BY <1>1, <1>6, <2>1, GoesTo
<1> QED
  BY <1>3, <1>4, <1>5, <1>6 DEF SaveStatus

LEMMA ApplyStatusKeeps ==
  ASSUME IInv, NEW c \in Consumers, ApplyStatus(c) PROVE IInv'
BY ApplyInlineKeeps, SaveStatusKeeps DEF ApplyStatus

LEMMA ApplyErrorKeeps ==
  ASSUME IInv, NEW c \in Consumers, ApplyError(c) PROVE IInv'
<1>1. UNCHANGED <<protocol, root, snapshot, sent, missing, told>> /\ con[c].pc # "idle"
  BY DEF ApplyError, Outside, At
<1>2. \/ UNCHANGED handoff
      \/ handoff' = Moved("submission_uncertain", "prepared")
      \/ handoff' = Moved("submission_uncertain", "failed")
  BY DEF ApplyError
<1>3. Reload(c, "check") \/ Return(c) \/ Goto(c, "wrap")
  BY DEF ApplyError
<1>4. Advances
  BY <1>1, <1>2, Still, PhaseMoves DEF Phases, Owned, Admitted
<1> QED
  BY <1>1, <1>3, <1>4, Reloads, Returns, GoesTo DEF IInv, TypeOK, ChildHasItsDocument

LEMMA ReconcileKeeps ==
  ASSUME IInv, NEW c \in Consumers, Reconcile(c) PROVE IInv'
<1>1. UNCHANGED <<protocol, handoff, root, snapshot, sent, missing, told>> /\ con[c].pc = "retrieve"
  BY DEF Reconcile, Local, Outside, At
<1>2. con[c] \in Calls /\ con[c].loaded.saved # NoResult
  BY <1>1, Busy DEF IInv, Sound, Retrieving
<1>3. CASE Goto(c, "download")
  <2> DEFINE k == [con[c] EXCEPT !.pc = "download"]
  <2>1. k \in Calls /\ k.loaded = con[c].loaded /\ k.pc \in Retrieving
    BY <1>2 DEF Calls, Retrieving
  <2> QED
    BY <1>1, <1>2, <1>3, <2>1, KeepsRetrieving DEF Goto
<1>4. ASSUME NEW kind \in {"invalid", "error"},
             con' = [con EXCEPT ![c].pc = "retrieved", ![c].answer = Answer(kind)]
      PROVE  IInv'
  <2> DEFINE k == [con[c] EXCEPT !.pc = "retrieved", !.answer = Answer(kind)]
  <2>1. k \in Calls /\ k.loaded = con[c].loaded /\ k.pc \in Retrieving
    BY <1>2 DEF Calls, Retrieving, Retrievals
  <2>2. con' = [con EXCEPT ![c] = k]
    BY <1>2, <1>4
  <2> HIDE DEF k
  <2> QED
    BY <1>1, <1>2, <2>1, <2>2, KeepsRetrieving
<1> QED
  BY <1>3, <1>4 DEF Reconcile

LEMMA DownloadKeeps ==
  ASSUME IInv, NEW c \in Consumers, Download(c) PROVE IInv'
<1>1. UNCHANGED <<protocol, handoff, root, snapshot, sent, missing, told>> /\ con[c].pc = "download"
  BY DEF Download, Local, Outside, At
<1>2. con[c] \in Calls /\ con[c].loaded.saved # NoResult
  BY <1>1, Busy DEF IInv, Sound, Retrieving
<1>3. CASE Goto(c, "cancel")
  BY <1>1, <1>3, Still, GoesTo
<1>4. ASSUME NEW a \in Retrievals,
             con' = [con EXCEPT ![c].pc = "retrieved", ![c].answer = a]
      PROVE  IInv'
  <2> DEFINE k == [con[c] EXCEPT !.pc = "retrieved", !.answer = a]
  <2>1. k \in Calls /\ k.loaded = con[c].loaded /\ k.pc \in Retrieving
    BY <1>2 DEF Calls, Retrieving
  <2>2. con' = [con EXCEPT ![c] = k]
    BY <1>2, <1>4
  <2> HIDE DEF k
  <2> QED
    BY <1>1, <1>2, <2>1, <2>2, KeepsRetrieving
<1> QED
  BY <1>3, <1>4 DEF Download

LEMMA RetrievedKeeps ==
  ASSUME IInv, NEW c \in Consumers, Retrieved(c) PROVE IInv'
<1>1. UNCHANGED <<protocol, handoff, root, snapshot, sent, missing, told>> /\ con[c].pc = "retrieved"
  BY DEF Retrieved, Local, Outside, At
<1>2. con[c] \in Calls /\ con[c].loaded.saved # NoResult
  BY <1>1, Busy DEF IInv, Sound, Retrieving
<1>3. CASE Goto(c, "cancel")
  BY <1>1, <1>3, Still, GoesTo
<1>4. CASE Goto(c, "settle")
  <2> DEFINE k == [con[c] EXCEPT !.pc = "settle"]
  <2>1. k \in Calls /\ k.loaded = con[c].loaded /\ k.pc \in Retrieving
    BY <1>2 DEF Calls, Retrieving
  <2> QED
    BY <1>1, <1>2, <1>4, <2>1, KeepsRetrieving DEF Goto
<1> QED
  BY <1>3, <1>4 DEF Retrieved, Checkpoint

LEMMA SettleKeeps ==
  ASSUME IInv, NEW c \in Consumers, Settle(c) PROVE IInv'
<1>1. UNCHANGED <<protocol, root, snapshot, sent, missing, told>> /\ con[c].pc = "settle"
  BY DEF Settle, Outside, At
<1> DEFINE h == con[c].loaded
<1>2. h \in Handoffs /\ h.saved \in Results /\ h.saved = handoff.saved
  <2>1. con[c] \in Calls /\ Sound(con[c], handoff.saved, root = "derived", snapshot) /\ con[c] # Idle
    BY <1>1, Busy DEF IInv
  <2> QED
    BY <1>1, <2>1 DEF Sound, Calls, Handoffs, Retrieving
<1>3. CASE handoff' = Stored(h.phase, h.saved) /\ Reload(c, "check")
  <2>1. handoff \in Handoffs
    BY DEF IInv, TypeOK
  <2>2. handoff' = handoff \/ (handoff'.outputs = h.saved /\ handoff'.saved = handoff.saved)
    BY <1>2, <1>3 DEF Stored
  <2>3. Advances
    BY <1>1, <1>2, <1>3, <2>1, <2>2, StoredType
       DEF IInv, TypeOK, RowOK, Advances, ChildHasItsDocument, Admitted
  <2> QED
    BY <1>1, <1>3, <2>3, Reloads
<1>4. CASE handoff' = Moved(h.phase, "failed") /\ Goto(c, "wrap")
  <2>1. Advances
    BY <1>1, <1>4, PhaseMoves DEF Phases, Admitted
  <2> QED
    BY <1>1, <1>4, <2>1, GoesTo
<1>5. CASE UNCHANGED handoff /\ Return(c)
  BY <1>1, <1>5, Still, Returns DEF IInv, TypeOK, ChildHasItsDocument
<1> QED
  BY <1>3, <1>4, <1>5 DEF Settle

LEMMA WrapKeeps ==
  ASSUME IInv, NEW c \in Consumers, Wrap(c) PROVE IInv'
<1>1. UNCHANGED <<protocol, handoff, root, snapshot, sent, missing, told>> /\ con[c].pc = "wrap"
  BY DEF Wrap, Local, Outside, At
<1>2. con[c] \in Calls /\ handoff \in Handoffs
  BY <1>1, Busy DEF IInv, TypeOK
<1>3. CASE con' = [con EXCEPT ![c].pc = "fail", ![c].loaded = handoff]
  <2> DEFINE k == [con[c] EXCEPT !.pc = "fail", !.loaded = handoff]
  <2>1. k \in Calls /\ k.loaded = handoff /\ k.pc \notin Retrieving \cup {"admit"}
    BY <1>2 DEF Calls, Retrieving
  <2>2. con' = [con EXCEPT ![c] = k]
    BY <1>2, <1>3
  <2> HIDE DEF k
  <2> QED
    BY <1>1, <2>1, <2>2, LoadedIsSound, Still, CallMoves
       DEF IInv, TypeOK, ChildHasItsDocument
<1>4. CASE Return(c)
  BY <1>1, <1>4, Still, Returns DEF IInv, TypeOK, ChildHasItsDocument
<1> QED
  BY <1>3, <1>4 DEF Wrap

LEMMA WrapFailKeeps ==
  ASSUME IInv, NEW c \in Consumers, WrapFail(c) PROVE IInv'
<1>1. UNCHANGED <<protocol, root, snapshot, sent, missing, told>> /\ Return(c)
  BY DEF WrapFail, Outside
<1>2. Advances
  BY <1>1, PhaseMoves DEF WrapFail, Phases, Admitted
<1> QED
  BY <1>1, <1>2, Returns DEF IInv, TypeOK, ChildHasItsDocument

LEMMA MaterializeKeeps ==
  ASSUME IInv, NEW c \in Consumers, Materialize(c) PROVE IInv'
<1>1. UNCHANGED <<protocol, handoff, root, sent, missing>> /\ con[c].pc # "idle" /\ snapshot'
  BY DEF Materialize, Materialized, At
<1>2. Advances
  BY <1>1 DEF IInv, TypeOK, RowOK, Advances, ChildHasItsDocument, Materialize, Materialized
<1>3. con[c] \in Calls /\ con[c] # Idle /\ Sound(con[c], handoff.saved, root = "derived", snapshot)
  BY <1>1, Busy DEF IInv
<1>4. CASE con[c].loaded.phase \in Admitted /\ Report(c, "child")
  BY <1>1, <1>2, <1>3, <1>4, Returns DEF Report, IInv, TypeOK, Sound, ChildHasItsDocument
<1>5. CASE Goto(c, "admit") /\ UNCHANGED told
  <2> DEFINE k == [con[c] EXCEPT !.pc = "admit"]
  <2>1. k \in Calls /\ k.loaded = con[c].loaded /\ k.pc = "admit"
    BY <1>3 DEF Calls
  <2>2. con' = [con EXCEPT ![c] = k]
    BY <1>5 DEF Goto
  <2> HIDE DEF k
  <2>3. Sound(k, handoff'.saved, root' = "derived", snapshot')
    BY <1>1, <1>3, <2>1 DEF Sound, Retrieving
  <2> QED
    BY <1>1, <1>2, <1>5, <2>1, <2>2, <2>3, CallMoves DEF IInv, TypeOK, ChildHasItsDocument
<1> QED
  BY <1>4, <1>5 DEF Materialize, Materialized

LEMMA AdmitKeeps ==
  ASSUME IInv, NEW c \in Consumers, Admit(c) PROVE IInv'
<1>1. UNCHANGED <<protocol, snapshot, sent, missing>> /\ con[c].pc = "admit"
  BY DEF Admit, At
<1>2. snapshot
  BY <1>1, Busy DEF IInv, Sound
<1>3. handoff \in Handoffs
  BY DEF IInv, TypeOK
<1>4. CASE handoff.phase \in Admitted /\ Report(c, "child") /\ UNCHANGED <<handoff, root>>
  BY <1>1, <1>4, Still, Returns DEF Report, IInv, RowOK, TypeOK, ChildHasItsDocument
<1>5. CASE /\ root = "parsed" /\ root' = "derived"
           /\ handoff' = [handoff EXCEPT !.phase = "child_admitted"]
           /\ Report(c, "child")
  <2>1. Advances
    BY <1>1, <1>2, <1>3, <1>5
       DEF IInv, TypeOK, RowOK, Advances, ChildHasItsDocument, Handoffs, Phases, Admitted
  <2> QED
    BY <1>1, <1>5, <2>1, Returns DEF Report, IInv, TypeOK, ChildHasItsDocument
<1>6. CASE Return(c) /\ UNCHANGED <<handoff, root, told>>
  BY <1>1, <1>6, Still, Returns DEF IInv, TypeOK, ChildHasItsDocument
<1> QED
  BY <1>4, <1>5, <1>6 DEF Admit

\* The root is cancelled, or the child completes, while every call stays where it is.
LEMMA CallsStay ==
  ASSUME IInv, UNCHANGED <<con, snapshot, sent, missing, told>>, Advances,
         handoff'.saved = handoff.saved, root = "derived" <=> root' = "derived"
  PROVE  IInv'
<1>1. TypeOK'
  BY DEF IInv, TypeOK, Advances, At
<1>2. ASSUME NEW d \in Consumers
      PROVE  Sound(con'[d], handoff'.saved, root' = "derived", snapshot')
  BY DEF IInv, Sound
<1> QED
  BY <1>1, <1>2 DEF IInv, ChildHasItsDocument, Advances

LEMMA ChildCompletesKeeps == ASSUME IInv, ChildCompletes PROVE IInv'
<1>1. Advances /\ handoff'.saved = handoff.saved
  BY MovedType DEF ChildCompletes, IInv, TypeOK, RowOK, Advances, ChildHasItsDocument,
                   Phases, Admitted
<1> QED
  BY <1>1, CallsStay DEF ChildCompletes

LEMMA CancelRootKeeps == ASSUME IInv, CancelRoot PROVE IInv'
<1>1. Advances
  BY DEF CancelRoot, IInv, TypeOK, RowOK, Advances, ChildHasItsDocument
<1> QED
  BY <1>1, CallsStay DEF CancelRoot

LEMMA NextKeeps == IInv /\ [Next]_vars => IInv'
<1> SUFFICES ASSUME IInv, [Next]_vars PROVE IInv'
  OBVIOUS
<1>1. CASE UNCHANGED vars
  BY <1>1 DEF vars, IInv, TypeOK, RowOK, ChildHasItsDocument, At
<1>2. CASE ChildCompletes \/ CancelRoot
  BY <1>2, ChildCompletesKeeps, CancelRootKeeps
<1>3. ASSUME NEW c \in Consumers,
             \/ Start(c) \/ ReloadStep(c) \/ Check(c) \/ GiveUp(c) \/ Cancel(c)
             \/ RequestInvalid(c) \/ Claim(c) \/ Submit(c) \/ Poll(c) \/ Answered(c)
      PROVE  IInv'
  BY <1>3, StartKeeps, ReloadKeeps, CheckKeeps, GiveUpKeeps, CancelKeeps, RequestInvalidKeeps,
     ClaimKeeps, SubmitKeeps, PollKeeps, AnsweredKeeps
<1>4. ASSUME NEW c \in Consumers,
             \/ ApplyStatus(c) \/ ApplyError(c) \/ Reconcile(c) \/ Download(c) \/ Retrieved(c)
             \/ Settle(c) \/ Wrap(c) \/ WrapFail(c) \/ Materialize(c) \/ Admit(c)
      PROVE  IInv'
  BY <1>4, ApplyStatusKeeps, ApplyErrorKeeps, ReconcileKeeps, DownloadKeeps, RetrievedKeeps,
     SettleKeeps, WrapKeeps, WrapFailKeeps, MaterializeKeeps, AdmitKeeps
<1> QED
  BY <1>1, <1>2, <1>3, <1>4 DEF Next

-----------------------------------------------------------------------------
(***************************************************************************)
(* The right to submit                                                      *)
(***************************************************************************)
\* One call moves: it may take a token, give one back, or neither.
LEMMA HoldersMove ==
  ASSUME TypeOK, NEW c \in Consumers, NEW k, con' = [con EXCEPT ![c] = k], IsFiniteSet(Holders)
  PROVE  /\ IsFiniteSet(Holders')
         /\ Cardinality(Holders) \in Nat /\ Cardinality(Holders') \in Nat
         /\ MaySubmit(k) /\ ~MaySubmit(con[c]) => Cardinality(Holders') = Cardinality(Holders) + 1
         /\ ~MaySubmit(k) /\ MaySubmit(con[c]) => Cardinality(Holders') = Cardinality(Holders) - 1
         /\ MaySubmit(k) /\ MaySubmit(con[c]) => Cardinality(Holders') = Cardinality(Holders)
         /\ ~MaySubmit(k) /\ ~MaySubmit(con[c]) => Cardinality(Holders') = Cardinality(Holders)
<1>1. con'[c] = k /\ \A d \in Consumers \ {c} : con'[d] = con[d]
  BY DEF TypeOK
<1>2. Holders' = IF MaySubmit(k) THEN Holders \cup {c} ELSE Holders \ {c}
  BY <1>1 DEF Holders, MaySubmit
<1>3. c \in Holders <=> MaySubmit(con[c])
  BY DEF Holders
<1>4. /\ IsFiniteSet(Holders \cup {c}) /\ IsFiniteSet(Holders \ {c})
      /\ Cardinality(Holders \cup {c}) = IF c \in Holders THEN Cardinality(Holders)
                                         ELSE Cardinality(Holders) + 1
      /\ Cardinality(Holders \ {c}) = IF c \in Holders THEN Cardinality(Holders) - 1
                                      ELSE Cardinality(Holders)
  BY FS_AddElement, FS_RemoveElement
<1>5. c \in Holders => Holders \cup {c} = Holders
  OBVIOUS
<1>6. ~(c \in Holders) => Holders \ {c} = Holders
  OBVIOUS
<1> QED
  BY <1>2, <1>3, <1>4, <1>5, <1>6, FS_CardinalityType

\* No step but these two makes the row prepared, sends, or counts a denial.
Plain == /\ sent' = sent /\ missing' = missing
         /\ handoff'.phase = "prepared" => handoff.phase = "prepared"

\* A call that takes no token keeps the count.
LEMMA PlainKeeps ==
  ASSUME IInv, TokenInv, NEW c \in Consumers, NEW k, con' = [con EXCEPT ![c] = k], Plain,
         MaySubmit(k) => MaySubmit(con[c])
  PROVE  TokenInv'
<1>1. TypeOK /\ sent \in Nat /\ missing \in Nat
  BY DEF IInv, TypeOK
<1>2. /\ IsFiniteSet(Holders') /\ Cardinality(Holders') \in Nat /\ Cardinality(Holders) \in Nat
      /\ \/ Cardinality(Holders') = Cardinality(Holders)
         \/ Cardinality(Holders') = Cardinality(Holders) - 1
  BY <1>1, HoldersMove DEF TokenInv
<1>3. Unclaimed' \in {0, 1} /\ Unclaimed \in {0, 1} /\ Unclaimed' <= Unclaimed
  BY DEF Unclaimed, Plain
<1> QED
  BY <1>1, <1>2, <1>3 DEF TokenInv, Plain

\* A claim exchanges the row's token for the call's.
LEMMA ClaimToken ==
  ASSUME IInv, TokenInv, NEW c \in Consumers, Claim(c) PROVE TokenInv'
<1>1. TypeOK /\ sent \in Nat /\ missing \in Nat /\ con[c] \in Calls /\ handoff \in Handoffs
      /\ con[c].pc = "claim" /\ sent' = sent /\ missing' = missing
  BY Busy DEF IInv, TypeOK, Claim, Outside, At
<1>2. ~MaySubmit(con[c])
  BY <1>1 DEF MaySubmit
<1>3. CASE handoff.phase = "prepared"
  <2> DEFINE k == [con[c] EXCEPT !.pc = "reload", !.next = "submit"]
  <2>1. con' = [con EXCEPT ![c] = k]
    BY <1>1, <1>3 DEF Claim, ClaimNext, Reload
  <2>2. MaySubmit(k)
    BY <1>1 DEF MaySubmit, Calls
  <2> HIDE DEF k
  <2>3. /\ IsFiniteSet(Holders') /\ Cardinality(Holders) \in Nat
        /\ Cardinality(Holders') = Cardinality(Holders) + 1
    BY <1>1, <1>2, <2>1, <2>2, HoldersMove DEF TokenInv
  <2>4. Unclaimed = 1 /\ Unclaimed' = 0
    BY <1>1, <1>3 DEF Claim, Moved, Unclaimed, Handoffs
  <2> QED
    BY <1>1, <2>3, <2>4 DEF TokenInv
<1>4. CASE handoff.phase # "prepared"
  <2> DEFINE k == [con[c] EXCEPT !.pc = "reload", !.next = "check"]
  <2>1. con' = [con EXCEPT ![c] = k]
    BY <1>1, <1>4 DEF Claim, ClaimNext, Reload
  <2>2. ~MaySubmit(k)
    BY <1>1 DEF MaySubmit, Calls
  <2>3. handoff' = handoff
    BY <1>4 DEF Claim, Moved
  <2> HIDE DEF k
  <2> QED
    BY <1>1, <2>1, <2>2, <2>3, PlainKeeps DEF Plain
<1> QED
  BY <1>3, <1>4

\* A submission uses the call's token up.
LEMMA SubmitToken ==
  ASSUME IInv, TokenInv, NEW c \in Consumers, Submit(c) PROVE TokenInv'
<1>1. TypeOK /\ sent \in Nat /\ missing \in Nat /\ con[c] \in Calls /\ con[c].pc = "submit"
      /\ sent' = sent + 1 /\ missing' = missing /\ handoff' = handoff
  BY Busy DEF IInv, TypeOK, Submit, At
<1>2. PICK a \in Statuses \cup Errors : Exchanged(c, a)
  BY DEF Submit
<1> DEFINE k == [con[c] EXCEPT !.pc = "answered", !.answer = a, !.next = con[c].pc]
<1>3. con' = [con EXCEPT ![c] = k] /\ ~MaySubmit(k) /\ MaySubmit(con[c])
  BY <1>1, <1>2 DEF Exchanged, MaySubmit, Calls
<1> HIDE DEF k
<1>4. /\ IsFiniteSet(Holders') /\ Cardinality(Holders) \in Nat
      /\ Cardinality(Holders') = Cardinality(Holders) - 1
  BY <1>1, <1>3, HoldersMove DEF TokenInv
<1>5. Unclaimed' = Unclaimed /\ Unclaimed \in {0, 1}
  BY <1>1 DEF Unclaimed
<1> QED
  BY <1>1, <1>4, <1>5 DEF TokenInv

\* A denial is counted, and comes with a token.
LEMMA PollToken ==
  ASSUME IInv, TokenInv, NEW c \in Consumers, Poll(c) PROVE TokenInv'
<1>1. TypeOK /\ sent \in Nat /\ missing \in Nat /\ con[c] \in Calls /\ con[c].pc = "poll"
      /\ sent' = sent /\ handoff' = handoff
  BY Busy DEF IInv, TypeOK, Poll, At
<1>2. PICK a \in Statuses \cup Errors :
        /\ missing' = IF a = Answer("not_found") THEN missing + 1 ELSE missing
        /\ Exchanged(c, a)
  BY DEF Poll
<1> DEFINE k == [con[c] EXCEPT !.pc = "answered", !.answer = a, !.next = con[c].pc]
<1>3. /\ con' = [con EXCEPT ![c] = k] /\ ~MaySubmit(con[c])
      /\ MaySubmit(k) <=> a = Answer("not_found")
  BY <1>1, <1>2 DEF Exchanged, MaySubmit, Calls
<1> HIDE DEF k
<1>4. Unclaimed' = Unclaimed /\ Unclaimed \in {0, 1}
  BY <1>1 DEF Unclaimed
<1>5. /\ IsFiniteSet(Holders') /\ Cardinality(Holders) \in Nat
      /\ Cardinality(Holders') = IF a = Answer("not_found") THEN Cardinality(Holders) + 1
                                 ELSE Cardinality(Holders)
  <2>1. CASE a = Answer("not_found")
    BY <1>1, <1>3, <2>1, HoldersMove DEF TokenInv
  <2>2. CASE a # Answer("not_found")
    BY <1>1, <1>3, <2>2, HoldersMove DEF TokenInv
  <2> QED
    BY <2>1, <2>2
<1> QED
  BY <1>1, <1>2, <1>4, <1>5 DEF TokenInv

\* The call that moves does not come by a token.
TakesNone(c) == \E k : con' = [con EXCEPT ![c] = k] /\ (MaySubmit(k) => MaySubmit(con[c]))

LEMMA GotoTakesNone ==
  ASSUME IInv, NEW c \in Consumers, con[c].pc # "idle",
         NEW pc, pc \notin {"submit", "reload", "answered", "apply"}, Goto(c, pc)
  PROVE  TakesNone(c)
<1> DEFINE k == [con[c] EXCEPT !.pc = pc]
<1>1. con[c] \in Calls
  BY Busy DEF IInv
<1>2. con' = [con EXCEPT ![c] = k] /\ k.pc = pc
  BY <1>1 DEF Goto, Calls
<1> HIDE DEF k
<1>3. ~MaySubmit(k)
  BY <1>2 DEF MaySubmit
<1> QED
  BY <1>2, <1>3 DEF TakesNone

LEMMA ReloadTakesNone ==
  ASSUME IInv, NEW c \in Consumers, con[c].pc # "idle",
         NEW next, next # "submit", Reload(c, next)
  PROVE  TakesNone(c)
<1> DEFINE k == [con[c] EXCEPT !.pc = "reload", !.next = next]
<1>1. con[c] \in Calls
  BY Busy DEF IInv
<1>2. con' = [con EXCEPT ![c] = k] /\ k.pc = "reload" /\ k.next = next
  BY <1>1 DEF Reload, Calls
<1> HIDE DEF k
<1>3. ~MaySubmit(k)
  BY <1>2 DEF MaySubmit
<1> QED
  BY <1>2, <1>3 DEF TakesNone

LEMMA ReturnTakesNone ==
  ASSUME NEW c \in Consumers, Return(c) PROVE TakesNone(c)
<1>1. ~MaySubmit(Idle)
  BY DEF MaySubmit, Idle
<1> QED
  BY <1>1 DEF Return, TakesNone

\* The steps before an answer is used.
LEMMA EarlyStepsTakeNone ==
  ASSUME IInv, NEW c \in Consumers,
         \/ Start(c) \/ ReloadStep(c) \/ Check(c) \/ GiveUp(c) \/ Cancel(c)
         \/ RequestInvalid(c) \/ Answered(c)
  PROVE  Plain /\ TakesNone(c)
<1>1. Plain
  BY DEF Start, ReloadStep, Check, GiveUp, Cancel, CancelFail, RequestInvalid, Answered, Local,
         Outside, Plain, Moved, IInv, TypeOK, Handoffs
<1>2. CASE Start(c)
  <2>1. ~MaySubmit(Call("check", handoff))
    BY DEF MaySubmit, Call
  <2> QED
    BY <1>1, <1>2, <2>1 DEF Start, TakesNone
<1>3. CASE ReloadStep(c)
  <2> DEFINE k == [con[c] EXCEPT !.pc = con[c].next, !.loaded = handoff]
  <2>1. con[c] \in Calls /\ con[c].pc = "reload"
    BY <1>3, Busy DEF ReloadStep, At, IInv
  <2>2. con' = [con EXCEPT ![c] = k] /\ k.pc = con[c].next /\ k.pc \in {"check", "submit", "poll", "cancel"}
    BY <1>3, <2>1 DEF ReloadStep, Calls
  <2> HIDE DEF k
  <2>3. MaySubmit(k) => MaySubmit(con[c])
    BY <2>1, <2>2 DEF MaySubmit
  <2> QED
    BY <1>1, <2>2, <2>3 DEF TakesNone
<1>4. CASE Check(c)
  <2>1. con[c] \in Calls /\ con[c].pc # "idle" /\ con[c].loaded.phase \in Phases
    BY <1>4, Busy DEF Check, At, IInv, Calls, Handoffs
  <2>2. Target(con[c].loaded) \in {"claim", "poll", "retrieve", "materialize", "failed"}
    BY <2>1 DEF Target, Phases, Owned, Admitted
  <2> QED
    BY <1>1, <1>4, <2>1, <2>2, GotoTakesNone, ReturnTakesNone DEF Check, Checkpoint
<1>5. CASE GiveUp(c)
  BY <1>1, <1>5, ReturnTakesNone DEF GiveUp
<1>6. CASE Cancel(c)
  BY <1>1, <1>6, ReturnTakesNone, ReloadTakesNone DEF Cancel, CancelFail, Report, At
<1>7. CASE RequestInvalid(c)
  BY <1>1, <1>7, GotoTakesNone DEF RequestInvalid, At
<1>8. CASE Answered(c) /\ Goto(c, "cancel")
  BY <1>1, <1>8, GotoTakesNone DEF Answered, At
<1>9. CASE Answered(c) /\ Goto(c, "apply")
  <2> DEFINE k == [con[c] EXCEPT !.pc = "apply"]
  <2>1. con[c] \in Calls /\ con[c].pc = "answered"
    BY <1>9, Busy DEF Answered, At, IInv
  <2>2. con' = [con EXCEPT ![c] = k] /\ k.pc = "apply" /\ k.next = con[c].next /\ k.answer = con[c].answer
    BY <1>9, <2>1 DEF Goto, Calls
  <2> HIDE DEF k
  <2>3. MaySubmit(k) => MaySubmit(con[c])
    BY <2>1, <2>2 DEF MaySubmit
  <2> QED
    BY <1>1, <2>2, <2>3 DEF TakesNone
<1> QED
  BY <1>1, <1>2, <1>3, <1>4, <1>5, <1>6, <1>7, <1>8, <1>9 DEF Answered, Checkpoint

\* The steps that use a status, and those of the retrieval and the child.
LEMMA LateStepsTakeNone ==
  ASSUME IInv, NEW c \in Consumers,
         \/ ApplyStatus(c) \/ Reconcile(c) \/ Download(c) \/ Retrieved(c)
         \/ Settle(c) \/ Wrap(c) \/ WrapFail(c) \/ Materialize(c) \/ Admit(c)
  PROVE  Plain /\ TakesNone(c)
<1>1. con[c] \in Calls /\ con[c].pc # "idle" /\ handoff \in Handoffs
  BY Busy DEF IInv, TypeOK, At, ApplyStatus, Reconcile, Download, Retrieved, Settle, Wrap,
              WrapFail, Materialize, Admit
<1>2. CASE ApplyStatus(c)
  <2>1. CASE ApplyInline(c, con[c].loaded.phase, con[c].answer)
    BY <1>1, <1>2, <2>1, ReloadTakesNone, ReturnTakesNone
       DEF ApplyStatus, ApplyInline, Outside, Plain, Moved, Stored, Handoffs
  <2>2. CASE SaveStatus(c, con[c].loaded, con[c].answer)
    BY <1>1, <1>2, <2>2, ReloadTakesNone, GotoTakesNone
       DEF ApplyStatus, SaveStatus, Outside, Plain, Handoffs
  <2> QED
    BY <1>2, <2>1, <2>2 DEF ApplyStatus
<1>3. CASE Reconcile(c) \/ Download(c)
  <2>1. Plain
    BY <1>3 DEF Reconcile, Download, Local, Outside, Plain
  <2>2. ASSUME NEW a, con' = [con EXCEPT ![c].pc = "retrieved", ![c].answer = a]
        PROVE  TakesNone(c)
    <3> DEFINE k == [con[c] EXCEPT !.pc = "retrieved", !.answer = a]
    <3>1. con' = [con EXCEPT ![c] = k] /\ k.pc = "retrieved"
      BY <1>1, <2>2 DEF Calls
    <3> HIDE DEF k
    <3>2. ~MaySubmit(k)
      BY <3>1 DEF MaySubmit
    <3> QED
      BY <3>1, <3>2 DEF TakesNone
  <2> QED
    BY <1>1, <1>3, <2>1, <2>2, GotoTakesNone DEF Reconcile, Download
<1>4. CASE Retrieved(c)
  BY <1>1, <1>4, GotoTakesNone DEF Retrieved, Checkpoint, Local, Outside, Plain
<1>5. CASE Settle(c)
  BY <1>1, <1>5, GotoTakesNone, ReloadTakesNone, ReturnTakesNone
     DEF Settle, Outside, Plain, Moved, Stored, Handoffs
<1>6. CASE Wrap(c)
  <2>1. Plain
    BY <1>6 DEF Wrap, Local, Outside, Plain
  <2>2. CASE con' = [con EXCEPT ![c].pc = "fail", ![c].loaded = handoff]
    <3> DEFINE k == [con[c] EXCEPT !.pc = "fail", !.loaded = handoff]
    <3>1. con' = [con EXCEPT ![c] = k] /\ k.pc = "fail"
      BY <1>1, <2>2 DEF Calls
    <3> HIDE DEF k
    <3>2. ~MaySubmit(k)
      BY <3>1 DEF MaySubmit
    <3> QED
      BY <2>1, <3>1, <3>2 DEF TakesNone
  <2> QED
    BY <1>6, <2>1, <2>2, ReturnTakesNone DEF Wrap
<1>7. CASE WrapFail(c)
  BY <1>1, <1>7, ReturnTakesNone DEF WrapFail, Outside, Plain, Moved, Handoffs
<1>8. CASE Materialize(c)
  BY <1>1, <1>8, GotoTakesNone, ReturnTakesNone
     DEF Materialize, Materialized, Report, Plain
<1>9. CASE Admit(c)
  BY <1>1, <1>9, ReturnTakesNone DEF Admit, Report, Plain, Handoffs
<1> QED
  BY <1>2, <1>3, <1>4, <1>5, <1>6, <1>7, <1>8, <1>9

\* A denial's token goes back to the row, or is lost.
LEMMA ApplyErrorToken ==
  ASSUME IInv, TokenInv, NEW c \in Consumers, ApplyError(c) PROVE TokenInv'
<1>1. /\ con[c] \in Calls /\ con[c].pc = "apply" /\ handoff \in Handoffs
      /\ sent' = sent /\ missing' = missing /\ sent \in Nat /\ missing \in Nat /\ TypeOK
  BY Busy DEF IInv, TypeOK, At, ApplyError, Outside
<1> DEFINE back == con[c].answer.kind = "not_found" /\ con[c].next # "submit"
                   /\ handoff.phase = "submission_uncertain"
                   /\ handoff' = Moved("submission_uncertain", "prepared") /\ Reload(c, "check")
<1>2. CASE back
  <2> DEFINE k == [con[c] EXCEPT !.pc = "reload", !.next = "check"]
  <2>1. con' = [con EXCEPT ![c] = k] /\ k.pc = "reload" /\ k.next = "check"
    BY <1>1, <1>2 DEF Reload, Calls
  <2> HIDE DEF k
  <2>2. ~MaySubmit(k)
    BY <2>1 DEF MaySubmit
  <2>3. con[c].answer = Answer("not_found")
    BY <1>2 DEF ApplyError, Errors, Answer
  <2>4. MaySubmit(con[c])
    BY <1>1, <1>2, <2>3 DEF MaySubmit
  <2>5. /\ IsFiniteSet(Holders') /\ Cardinality(Holders) \in Nat
        /\ Cardinality(Holders') = Cardinality(Holders) - 1
    BY <1>1, <2>1, <2>2, <2>4, HoldersMove DEF TokenInv
  <2>6. Unclaimed = 0 /\ Unclaimed' \in {0, 1}
    BY <1>2 DEF Unclaimed
  <2> QED
    BY <1>1, <2>5, <2>6 DEF TokenInv
<1>3. CASE ~back
  <2>1. Reload(c, "check") \/ Return(c) \/ Goto(c, "wrap")
    BY DEF ApplyError
  <2>2. TakesNone(c)
    BY <1>1, <2>1, ReloadTakesNone, ReturnTakesNone, GotoTakesNone
  <2>3. Plain
    BY <1>1, <1>3 DEF ApplyError, Plain, Moved, Handoffs
  <2> QED
    BY <2>2, <2>3, PlainKeeps DEF TakesNone
<1> QED
  BY <1>2, <1>3

LEMMA TokensKept == IInv /\ TokenInv /\ [Next]_vars => TokenInv'
<1> SUFFICES ASSUME IInv, TokenInv, [Next]_vars PROVE TokenInv'
  OBVIOUS
<1>1. CASE UNCHANGED vars
  BY <1>1 DEF vars, TokenInv, Holders, Unclaimed
<1>2. CASE ChildCompletes \/ CancelRoot
  <2>1. con' = con /\ Plain
    BY <1>2 DEF ChildCompletes, CancelRoot, Plain, Moved, IInv, TypeOK, Handoffs
  <2>2. Holders' = Holders
    BY <2>1 DEF Holders
  <2>3. Unclaimed' \in {0, 1} /\ Unclaimed \in {0, 1} /\ Unclaimed' <= Unclaimed
    BY <2>1 DEF Unclaimed, Plain
  <2>4. sent \in Nat /\ missing \in Nat /\ Cardinality(Holders) \in Nat
    BY FS_CardinalityType DEF IInv, TypeOK, TokenInv
  <2> QED
    BY <2>1, <2>2, <2>3, <2>4 DEF TokenInv, Plain
<1>3. ASSUME NEW c \in Consumers, Claim(c) \/ Submit(c) \/ Poll(c) \/ ApplyError(c)
      PROVE  TokenInv'
  BY <1>3, ClaimToken, SubmitToken, PollToken, ApplyErrorToken
<1>4. ASSUME NEW c \in Consumers, Plain, TakesNone(c)
      PROVE  TokenInv'
  BY <1>4, PlainKeeps DEF TakesNone
<1>5. ASSUME NEW c \in Consumers,
             \/ Start(c) \/ ReloadStep(c) \/ Check(c) \/ GiveUp(c) \/ Cancel(c)
             \/ RequestInvalid(c) \/ Answered(c)
      PROVE  TokenInv'
  BY <1>4, <1>5, EarlyStepsTakeNone
<1>6. ASSUME NEW c \in Consumers,
             \/ ApplyStatus(c) \/ Reconcile(c) \/ Download(c) \/ Retrieved(c)
             \/ Settle(c) \/ Wrap(c) \/ WrapFail(c) \/ Materialize(c) \/ Admit(c)
      PROVE  TokenInv'
  BY <1>4, <1>6, LateStepsTakeNone
<1> QED
  BY <1>1, <1>2, <1>3, <1>5, <1>6 DEF Next

LEMMA TokensAtFirst == Init => TokenInv
<1> SUFFICES ASSUME Init PROVE TokenInv
  OBVIOUS
<1>1. Holders = {}
  BY DEF Init, Holders, MaySubmit, Idle
<1>2. Unclaimed = 1 /\ sent = 0 /\ missing = 0
  BY DEF Init, Unclaimed, Prepared
<1> QED
  BY <1>1, <1>2, FS_EmptySet DEF TokenInv

-----------------------------------------------------------------------------
(***************************************************************************)
(* Theorems                                                                 *)
(***************************************************************************)
\* The row, the calls and the counters keep their types, for any consumers and results.
THEOREM ExchangeTypeCorrect == Spec => []TypeOK
<1>1. IInv => TypeOK
  BY DEF IInv
<1> QED
  BY <1>1, Initially, NextKeeps, PTL DEF Spec

\* However many coordinators of a handoff overlap, stop and start again, one of them submits
\* a second time only for a denial of the provider (run_handoff_until's claim of the phase).
THEOREM NoReplayWithoutDenial == Spec => []NoUnclearedReplay
<1>1. IInv /\ TokenInv => NoUnclearedReplay
  <2> SUFFICES ASSUME IInv, TokenInv PROVE NoUnclearedReplay
    OBVIOUS
  <2>1. /\ sent \in Nat /\ missing \in Nat /\ Cardinality(Holders) \in Nat
        /\ Unclaimed \in {0, 1}
    BY FS_CardinalityType DEF IInv, TypeOK, TokenInv, Unclaimed
  <2> QED
    BY <2>1 DEF TokenInv, NoUnclearedReplay
<1> QED
  BY <1>1, Initially, NextKeeps, TokensAtFirst, TokensKept, PTL DEF Spec

\* A child is admitted, and returned to a caller, only with its document's file in place
\* (materialize_derived before admit_ocr_child).
THEOREM AdmittedChildHasDocument == Spec => []ChildHasItsDocument
<1>1. IInv => ChildHasItsDocument
  BY DEF IInv
<1> QED
  BY <1>1, Initially, NextKeeps, PTL DEF Spec

\* No step replaces a saved completion.
LEMMA SavedIsPinned ==
  ASSUME IInv, [Next]_vars, protocol = 3, handoff.saved # NoResult
  PROVE  handoff'.saved = handoff.saved
<1>1. handoff \in Handoffs
  BY DEF IInv, TypeOK
<1>2. CASE UNCHANGED handoff
  BY <1>2
<1>3. ASSUME NEW from, NEW to, handoff' = Moved(from, to)
      PROVE  handoff'.saved = handoff.saved
  BY <1>1, <1>3 DEF Moved, Handoffs
<1>4. ASSUME NEW c \in Consumers, ApplyStatus(c) PROVE handoff'.saved = handoff.saved
  <2>1. SaveStatus(c, con[c].loaded, con[c].answer)
    BY <1>4 DEF ApplyStatus
  <2> QED
    BY <1>1, <2>1 DEF SaveStatus, Handoffs
<1>5. ASSUME NEW c \in Consumers, Settle(c) PROVE handoff'.saved = handoff.saved
  <2>1. con[c].loaded.saved = handoff.saved
    <3>1. con[c].pc = "settle" /\ con[c] \in Calls /\ con[c] # Idle
          /\ Sound(con[c], handoff.saved, root = "derived", snapshot)
      BY <1>5, Busy DEF Settle, At, IInv
    <3> QED
      BY <3>1 DEF Sound, Retrieving
  <2> QED
    BY <1>1, <1>3, <1>5, <2>1 DEF Settle, Stored, Handoffs
<1>6. ASSUME NEW c \in Consumers, Admit(c) PROVE handoff'.saved = handoff.saved
  BY <1>1, <1>6 DEF Admit, Handoffs
<1>7. ASSUME NEW c \in Consumers,
             \/ Start(c) \/ ReloadStep(c) \/ Check(c) \/ GiveUp(c) \/ Submit(c) \/ Poll(c)
             \/ Answered(c) \/ Reconcile(c) \/ Download(c) \/ Retrieved(c) \/ Wrap(c)
             \/ Materialize(c)
      PROVE  UNCHANGED handoff
  BY <1>7 DEF Start, ReloadStep, Check, GiveUp, Submit, Poll, Answered, Reconcile, Download,
              Retrieved, Wrap, Materialize, Local
<1>8. ASSUME NEW c \in Consumers,
             Cancel(c) \/ RequestInvalid(c) \/ Claim(c) \/ ApplyError(c) \/ WrapFail(c)
      PROVE  UNCHANGED handoff \/ \E from, to : handoff' = Moved(from, to)
  BY <1>8 DEF Cancel, CancelFail, RequestInvalid, Claim, ApplyError, WrapFail
<1>9. ChildCompletes => handoff' = Moved("child_admitted", "completed")
  BY DEF ChildCompletes
<1> QED
  BY <1>2, <1>3, <1>4, <1>5, <1>6, <1>7, <1>8, <1>9 DEF Next, vars, CancelRoot

\* With protocol 3 no late or contradicting status replaces the first completion, and the
\* outputs stored are the ones it describes (save_status, store_streamed_outputs).
THEOREM FirstCompletionStays == Spec => CompletionIsPinned
<1>1. IInv /\ [Next]_vars =>
        [protocol = 3 =>
           /\ handoff.saved # NoResult => handoff'.saved = handoff.saved
           /\ handoff'.outputs # NoResult => handoff'.outputs = handoff'.saved]_vars
  <2> SUFFICES ASSUME IInv, [Next]_vars, protocol = 3
               PROVE  /\ handoff.saved # NoResult => handoff'.saved = handoff.saved
                      /\ handoff'.outputs # NoResult => handoff'.outputs = handoff'.saved
    OBVIOUS
  <2>1. IInv'
    BY NextKeeps
  <2>2. protocol' = 3
    BY DEF Next, vars, ChildCompletes, CancelRoot, Start, ReloadStep, Check, GiveUp, Cancel,
           RequestInvalid, Claim, Submit, Poll, Answered, ApplyStatus, ApplyError, Reconcile,
           Download, Retrieved, Settle, Wrap, WrapFail, Materialize, Admit, Local, Outside
  <2> QED
    BY <2>1, <2>2, SavedIsPinned DEF IInv, RowOK
<1> QED
  BY <1>1, Initially, NextKeeps, PTL DEF Spec, CompletionIsPinned
=============================================================================
