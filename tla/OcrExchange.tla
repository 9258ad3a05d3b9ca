----------------------------- MODULE OcrExchange -----------------------------
(***************************************************************************)
(* One OCR handoff between its preparation (PipelineStore) and the end of   *)
(* the exchange: the loop of run_handoff_until and its transport calls, as  *)
(* carried out by consumers that may overlap - a restarted recovery, or two *)
(* coordinators with connections of their own - and that may stop anywhere. *)
(*                                                                          *)
(* A consumer works on the handoff it last loaded; only a compare-and-set   *)
(* on the phase, or the transaction of protocol 3, meets the row as it is   *)
(* now. The provider is external and not trusted: it may answer anything at *)
(* any time, forget a job, or not be heard.                                 *)
(***************************************************************************)
EXTENDS Naturals

CONSTANTS Consumers,   \* coordinators of this handoff
          Results,     \* completed results: the descriptors of a PDF and its text
          NoResult,    \* no completion saved, no output stored
          MaxMissing   \* bound: how often the provider says it does not know the job

ASSUME NoResultAssumption == NoResult \notin Results
ASSUME MaxMissingAssumption == MaxMissing \in Nat

VARIABLES protocol,  \* of the selected provider: 2 answers with the outputs, 3 describes them
          handoff,   \* the row of ocr_handoffs
          root,      \* the root run: parsed, cancelling, or failed in favour of its child
          snapshot,  \* the file the child's document points at
          con,       \* each consumer's call: where it is and what it has loaded
          sent,      \* submissions given to the transport
          missing,   \* status answers that the job is not known
          told       \* outcomes the calls have returned

vars == <<protocol, handoff, root, snapshot, con, sent, missing, told>>

Owned == {"prepared", "submission_uncertain", "running"}
Admitted == {"child_admitted", "completed"}
Phases == Owned \cup {"output_ready", "failed"} \cup Admitted

\* saved: the completed descriptors in provider_status_json, of protocol 3 only.
Handoffs == [phase : Phases, saved : Results \cup {NoResult}, outputs : Results \cup {NoResult}]
Prepared == [phase |-> "prepared", saved |-> NoResult, outputs |-> NoResult]

\* What a submission or a status call comes to: a status (completed carries its result), one
\* that does not match the request, or a TransportError.
Answer(kind) == [kind |-> kind, result |-> NoResult]
Statuses == {Answer(k) : k \in {"processing", "failed", "mismatch"}}
              \cup [kind : {"completed"}, result : Results]
Errors == {Answer(k) : k \in {"invalid", "refused", "not_found", "uncertain"}}

\* What retrieve_verified comes to.
Retrievals == {Answer(k) : k \in {"verified", "invalid", "error"}}

Idle == [pc |-> "idle"]
Call(pc, h) == [pc |-> pc, loaded |-> h, answer |-> Answer("uncertain"), next |-> "check"]
Calls == [pc : {"check", "claim", "reload", "submit", "poll", "answered", "apply", "retrieve", "download",
                "retrieved", "settle", "materialize", "admit", "cancel", "wrap", "fail"},
          loaded : Handoffs, answer : Statuses \cup Errors \cup Retrievals,
          next : {"check", "submit", "poll", "cancel"}]

Init == /\ protocol \in {2, 3}
        /\ handoff = Prepared
        /\ root = "parsed"
        /\ snapshot = FALSE
        /\ con = [c \in Consumers |-> Idle]
        /\ sent = 0 /\ missing = 0
        /\ told = {}

-----------------------------------------------------------------------------
(***************************************************************************)
(* The row: transition_ocr_handoff, fail_ocr_handoff, store_ocr_outputs     *)
(***************************************************************************)
Moved(from, to) == IF handoff.phase = from THEN [handoff EXCEPT !.phase = to] ELSE handoff

Stored(from, v) ==
  IF handoff.phase = from
  THEN [phase |-> "output_ready", outputs |-> v,
        saved |-> IF protocol = 3 THEN v ELSE handoff.saved]
  ELSE handoff

At(c, pc) == con[c].pc = pc
Goto(c, pc) == con' = [con EXCEPT ![c].pc = pc]
Reload(c, next) == con' = [con EXCEPT ![c].pc = "reload", ![c].next = next]
Return(c) == con' = [con EXCEPT ![c] = Idle]
Report(c, outcome) == Return(c) /\ told' = told \cup {outcome}

Outside == UNCHANGED <<protocol, root, snapshot, sent, missing>>
Local == Outside /\ UNCHANGED <<handoff, told>>

\* cancellation_checkpoint: the root is read; if it is being cancelled, the handoff is failed
\* first, else the call goes on.
Checkpoint(c, next) == Goto(c, IF root = "cancelling" THEN "cancel" ELSE next)

Start(c) ==
  /\ At(c, "idle")
  /\ con' = [con EXCEPT ![c] = Call("check", handoff)]
  /\ Local

ReloadStep(c) ==
  /\ At(c, "reload")
  /\ con' = [con EXCEPT ![c].pc = con[c].next, ![c].loaded = handoff]
  /\ Local

\* The top of the loop: what to do depends on the phase that was loaded.
Target(h) ==
  CASE h.phase = "prepared" -> "claim"
    [] h.phase = "submission_uncertain" -> "poll"
    [] h.phase = "running" -> IF protocol = 3 /\ h.saved # NoResult THEN "retrieve" ELSE "poll"
    [] h.phase \in Admitted \cup {"output_ready"} -> "materialize"
    [] h.phase = "failed" -> "failed"

Check(c) ==
  /\ At(c, "check")
  /\ \/ /\ Target(con[c].loaded) # "failed" \/ root = "cancelling"
        /\ Checkpoint(c, Target(con[c].loaded))
     \/ /\ Target(con[c].loaded) = "failed" /\ root # "cancelling"
        /\ Return(c)
  /\ Local

\* The deadline, a database or file error, an unauthorized call, or the end of the process.
GiveUp(c) == ~At(c, "idle") /\ Return(c) /\ Local

-----------------------------------------------------------------------------
(***************************************************************************)
(* cancellation_checkpoint's loop. Its way out for an admitted handoff is    *)
(* never taken: a root that is being cancelled has no child (Admit).        *)
(***************************************************************************)
\* Only the call that moved the row may say it was cancelled; otherwise the row is read again.
CancelFail(c) ==
  /\ handoff' = Moved(con[c].loaded.phase, "failed")
  /\ \/ /\ handoff.phase = con[c].loaded.phase
        /\ Report(c, "cancelled")
     \/ /\ handoff.phase # con[c].loaded.phase
        /\ Reload(c, "cancel")
        /\ UNCHANGED told

Cancel(c) ==
  /\ At(c, "cancel")
  /\ \/ /\ con[c].loaded.phase \notin Admitted \cup {"failed"}
        /\ CancelFail(c)
     \/ /\ con[c].loaded.phase = "failed"
        /\ Report(c, "cancelled")
        /\ UNCHANGED handoff
  /\ Outside

-----------------------------------------------------------------------------
(***************************************************************************)
(* Submission and status                                                    *)
(***************************************************************************)
\* The saved request no longer passes validate_saved_request.
RequestInvalid(c) ==
  /\ At(c, "claim")
  /\ handoff' = Moved("prepared", "failed")
  /\ Goto(c, "wrap")
  /\ Outside /\ UNCHANGED told

ClaimNext_Anyway(c) == Reload(c, "submit")

\* Only the consumer whose compare-and-set took the phase submits.
ClaimNext(c) == Reload(c, IF handoff.phase = "prepared" THEN "submit" ELSE "check")

Claim(c) ==
  /\ At(c, "claim")
  /\ handoff' = Moved("prepared", "submission_uncertain")
  /\ ClaimNext(c)
  /\ Outside /\ UNCHANGED told

Exchanged(c, a) == con' = [con EXCEPT ![c].pc = "answered", ![c].answer = a,
                                      ![c].next = con[c].pc]

\* The transport returns: the answer was the provider's some time ago.
Submit(c) ==
  /\ At(c, "submit")
  /\ sent' = sent + 1
  /\ \E a \in Statuses \cup Errors : Exchanged(c, a)
  /\ UNCHANGED <<protocol, handoff, root, snapshot, missing, told>>

Poll(c) ==
  /\ At(c, "poll")
  /\ \E a \in Statuses \cup Errors :
       /\ a = Answer("not_found") => missing < MaxMissing
       /\ missing' = IF a = Answer("not_found") THEN missing + 1 ELSE missing
       /\ Exchanged(c, a)
  /\ UNCHANGED <<protocol, handoff, root, snapshot, sent, told>>

\* The checkpoint between an answer and its use.
Answered(c) ==
  /\ At(c, "answered")
  /\ Checkpoint(c, "apply")
  /\ Local

\* apply_inline_status (protocol 2): compare-and-sets on the phase that was loaded.
ApplyInline(c, from, a) ==
  \/ /\ a.kind = "processing"
     /\ handoff' = Moved(from, "running") /\ Reload(c, "check")
  \/ /\ a.kind = "completed"
     /\ handoff' = Stored(from, a.result) /\ Reload(c, "check")
  \/ /\ a.kind \in {"failed", "mismatch"}
     /\ handoff' = Moved(from, "failed") /\ Return(c)

\* save_status (protocol 3), in one transaction: a status is judged against the row as it is.
SaveStatus_Snapshot(c, h, a) ==
  \/ /\ a.kind = "processing" \/ (a.kind = "completed" /\ h.saved \in {NoResult, a.result})
     /\ handoff' = IF handoff.phase # h.phase THEN handoff
                   ELSE [handoff EXCEPT !.phase = "running",
                                        !.saved = IF a.kind = "completed" THEN a.result ELSE @]
     /\ Reload(c, "check")
  \/ /\ a.kind \in {"failed", "mismatch"} \/ (a.kind = "completed" /\ h.saved \notin {NoResult, a.result})
     /\ handoff' = Moved(h.phase, "failed")
     /\ Goto(c, "wrap")

SaveStatus(c, h, a) ==
  \/ /\ handoff.phase # h.phase \/ (a.kind = "processing" /\ handoff.saved # NoResult)
     /\ UNCHANGED handoff /\ Reload(c, "check")
  \/ /\ handoff.phase = h.phase
     /\ \/ /\ a.kind = "processing" /\ handoff.saved = NoResult
           /\ handoff' = [handoff EXCEPT !.phase = "running"] /\ Reload(c, "check")
        \/ /\ a.kind = "completed" /\ handoff.saved \in {NoResult, a.result}
           /\ handoff' = [handoff EXCEPT !.phase = "running", !.saved = a.result]
           /\ Reload(c, "check")
        \/ /\ \/ a.kind \in {"failed", "mismatch"}
              \/ a.kind = "completed" /\ handoff.saved \notin {NoResult, a.result}
           /\ handoff' = [handoff EXCEPT !.phase = "failed"] /\ Goto(c, "wrap")

ApplyStatus(c) ==
  /\ At(c, "apply") /\ con[c].answer \in Statuses
  /\ \/ protocol = 2 /\ ApplyInline(c, con[c].loaded.phase, con[c].answer)
     \/ protocol = 3 /\ SaveStatus(c, con[c].loaded, con[c].answer)
  /\ Outside /\ UNCHANGED told

\* A transport error: only a refused submission fails the handoff, only an unknown job that
\* was never seen running goes back to prepared.
ApplyError(c) ==
  /\ At(c, "apply") /\ con[c].answer \in Errors
  /\ LET kind == con[c].answer.kind
         submitted == con[c].next = "submit"
         polledUnsure == ~submitted /\ con[c].loaded.phase = "submission_uncertain" IN
     \/ /\ kind = "uncertain"
        /\ UNCHANGED handoff /\ Reload(c, "check")
     \/ /\ kind = "not_found" /\ polledUnsure
        /\ handoff' = Moved("submission_uncertain", "prepared") /\ Reload(c, "check")
     \/ /\ kind = "refused" /\ submitted
        /\ handoff' = Moved("submission_uncertain", "failed") /\ Return(c)
     \/ /\ kind = "invalid"
        /\ UNCHANGED handoff /\ Goto(c, "wrap")
     \/ /\ (kind = "not_found" /\ ~polledUnsure) \/ (kind = "refused" /\ ~submitted)
        /\ UNCHANGED handoff /\ Return(c)
  /\ Outside /\ UNCHANGED told

-----------------------------------------------------------------------------
(***************************************************************************)
(* Retrieval of described outputs (protocol 3)                              *)
(***************************************************************************)
\* reconcile: the provider must still describe the completion that was saved.
Reconcile(c) ==
  /\ At(c, "retrieve")
  /\ \/ Goto(c, "download")
     \/ \E k \in {"invalid", "error"} :
          con' = [con EXCEPT ![c].pc = "retrieved", ![c].answer = Answer(k)]
  /\ Local

\* Both outputs, three attempts each behind a checkpoint, and the checks of length, digest and
\* page text; up to here nothing is written.
Download(c) ==
  /\ At(c, "download")
  /\ \/ /\ root = "cancelling"
        /\ Goto(c, "cancel")
     \/ /\ root # "cancelling"
        /\ \E a \in Retrievals : con' = [con EXCEPT ![c].pc = "retrieved", ![c].answer = a]
  /\ Local

Retrieved(c) == At(c, "retrieved") /\ Checkpoint(c, "settle") /\ Local

Settle(c) ==
  /\ At(c, "settle")
  /\ LET h == con[c].loaded IN
     \/ /\ con[c].answer.kind = "verified"
        /\ handoff' = Stored(h.phase, h.saved) /\ Reload(c, "check")
     \/ /\ con[c].answer.kind = "invalid"
        /\ handoff' = Moved(h.phase, "failed") /\ Goto(c, "wrap")
     \/ /\ con[c].answer.kind = "error"
        /\ UNCHANGED handoff /\ Return(c)
  /\ Outside /\ UNCHANGED told

\* run_handoff, after InvalidOutput: protocol 3 reads the row again and fails it while the
\* exchange owns it.
Wrap(c) ==
  /\ At(c, "wrap")
  /\ IF protocol = 3 /\ handoff.phase \in Owned
     THEN con' = [con EXCEPT ![c].pc = "fail", ![c].loaded = handoff]
     ELSE Return(c)
  /\ Local

WrapFail(c) ==
  /\ At(c, "fail")
  /\ handoff' = Moved(con[c].loaded.phase, "failed")
  /\ Return(c)
  /\ Outside /\ UNCHANGED told

-----------------------------------------------------------------------------
(***************************************************************************)
(* The child                                                                *)
(***************************************************************************)
Materialize_IgnoreError(c) ==
  /\ snapshot' \in {snapshot, TRUE}
  /\ \/ con[c].loaded.phase \in Admitted /\ Report(c, "child")
     \/ con[c].loaded.phase = "output_ready" /\ Goto(c, "admit") /\ UNCHANGED told

\* materialize_derived: the file is complete and in place before the call goes on.
Materialized(c) ==
  /\ snapshot' = TRUE
  /\ \/ con[c].loaded.phase \in Admitted /\ Report(c, "child")
     \/ con[c].loaded.phase = "output_ready" /\ Goto(c, "admit") /\ UNCHANGED told

Materialize(c) ==
  /\ At(c, "materialize")
  /\ Materialized(c)
  /\ UNCHANGED <<protocol, handoff, root, sent, missing>>

\* admit_ocr_child: an admitted child is returned again; otherwise the retained output must be
\* the loaded one and the root still parsed.
Admit(c) ==
  /\ At(c, "admit")
  /\ \/ /\ handoff.phase \in Admitted
        /\ Report(c, "child")
        /\ UNCHANGED <<handoff, root>>
     \/ /\ handoff.phase = "output_ready" /\ handoff.outputs = con[c].loaded.outputs
        /\ root = "parsed"
        /\ root' = "derived"
        /\ handoff' = [handoff EXCEPT !.phase = "child_admitted"]
        /\ Report(c, "child")
     \/ /\ handoff.phase \notin Admitted
        /\ ~(handoff.phase = "output_ready" /\ handoff.outputs = con[c].loaded.outputs
               /\ root = "parsed")
        /\ Return(c)
        /\ UNCHANGED <<handoff, root, told>>
  /\ UNCHANGED <<protocol, snapshot, sent, missing>>

\* mark_ocr_handoff_completed_for_child, in the transaction that completes the child.
ChildCompletes ==
  /\ handoff.phase = "child_admitted"
  /\ handoff' = Moved("child_admitted", "completed")
  /\ UNCHANGED <<protocol, root, snapshot, con, sent, missing, told>>

\* request_cancellation of the root; its token is signalled after the commit.
CancelRoot ==
  /\ root = "parsed"
  /\ root' = "cancelling"
  /\ UNCHANGED <<protocol, handoff, snapshot, con, sent, missing, told>>

Next == \/ ChildCompletes \/ CancelRoot
        \/ \E c \in Consumers :
             \/ Start(c) \/ ReloadStep(c) \/ Check(c) \/ GiveUp(c) \/ Cancel(c)
             \/ RequestInvalid(c) \/ Claim(c) \/ Submit(c) \/ Poll(c) \/ Answered(c)
             \/ ApplyStatus(c) \/ ApplyError(c)
             \/ Reconcile(c) \/ Download(c) \/ Retrieved(c) \/ Settle(c) \/ Wrap(c) \/ WrapFail(c)
             \/ Materialize(c) \/ Admit(c)

Spec == Init /\ [][Next]_vars
-----------------------------------------------------------------------------
\* Every variable has its type, and a call holds what its step needs.
TypeOK ==
  /\ protocol \in {2, 3} /\ handoff \in Handoffs
  /\ root \in {"parsed", "cancelling", "derived"} /\ snapshot \in BOOLEAN
  /\ con \in [Consumers -> Calls \cup {Idle}]
  /\ \A c \in Consumers : At(c, "settle") => con[c].loaded.saved # NoResult
  /\ sent \in Nat /\ missing \in 0..MaxMissing /\ told \subseteq {"cancelled", "child"}

\* A request is submitted again only after the provider said it does not know the job: no lost
\* acknowledgement, restart or second consumer replays it (PR-OCR-PROVIDER-HANDOFF items 3, 18).
NoUnclearedReplay == sent <= 1 + missing

\* Protocol 3 keeps its first completion: no late, stale or contradicting status replaces it,
\* and the outputs that are stored are the ones it describes.
CompletionIsPinned ==
  [][protocol = 3 =>
       /\ handoff.saved # NoResult => handoff'.saved = handoff.saved
       /\ handoff'.outputs # NoResult => handoff'.outputs = handoff'.saved]_vars

\* A child is admitted, and returned, only with its document's file in place (item 17).
ChildHasItsDocument ==
  /\ root = "derived" => snapshot
  /\ "child" \in told => root = "derived"
=============================================================================
