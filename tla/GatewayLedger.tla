---------------------------- MODULE GatewayLedger ----------------------------
(***************************************************************************)
(* The ledger row of one model step, keyed by (owner, stage, ordinal), and  *)
(* the calls of GatewayClient::execute that carry the step out. Rows of     *)
(* different keys never meet: every statement names its key. A call runs in *)
(* some process and may die between any two steps; only the row, and what   *)
(* the gateway learned, survive it.                                         *)
(*                                                                          *)
(* Every transaction is BEGIN IMMEDIATE and is one step, and it may fail    *)
(* without effect (a busy or broken database). A request to the gateway may *)
(* be lost, or arrive and its answer be lost. The gateway is external and   *)
(* is not trusted: two POSTs of one request may be answered differently.    *)
(***************************************************************************)
EXTENDS Naturals

CONSTANTS Callers,    \* threads that may call execute for this key
          Inputs,     \* semantic inputs (RequestCore) a caller may bring
          Ids,        \* request ids (random UUIDs)
          Answers,    \* valid completions
          NoAnswer,   \* completion is None
          Lifetime,   \* request_lifetime
          MaxClock    \* bound: the last instant of the modelled clock

ASSUME NoAnswerAssumption == NoAnswer \notin Answers
ASSUME LifetimeAssumption == Lifetime \in Nat \ {0}
ASSUME MaxClockAssumption == MaxClock \in Nat

VARIABLES row,        \* the row of model_gateway_requests
          call,       \* each caller's call: where it is and what it has loaded
          clock,      \* Utc::now
          delivered,  \* the answers execute has returned
          released,   \* did an acknowledgement reach the gateway?
          posted      \* the inference bodies the transport has been given

vars == <<row, call, clock, delivered, released, posted>>

NoRow == [state |-> "none", completion |-> NoAnswer]
Idle == [pc |-> "idle", rec |-> NoRow]

\* The inference envelope; it stands for its digest too.
Bodies == [id : Ids, expires : Nat, input : Inputs]
Body(r) == [id |-> r.id, expires |-> r.expires, input |-> r.input]

Rows == [state : {"reserved", "submitted", "completed", "acknowledged"},
         id : Ids, expires : Nat, input : Inputs, hash : SUBSET Bodies,
         completion : Answers \cup {NoAnswer}]

\* The point execute_reserved goes on from when resolve_local_record returns None.
Points == {"submit", "token", "post", "reject"}

Calls == [pc : {"reserve", "resolve", "persist", "reconcile", "ackToken", "ack",
                "ackError", "mark"} \cup Points,
          then : Points, rec : Rows \cup {NoRow}, input : Inputs,
          reply : Answers \cup {NoAnswer}, now : Nat, late : BOOLEAN]

Settled(r) == r.state \in {"completed", "acknowledged"}
Expired(r, now) == r.expires <= now

Init == /\ row = NoRow
        /\ call = [c \in Callers |-> Idle]
        /\ clock = 0
        /\ delivered = {}
        /\ released = FALSE
        /\ posted = {}

-----------------------------------------------------------------------------
(***************************************************************************)
(* Steps of a call                                                          *)
(***************************************************************************)
At(c, pc) == call[c].pc = pc
Goto(c, pc) == call' = [call EXCEPT ![c].pc = pc]

\* A record was loaded: resolve_local_record decides what becomes of the call.
ResolveThen(c, r, point) ==
  call' = [call EXCEPT ![c].pc = "resolve", ![c].rec = r, ![c].then = point]

Return(c, answer) == /\ delivered' = delivered \cup {answer}
                     /\ call' = [call EXCEPT ![c] = Idle]

Fail(c) == /\ call' = [call EXCEPT ![c] = Idle]
           /\ UNCHANGED delivered

Quiet == UNCHANGED <<row, clock, released, posted>>
Local == Quiet /\ UNCHANGED delivered

\* matching_terminal_after_store_error: a store error is overlooked when the row already
\* holds an answer to the same input.
StoreError(c, point) ==
  /\ UNCHANGED row
  /\ \/ /\ Settled(row) /\ row.input = call[c].input
        /\ ResolveThen(c, row, point)
        /\ UNCHANGED delivered
     \/ /\ ~(Settled(row) /\ row.input = call[c].input)
        /\ Fail(c)

\* A reload after a failure: an acknowledged answer, or one that has outlived the
\* gateway's copy, is returned; otherwise the failure stands.
TerminalOrFail(c) ==
  \/ /\ row.state = "acknowledged" \/ (row.state = "completed" /\ Expired(row, clock))
     /\ Return(c, row.completion)
  \/ /\ ~(row.state = "acknowledged" \/ (row.state = "completed" /\ Expired(row, clock)))
     /\ Fail(c)

\* GatewayRuntime::generate calls execute with the current time.
\* late: has the row already outlived its lifetime, or its answer been found, by now?
Begin(c, input) ==
  /\ At(c, "idle")
  /\ call' = [call EXCEPT ![c] =
       [pc |-> "reserve", then |-> "submit", rec |-> NoRow, input |-> input,
        reply |-> NoAnswer, now |-> clock,
        late |-> row # NoRow /\ (Settled(row) \/ Expired(row, clock))]]
  /\ Local

\* reserve_request_after_lock: the first caller's reservation stays.
Reserved(input, id) ==
  [state |-> "reserved", id |-> id, expires |-> clock + Lifetime, input |-> input,
   hash |-> {}, completion |-> NoAnswer]

InsertReservation_Replace(input, id) == Reserved(input, id)

InsertReservation(input, id) == IF row = NoRow THEN Reserved(input, id) ELSE row

Reserve(c) ==
  /\ At(c, "reserve")
  /\ \E id \in Ids : LET r == InsertReservation(call[c].input, id) IN
       \/ /\ r.input = call[c].input
          /\ row' = r
          /\ ResolveThen(c, r, "submit")
          /\ UNCHANGED delivered
       \/ /\ r.input # call[c].input
          /\ StoreError(c, "submit")
  /\ UNCHANGED <<clock, released, posted>>

ReserveFails(c) == /\ At(c, "reserve")
                   /\ StoreError(c, "submit")
                   /\ UNCHANGED <<clock, released, posted>>

-----------------------------------------------------------------------------
(***************************************************************************)
(* resolve_local_record                                                     *)
(***************************************************************************)
ReturnAcknowledged(c) ==
  /\ At(c, "resolve") /\ call[c].rec.state = "acknowledged"
  /\ Return(c, call[c].rec.completion)
  /\ Quiet

\* The gateway's copy is gone: the durable answer is returned without an acknowledgement.
ReturnExpired(c) ==
  /\ call[c].pc \in {"resolve", "ackToken"} /\ call[c].rec.state = "completed"
  /\ Expired(call[c].rec, clock)
  /\ Return(c, call[c].rec.completion)
  /\ Quiet

Acknowledge(c) ==
  /\ At(c, "resolve") /\ call[c].rec.state = "completed"
  /\ ~Expired(call[c].rec, clock)
  /\ Goto(c, "ackToken")
  /\ Local

\* Only the first resolution uses the time at which the call began.
ResolveClock(c) == IF call[c].then = "submit" THEN call[c].now ELSE clock

FailExpired(c) ==
  /\ At(c, "resolve") /\ call[c].rec.state = "submitted"
  /\ Expired(call[c].rec, ResolveClock(c))
  /\ Fail(c)
  /\ Quiet

NothingLocal(c) ==
  /\ At(c, "resolve")
  /\ \/ call[c].rec.state = "reserved"
     \/ call[c].rec.state = "submitted" /\ ~Expired(call[c].rec, ResolveClock(c))
  /\ Goto(c, call[c].then)
  /\ Local

\* The expiry is checked again once the token is read.
AckTokenRead(c) == /\ At(c, "ackToken")
                   /\ ~Expired(call[c].rec, clock)
                   /\ Goto(c, "ack")
                   /\ Local

TokenUnreadable(c) == /\ call[c].pc \in {"ackToken", "token"}
                      /\ TerminalOrFail(c)
                      /\ Quiet

\* The acknowledgement arrives or is lost, and so does its answer.
SendAck(c) ==
  /\ At(c, "ack")
  /\ \/ released' = TRUE /\ Goto(c, "mark")
     \/ released' \in {released, TRUE} /\ Goto(c, "ackError")
  /\ UNCHANGED <<row, clock, delivered, posted>>

AckFailed(c) == At(c, "ackError") /\ TerminalOrFail(c) /\ Quiet

\* mark_acknowledged; its failure is ignored.
MarkAcknowledged(c) ==
  /\ At(c, "mark")
  /\ \/ /\ row.state \in {"completed", "acknowledged"}
        /\ row' = [row EXCEPT !.state = "acknowledged"]
     \/ UNCHANGED row
  /\ Return(c, call[c].rec.completion)
  /\ UNCHANGED <<clock, released, posted>>

-----------------------------------------------------------------------------
(***************************************************************************)
(* execute_reserved                                                         *)
(***************************************************************************)
Submittable(r, body, now) ==
  /\ r.hash \subseteq {body}
  /\ r.state = "reserved" => ~Expired(r, now)

Submitted(r, body) ==
  IF r.state = "reserved" THEN [r EXCEPT !.state = "submitted", !.hash = {body}] ELSE r

\* mark_submitted
MarkSubmitted(c) ==
  /\ At(c, "submit")
  /\ LET body == Body(call[c].rec) IN
       \/ /\ Submittable(row, body, clock)
          /\ row' = Submitted(row, body)
          /\ ResolveThen(c, Submitted(row, body), "token")
          /\ UNCHANGED delivered
       \/ StoreError(c, "token")   \* refused, or the transaction failed
  /\ UNCHANGED <<clock, released, posted>>

\* The token was read; the row is loaded and resolved once more.
TokenRead(c) == /\ At(c, "token")
                /\ ResolveThen(c, row, "post")
                /\ Local

\* The POST arrives or not, and is answered by anything valid or not at all.
Post(c) ==
  /\ At(c, "post")
  /\ call[c].rec.state = "submitted"
  /\ posted' = posted \cup {Body(call[c].rec)}
  /\ \/ \E a \in Answers :
          call' = [call EXCEPT ![c].pc = "persist", ![c].reply = a]
     \/ Goto(c, "reconcile")
  /\ UNCHANGED <<row, clock, delivered, released>>

\* reconcile_or_propagate: another call may have found the answer meanwhile.
Reconcile(c) == /\ At(c, "reconcile")
                /\ ResolveThen(c, row, "reject")
                /\ Local

Propagate(c) == At(c, "reject") /\ Fail(c) /\ Quiet

Completed(r, answer) ==
  IF r.state = "submitted" THEN [r EXCEPT !.state = "completed", !.completion = answer] ELSE r

\* persist_completion; after an error the same durable answer is accepted.
PersistCompletion_OwnReply(c) ==
  /\ At(c, "persist")
  /\ \/ /\ row.hash = {Body(call[c].rec)}
        /\ row' = Completed(row, call[c].reply)
        /\ ResolveThen(c, row', "reject")
        /\ UNCHANGED delivered
     \/ /\ row.completion # call[c].reply
        /\ UNCHANGED row
        /\ Return(c, call[c].reply)
  /\ UNCHANGED <<clock, released, posted>>

PersistCompletion(c) ==
  /\ At(c, "persist")
  /\ \/ /\ row.hash = {Body(call[c].rec)}
        /\ row.state # "reserved"
        /\ Completed(row, call[c].reply).completion = call[c].reply
        /\ row' = Completed(row, call[c].reply)
        /\ ResolveThen(c, row', "reject")
        /\ UNCHANGED delivered
     \/ /\ row.completion = call[c].reply
        /\ UNCHANGED row
        /\ ResolveThen(c, row, "reject")
        /\ UNCHANGED delivered
     \/ /\ row.completion # call[c].reply
        /\ UNCHANGED row
        /\ Fail(c)
  /\ UNCHANGED <<clock, released, posted>>

\* The process dies, or the row cannot be read.
Die(c) == /\ ~At(c, "idle")
          /\ Fail(c)
          /\ Quiet

Tick == /\ clock < MaxClock
        /\ clock' = clock + 1
        /\ UNCHANGED <<row, call, delivered, released, posted>>

Step(c) ==
  \/ \E input \in Inputs : Begin(c, input)
  \/ Reserve(c) \/ ReserveFails(c)
  \/ ReturnAcknowledged(c) \/ ReturnExpired(c) \/ Acknowledge(c)
  \/ FailExpired(c) \/ NothingLocal(c)
  \/ AckTokenRead(c) \/ TokenUnreadable(c) \/ SendAck(c) \/ AckFailed(c)
  \/ MarkAcknowledged(c)
  \/ MarkSubmitted(c) \/ TokenRead(c) \/ Post(c) \/ Reconcile(c) \/ Propagate(c)
  \/ PersistCompletion(c)
  \/ Die(c)

Next == Tick \/ \E c \in Callers : Step(c)

Spec == Init /\ [][Next]_vars

-----------------------------------------------------------------------------
(***************************************************************************)
(* Properties                                                               *)
(***************************************************************************)
TypeOK ==
  /\ row \in Rows \cup {NoRow}
  /\ call \in [Callers -> Calls \cup {Idle}]
  /\ clock \in Nat
  /\ delivered \subseteq Answers
  /\ released \in BOOLEAN
  /\ posted \subseteq Bodies

\* However calls overlap, die and repeat, and whatever the gateway answers, every answer
\* execute ever returned is the one in the row (gateway_client.rs:270-355).
OneAnswerPerStep == delivered \subseteq {row.completion} /\ NoAnswer \notin delivered

\* The gateway is told it may delete its copy only when an answer is durable here, so an
\* acknowledgement never loses one (gateway_client.rs:395-411).
ReleasedIsDurable == released => row.completion # NoAnswer

\* Whoever posts, and however often, the transport carries one body for the step: the one
\* whose digest the row held before the first POST (gateway_store.rs:182-227).
PostsAreOnRecord == posted # {} => row # NoRow /\ posted \subseteq row.hash

\* A call that begins once the row is answered, or past its lifetime, causes no inference
\* (gateway_client.rs:325-338; "an expired identity is never dispatched").
LateCallsDoNotPost == \A c \in Callers : At(c, "post") => ~call[c].late

\* The refinement: the ledger implements a single, agreed answer.
Contract == INSTANCE GatewayAnswers WITH answer <- row.completion

Implements == Contract!Spec
=============================================================================
