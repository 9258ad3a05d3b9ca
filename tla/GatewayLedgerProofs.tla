-------------------------- MODULE GatewayLedgerProofs --------------------------
(***************************************************************************)
(* Proofs about GatewayLedger, for any callers, inputs, ids, answers and    *)
(* lifetime. A step writes the row in one way only: it Follows what it was. *)
(* What a call has loaded stays true of every later row (Sound), which is   *)
(* why a stale record may decide what the call returns.                     *)
(***************************************************************************)
EXTENDS GatewayLedger, TLAPS

\* What later rows keep of a row that was loaded.
Follows(r, s) ==
  r # NoRow =>
    /\ s # NoRow
    /\ s.id = r.id /\ s.expires = r.expires /\ s.input = r.input
    /\ r.state # "reserved" => s.state # "reserved"
    /\ Settled(r) => Settled(s) /\ s.completion = r.completion

RowOK(r) ==
  r # NoRow =>
    /\ Settled(r) <=> r.completion # NoAnswer
    /\ r.hash = IF r.state = "reserved" THEN {} ELSE {Body(r)}

Past(k) == \/ k.pc \in {"token", "post", "persist", "reconcile", "reject"}
           \/ k.pc = "resolve" /\ k.then # "submit"

Sound(k, r, t) ==
  k # Idle =>
    /\ k.now <= t
    /\ Follows(k.rec, r) /\ RowOK(k.rec)
    /\ k.pc # "reserve" => k.rec # NoRow
    /\ k.pc \in {"ackToken", "ack", "ackError", "mark"} => k.rec.state = "completed"
    /\ k.pc = "persist" => k.reply \in Answers
    /\ Past(k) => k.rec.state # "reserved"
    /\ k.late => /\ r # NoRow
                 /\ Settled(r) \/ r.expires <= k.now
                 /\ k.rec # NoRow => Settled(k.rec) \/ k.rec.expires <= k.now
                 /\ k.pc \notin {"token", "post"}
                 /\ ~(k.pc = "resolve" /\ k.then = "post")

IInv == /\ TypeOK
        /\ RowOK(row)
        /\ \A c \in Callers : Sound(call[c], row, clock)
        /\ OneAnswerPerStep
        /\ ReleasedIsDurable
        /\ PostsAreOnRecord

USE NoAnswerAssumption, LifetimeAssumption

-----------------------------------------------------------------------------
(***************************************************************************)
(* Lemmas                                                                   *)
(***************************************************************************)
\* What a call knows survives every later write of the row and every tick.
LEMMA SoundIsStable ==
  ASSUME NEW k \in Calls \cup {Idle},
         NEW r \in Rows \cup {NoRow}, NEW s \in Rows \cup {NoRow},
         NEW t \in Nat, NEW u \in Nat, t <= u,
         Sound(k, r, t), Follows(r, s)
  PROVE  Sound(k, s, u)
<1>1. CASE k = Idle
  BY <1>1 DEF Sound
<1>2. CASE k # Idle
  <2>1. k \in Calls /\ k.now \in Nat /\ k.rec \in Rows \cup {NoRow}
    BY <1>2 DEF Calls
  <2>2. k.now <= u
    BY <1>2, <2>1 DEF Sound
  <2>3. Follows(k.rec, s)
    BY <1>2, <2>1 DEF Sound, Follows
  <2>4. k.late => s # NoRow /\ (Settled(s) \/ s.expires <= k.now)
    BY <1>2 DEF Sound, Follows
  <2> QED
    BY <1>2, <2>2, <2>3, <2>4 DEF Sound
<1> QED
  BY <1>1, <1>2

\* A row that is left alone follows itself.
LEMMA FollowsItself == ASSUME NEW r PROVE Follows(r, r)
BY DEF Follows

\* A call that is somewhere is not idle, and its fields have their types.
LEMMA Busy ==
  ASSUME TypeOK, NEW c \in Callers, call[c].pc # "idle"
  PROVE  /\ call[c] \in Calls /\ call[c] # Idle
         /\ call[c].rec \in Rows \cup {NoRow}
         /\ call[c].reply \in Answers \cup {NoAnswer}
         /\ call[c].input \in Inputs
         /\ call[c].now \in Nat
         /\ call[c].late \in BOOLEAN
BY DEF TypeOK, Idle, Calls

\* It suffices to look at the call that moves, when the row only moves on.
LEMMA OthersStaySound ==
  ASSUME TypeOK, TypeOK', \A d \in Callers : Sound(call[d], row, clock),
         NEW c \in Callers, clock' = clock, Follows(row, row'),
         Sound(call'[c], row', clock'),
         \A d \in Callers \ {c} : call'[d] = call[d]
  PROVE  \A d \in Callers : Sound(call'[d], row', clock')
<1> SUFFICES ASSUME NEW d \in Callers, d # c PROVE Sound(call'[d], row', clock')
  OBVIOUS
<1>1. /\ call[d] \in Calls \cup {Idle} /\ clock \in Nat
      /\ row \in Rows \cup {NoRow} /\ row' \in Rows \cup {NoRow}
  BY DEF TypeOK
<1>2. call'[d] = call[d] /\ Sound(call[d], row, clock) /\ clock <= clock
  BY <1>1
<1> QED
  BY <1>1, <1>2, SoundIsStable

\* A call that goes on, perhaps writing the row, keeps the invariant if it stays sound.
LEMMA GoesOn ==
  ASSUME IInv, NEW c \in Callers, NEW k \in Calls, call' = [call EXCEPT ![c] = k],
         row' \in Rows \cup {NoRow}, RowOK(row'), Follows(row, row'),
         Sound(k, row', clock),
         clock' = clock, delivered' = delivered,
         released' \in BOOLEAN, released' => released \/ Settled(row'),
         \/ posted' = posted
         \/ /\ row' # NoRow /\ row'.state # "reserved"
            /\ posted' = posted \cup {Body(row')}
  PROVE  IInv'
<1>1. row \in Rows \cup {NoRow} /\ clock \in Nat /\ call \in [Callers -> Calls \cup {Idle}]
  BY DEF IInv, TypeOK
<1>2. row' # NoRow => row' \in Rows
  OBVIOUS
<1>3. row # NoRow => row' # NoRow /\ row.hash \subseteq row'.hash
  BY <1>1, <1>2 DEF IInv, RowOK, Follows, Body
<1>4. posted' \subseteq Bodies /\ (posted' # {} => row' # NoRow /\ posted' \subseteq row'.hash)
  <2>1. posted # {} => row # NoRow /\ posted \subseteq row.hash
    BY DEF IInv, PostsAreOnRecord
  <2>2. posted \subseteq Bodies
    BY DEF IInv, TypeOK
  <2>3. row' # NoRow => row'.hash \subseteq Bodies
    BY <1>2 DEF Rows
  <2>4. row' # NoRow /\ row'.state # "reserved" => row'.hash = {Body(row')}
    BY DEF RowOK
  <2> QED
    BY <2>1, <2>2, <2>3, <2>4, <1>3
<1>5. TypeOK'
  BY <1>1, <1>4 DEF IInv, TypeOK
<1>6. \A d \in Callers : Sound(call'[d], row', clock')
  <2>1. call'[c] = k /\ \A d \in Callers \ {c} : call'[d] = call[d]
    BY <1>1
  <2> QED
    BY <2>1, <1>5, OthersStaySound DEF IInv
<1>7. row # NoRow /\ row.completion # NoAnswer => row'.completion = row.completion
  BY DEF IInv, RowOK, Follows
<1>8. row.completion # NoAnswer => row # NoRow
  BY DEF NoRow
<1>9. OneAnswerPerStep'
  BY <1>7, <1>8 DEF IInv, OneAnswerPerStep
<1>10. ReleasedIsDurable'
  <2>1. Settled(row') => row' # NoRow /\ row'.completion # NoAnswer
    BY DEF RowOK, Settled, NoRow
  <2> QED
    BY <2>1, <1>7, <1>8 DEF IInv, ReleasedIsDurable
<1> QED
  BY <1>4, <1>5, <1>6, <1>9, <1>10 DEF IInv, PostsAreOnRecord

\* A call that ends, returning nothing or the durable answer, keeps the invariant.
LEMMA Ends ==
  ASSUME IInv, NEW c \in Callers, call' = [call EXCEPT ![c] = Idle], Quiet,
         \/ delivered' = delivered
         \/ row.completion # NoAnswer /\ delivered' = delivered \cup {row.completion}
  PROVE  IInv'
<1>1. row \in Rows \cup {NoRow} /\ call \in [Callers -> Calls \cup {Idle}]
  BY DEF IInv, TypeOK
<1>2. row.completion \in Answers \cup {NoAnswer}
  BY <1>1 DEF Rows, NoRow
<1>3. TypeOK'
  BY <1>1, <1>2 DEF IInv, TypeOK, Quiet
<1>4. \A d \in Callers : Sound(call'[d], row', clock')
  BY <1>1 DEF IInv, Sound, Quiet
<1> QED
  BY <1>3, <1>4 DEF IInv, Quiet, OneAnswerPerStep, ReleasedIsDurable, PostsAreOnRecord

\* A failing call is a call that ends with nothing.
LEMMA Fails == ASSUME IInv, NEW c \in Callers, Fail(c), Quiet PROVE IInv'
BY Ends DEF Fail

\* A settled row has an answer, and a settled record has the same one.
LEMMA SettledAnswer ==
  ASSUME IInv, Settled(row) PROVE row # NoRow /\ row.completion # NoAnswer
BY DEF IInv, RowOK, Settled, NoRow

LEMMA LoadedAnswer ==
  ASSUME IInv, NEW c \in Callers, call[c].pc # "idle", Settled(call[c].rec)
  PROVE  row.completion = call[c].rec.completion /\ row.completion # NoAnswer
<1>1. call[c] # Idle /\ Follows(call[c].rec, row) /\ call[c].rec # NoRow
  BY Busy DEF IInv, Sound, Settled, NoRow
<1> QED
  BY <1>1, SettledAnswer DEF Follows

\* A call that loads the row and resolves it keeps the invariant; so does one that has just
\* written it.
LEMMA Loads ==
  ASSUME IInv, NEW c \in Callers, call[c].pc # "idle", NEW point \in Points,
         row' \in Rows, RowOK(row'), Follows(row, row'),
         ResolveThen(c, row', point),
         point # "submit" => row'.state # "reserved",
         point = "post" => ~call[c].late,
         UNCHANGED <<clock, delivered, released, posted>>
  PROVE  IInv'
<1> DEFINE k == [call[c] EXCEPT !.pc = "resolve", !.rec = row', !.then = point]
<1>1. call[c] \in Calls /\ call[c] # Idle /\ Sound(call[c], row, clock)
  BY Busy DEF IInv
<1>2. k \in Calls /\ call' = [call EXCEPT ![c] = k]
  BY <1>1 DEF Calls, ResolveThen
<1>3. row' # NoRow
  BY DEF Rows, NoRow
<1>4. call[c].late => Settled(row') \/ row'.expires <= call[c].now
  BY <1>1, <1>3 DEF Sound, Follows
<1>5. Sound(k, row', clock)
  BY <1>1, <1>3, <1>4 DEF Sound, Past, Follows, Calls
<1>6. released' \in BOOLEAN
  BY DEF IInv, TypeOK
<1> HIDE DEF k
<1> QED
  BY <1>2, <1>5, <1>6, GoesOn

\* StoreError ends the call or resolves an answered row.
LEMMA StoreErrorKeeps ==
  ASSUME IInv, NEW c \in Callers, call[c].pc # "idle", NEW point \in {"submit", "token"},
         StoreError(c, point), UNCHANGED <<clock, released, posted>>
  PROVE  IInv'
<1>1. CASE Settled(row) /\ ResolveThen(c, row, point) /\ UNCHANGED <<row, delivered>>
  <2>1. row \in Rows /\ row' = row /\ row.state # "reserved" /\ RowOK(row)
    BY <1>1, SettledAnswer DEF IInv, TypeOK, Settled
  <2> QED
    BY <1>1, <2>1, Loads, FollowsItself DEF Points
<1>2. CASE Fail(c) /\ UNCHANGED row
  BY <1>2, Fails DEF Quiet
<1> QED
  BY <1>1, <1>2 DEF StoreError

LEMMA TerminalOrFailKeeps ==
  ASSUME IInv, NEW c \in Callers, TerminalOrFail(c), Quiet PROVE IInv'
<1>1. CASE Return(c, row.completion) /\ row.state \in {"acknowledged", "completed"}
  BY <1>1, SettledAnswer, Ends DEF Return, Settled
<1>2. CASE Fail(c)
  BY <1>2, Fails
<1> QED
  BY <1>1, <1>2 DEF TerminalOrFail

\* A call that only moves on keeps the invariant when its new place is sound.
LEMMA Moves ==
  ASSUME IInv, NEW c \in Callers, call[c].pc # "idle",
         NEW pc, pc \in {"ackToken", "ack", "ackError", "mark", "submit", "token", "post",
                         "reject", "reconcile"},
         Goto(c, pc), UNCHANGED <<row, clock, delivered>>,
         pc \in {"ackToken", "ack", "ackError", "mark"} => call[c].rec.state = "completed",
         pc \in {"token", "post", "reconcile", "reject"} => call[c].rec.state # "reserved",
         pc \in {"token", "post"} => ~call[c].late,
         call[c].rec # NoRow,
         released' \in BOOLEAN, released' => released \/ Settled(row),
         posted' = posted \/ (posted' = posted \cup {Body(row)} /\ row.state # "reserved")
  PROVE  IInv'
<1> DEFINE k == [call[c] EXCEPT !.pc = pc]
<1>1. call[c] \in Calls /\ call[c] # Idle /\ Sound(call[c], row, clock)
  BY Busy DEF IInv
<1>2. k \in Calls /\ call' = [call EXCEPT ![c] = k]
  BY <1>1 DEF Calls, Points, Goto
<1>3. Sound(k, row, clock)
  BY <1>1 DEF Sound, Past, Calls
<1>4. row \in Rows \cup {NoRow} /\ row' = row /\ RowOK(row) /\ row # NoRow
  BY <1>1 DEF IInv, TypeOK, Sound, Follows
<1> HIDE DEF k
<1> QED
  BY <1>2, <1>3, <1>4, GoesOn, FollowsItself

-----------------------------------------------------------------------------
(***************************************************************************)
(* The invariant is inductive                                               *)
(***************************************************************************)
LEMMA Initially == Init => IInv
<1> SUFFICES ASSUME Init PROVE IInv
  OBVIOUS
<1>1. TypeOK
  BY DEF Init, TypeOK
<1>2. RowOK(row)
  BY DEF Init, RowOK
<1>3. \A c \in Callers : Sound(call[c], row, clock)
  BY DEF Init, Sound
<1> QED
  BY <1>1, <1>2, <1>3
     DEF Init, IInv, OneAnswerPerStep, ReleasedIsDurable, PostsAreOnRecord

\* What the type and Sound say of a call that is past its reservation.
LEMMA Loaded ==
  ASSUME IInv, NEW c \in Callers, call[c].pc \notin {"idle", "reserve"}
  PROVE  /\ call[c] \in Calls /\ call[c].rec \in Rows /\ row \in Rows /\ row # NoRow
         /\ call[c].rec # NoRow
         /\ row.id = call[c].rec.id /\ row.expires = call[c].rec.expires
         /\ row.input = call[c].rec.input
         /\ call[c].rec.state # "reserved" => row.state # "reserved"
         /\ RowOK(row) /\ call[c].now <= clock
<1>1. call[c] \in Calls /\ call[c] # Idle /\ Sound(call[c], row, clock)
  BY Busy DEF IInv
<1>2. call[c].rec \in Rows \cup {NoRow} /\ row \in Rows \cup {NoRow} /\ RowOK(row)
  BY <1>1 DEF Calls, IInv, TypeOK
<1> QED
  BY <1>1, <1>2 DEF Sound, Follows

LEMMA BeginKeeps ==
  ASSUME IInv, NEW c \in Callers, NEW input \in Inputs, Begin(c, input) PROVE IInv'
<1> DEFINE k == [pc |-> "reserve", then |-> "submit", rec |-> NoRow, input |-> input,
                 reply |-> NoAnswer, now |-> clock,
                 late |-> row # NoRow /\ (Settled(row) \/ Expired(row, clock))]
<1>1. clock \in Nat /\ row \in Rows \cup {NoRow}
  BY DEF IInv, TypeOK
<1>2. k \in Calls
  BY <1>1 DEF Calls, Points
<1>3. Sound(k, row, clock)
  <2>1. /\ k.pc = "reserve" /\ k.rec = NoRow /\ k.now = clock
        /\ k.late => row # NoRow /\ (Settled(row) \/ row.expires <= clock)
    BY DEF Expired
  <2>2. Follows(k.rec, row) /\ RowOK(k.rec)
    BY <2>1 DEF Follows, RowOK
  <2> HIDE DEF k
  <2> QED
    BY <1>1, <2>1, <2>2 DEF Sound, Past
<1>4. call' = [call EXCEPT ![c] = k] /\ UNCHANGED <<row, clock, delivered, released, posted>>
  BY DEF Begin, Local, Quiet
<1>5. released \in BOOLEAN /\ RowOK(row)
  BY DEF IInv, TypeOK
<1> HIDE DEF k
<1> QED
  BY <1>1, <1>2, <1>3, <1>4, <1>5, GoesOn, FollowsItself

LEMMA ReserveKeeps ==
  ASSUME IInv, NEW c \in Callers, Reserve(c) PROVE IInv'
<1>1. PICK id \in Ids :
        LET r == InsertReservation(call[c].input, id) IN
          \/ /\ r.input = call[c].input
             /\ row' = r
             /\ ResolveThen(c, r, "submit")
             /\ UNCHANGED delivered
          \/ r.input # call[c].input /\ StoreError(c, "submit")
  BY DEF Reserve
<1> DEFINE r == InsertReservation(call[c].input, id)
<1>2. At(c, "reserve") /\ UNCHANGED <<clock, released, posted>>
  BY DEF Reserve
<1>3. CASE row' = r /\ ResolveThen(c, r, "submit") /\ UNCHANGED delivered
  <2>1. row \in Rows \cup {NoRow} /\ clock \in Nat /\ Lifetime \in Nat /\ RowOK(row)
        /\ call[c].input \in Inputs
    BY <1>2, Busy DEF IInv, TypeOK, At
  <2>2. r \in Rows /\ RowOK(r) /\ Follows(row, r)
    <3>1. CASE row = NoRow
      <4>1. r = Reserved(call[c].input, id)
        BY <3>1 DEF InsertReservation
      <4>2. Reserved(call[c].input, id) \in Rows
        BY <2>1 DEF Reserved, Rows
      <4>3. RowOK(Reserved(call[c].input, id))
        BY DEF Reserved, RowOK, Settled
      <4> QED
        BY <3>1, <4>1, <4>2, <4>3 DEF Follows
    <3>2. CASE row # NoRow
      BY <2>1, <3>2, FollowsItself DEF InsertReservation
    <3> QED
      BY <3>1, <3>2
  <2> HIDE DEF r
  <2> QED
    BY <1>2, <1>3, <2>2, Loads DEF At, Points
<1>4. CASE StoreError(c, "submit")
  BY <1>2, <1>4, StoreErrorKeeps DEF At
<1> QED
  BY <1>1, <1>3, <1>4

LEMMA ResolveKeeps ==
  ASSUME IInv, NEW c \in Callers,
         \/ ReturnAcknowledged(c) \/ ReturnExpired(c) \/ Acknowledge(c)
         \/ FailExpired(c) \/ NothingLocal(c)
  PROVE  IInv'
<1>1. CASE ReturnAcknowledged(c)
  <2>1. Settled(call[c].rec) /\ call[c].pc # "idle"
    BY <1>1 DEF ReturnAcknowledged, At, Settled
  <2> QED
    BY <1>1, <2>1, LoadedAnswer, Ends DEF ReturnAcknowledged, Return
<1>2. CASE ReturnExpired(c)
  <2>1. Settled(call[c].rec) /\ call[c].pc # "idle"
    BY <1>2 DEF ReturnExpired, Settled
  <2> QED
    BY <1>2, <2>1, LoadedAnswer, Ends DEF ReturnExpired, Return
<1>3. CASE Acknowledge(c)
  BY <1>3, Loaded, Moves DEF Acknowledge, At, Local, Quiet, IInv, TypeOK
<1>4. CASE FailExpired(c)
  BY <1>4, Fails DEF FailExpired
<1>5. CASE NothingLocal(c)
  <2>1. /\ call[c].pc = "resolve" /\ Goto(c, call[c].then)
        /\ UNCHANGED <<row, clock, delivered, released, posted>>
    BY <1>5 DEF NothingLocal, At, Local, Quiet
  <2>2. call[c].then \in Points /\ call[c].rec # NoRow /\ call[c].now <= clock
        /\ clock \in Nat /\ call[c].now \in Nat /\ call[c].rec.expires \in Nat
        /\ Sound(call[c], row, clock) /\ call[c] # Idle
    BY <2>1, Loaded, Busy DEF Calls, Rows, IInv, TypeOK
  <2>3. call[c].then # "submit" => call[c].rec.state # "reserved"
    BY <2>1, <2>2 DEF Sound, Past
  <2>4. call[c].then \in {"token", "post"} => ~call[c].late
    BY <1>5, <2>1, <2>2, <2>3 DEF NothingLocal, Sound, Settled, Expired, ResolveClock
  <2> QED
    BY <2>1, <2>2, <2>3, <2>4, Moves DEF Points, IInv, TypeOK
<1> QED
  BY <1>1, <1>2, <1>3, <1>4, <1>5

LEMMA AcknowledgeKeeps ==
  ASSUME IInv, NEW c \in Callers,
         \/ AckTokenRead(c) \/ TokenUnreadable(c) \/ SendAck(c) \/ AckFailed(c)
         \/ MarkAcknowledged(c)
  PROVE  IInv'
<1> USE DEF At
<1>1. CASE AckTokenRead(c)
  <2>1. call[c].pc = "ackToken" /\ call[c] # Idle /\ Sound(call[c], row, clock)
    BY <1>1, Busy DEF AckTokenRead, IInv
  <2>2. call[c].rec.state = "completed"
    BY <2>1 DEF Sound
  <2> QED
    BY <1>1, <2>1, <2>2, Loaded, Moves DEF AckTokenRead, Local, Quiet, IInv, TypeOK
<1>2. CASE TokenUnreadable(c)
  BY <1>2, TerminalOrFailKeeps DEF TokenUnreadable
<1>3. CASE SendAck(c)
  <2>1. call[c].pc = "ack" /\ call[c] # Idle /\ Sound(call[c], row, clock)
    BY <1>3, Busy DEF SendAck, IInv
  <2>2. call[c].rec.state = "completed" /\ call[c].rec # NoRow
    BY <2>1 DEF Sound
  <2>3. Settled(row)
    BY <2>1, <2>2 DEF Sound, Follows, Settled
  <2>4. released \in BOOLEAN
    BY DEF IInv, TypeOK
  <2>5. CASE released' = TRUE /\ Goto(c, "mark")
    BY <1>3, <2>1, <2>2, <2>3, <2>5, Moves DEF SendAck
  <2>6. CASE released' \in {released, TRUE} /\ Goto(c, "ackError")
    BY <1>3, <2>1, <2>2, <2>3, <2>4, <2>6, Moves DEF SendAck
  <2> QED
    BY <1>3, <2>5, <2>6 DEF SendAck
<1>4. CASE AckFailed(c)
  BY <1>4, TerminalOrFailKeeps DEF AckFailed
<1>5. CASE MarkAcknowledged(c)
  <2>1. call[c].pc = "mark" /\ call[c] # Idle /\ Sound(call[c], row, clock)
    BY <1>5, Busy DEF MarkAcknowledged, IInv
  <2>2. Settled(call[c].rec)
    BY <2>1 DEF Sound, Settled
  <2>3. row.completion = call[c].rec.completion /\ row.completion # NoAnswer
    BY <2>1, <2>2, LoadedAnswer
  <2>4. row \in Rows /\ row # NoRow /\ RowOK(row)
    BY <2>1, Loaded
  <2>5. /\ call' = [call EXCEPT ![c] = Idle]
        /\ delivered' = delivered \cup {row.completion}
        /\ UNCHANGED <<clock, released, posted>>
    BY <1>5, <2>3 DEF MarkAcknowledged, Return
  <2>6. CASE UNCHANGED row
    BY <2>3, <2>5, <2>6, Ends DEF Quiet
  <2>7. CASE /\ row.state \in {"completed", "acknowledged"}
             /\ row' = [row EXCEPT !.state = "acknowledged"]
    <3>1. /\ row' \in Rows /\ row' # NoRow /\ row'.completion = row.completion
          /\ row'.hash = row.hash
      BY <2>4, <2>7 DEF Rows, NoRow
    <3>2. RowOK(row') /\ Follows(row, row')
      <4>1. /\ row'.id = row.id /\ row'.expires = row.expires /\ row'.input = row.input
            /\ row'.state = "acknowledged" /\ row.state # "reserved"
        BY <2>4, <2>7 DEF Rows
      <4>2. row.hash = {Body(row)} /\ Body(row') = Body(row)
        BY <2>4, <4>1 DEF RowOK, Body
      <4> QED
        BY <2>3, <3>1, <4>1, <4>2 DEF RowOK, Follows, Settled
    <3>3. call \in [Callers -> Calls \cup {Idle}] /\ row.completion \in Answers
      BY <2>3, <2>4 DEF IInv, TypeOK, Rows
    <3>4. TypeOK'
      BY <2>5, <3>1, <3>3 DEF IInv, TypeOK
    <3>5. \A d \in Callers : Sound(call'[d], row', clock')
      <4>1. Sound(Idle, row', clock')
        BY DEF Sound
      <4>2. call'[c] = Idle /\ \A d \in Callers \ {c} : call'[d] = call[d]
        BY <2>5, <3>3
      <4> QED
        BY <2>5, <3>2, <3>4, <4>1, <4>2, OthersStaySound DEF IInv
    <3> QED
      BY <2>3, <2>5, <3>1, <3>2, <3>4, <3>5
         DEF IInv, OneAnswerPerStep, ReleasedIsDurable, PostsAreOnRecord
  <2> QED
    BY <1>5, <2>6, <2>7 DEF MarkAcknowledged
<1> QED
  BY <1>1, <1>2, <1>3, <1>4, <1>5

LEMMA ExecuteKeeps ==
  ASSUME IInv, NEW c \in Callers,
         \/ MarkSubmitted(c) \/ TokenRead(c) \/ Post(c) \/ Reconcile(c) \/ Propagate(c)
         \/ PersistCompletion(c)
  PROVE  IInv'
<1> USE DEF At
<1>1. CASE MarkSubmitted(c)
  <2> DEFINE body == Body(call[c].rec)
  <2>1. call[c].pc = "submit" /\ UNCHANGED <<clock, released, posted>>
    BY <1>1 DEF MarkSubmitted
  <2>2. row \in Rows /\ RowOK(row) /\ row # NoRow /\ body = Body(row)
    BY <2>1, Loaded DEF Body
  <2>3. CASE /\ row' = Submitted(row, body)
             /\ ResolveThen(c, Submitted(row, body), "token")
             /\ UNCHANGED delivered
    <3>1. body \in Bodies
      BY <2>2 DEF Rows, Bodies, Body
    <3>2. row' \in Rows /\ row'.state # "reserved" /\ RowOK(row') /\ Follows(row, row')
      <4>1. CASE row.state = "reserved"
        <5>1. row' = [row EXCEPT !.state = "submitted", !.hash = {body}]
          BY <2>3, <4>1 DEF Submitted
        <5> HIDE DEF body
        <5>2. /\ row' \in Rows /\ row'.state = "submitted" /\ row'.hash = {body}
              /\ row'.id = row.id /\ row'.expires = row.expires
              /\ row'.input = row.input /\ row'.completion = row.completion
          BY <2>2, <3>1, <5>1 DEF Rows
        <5>3. Body(row') = body
          BY <2>2, <5>2 DEF Body
        <5>4. row.completion = NoAnswer /\ row' # NoRow
          BY <2>2, <4>1, <5>2 DEF RowOK, Settled, Rows, NoRow
        <5> QED
          BY <4>1, <5>2, <5>3, <5>4 DEF RowOK, Follows, Settled
      <4>2. CASE row.state # "reserved"
        BY <2>2, <2>3, <4>2, FollowsItself DEF Submitted
      <4> QED
        BY <4>1, <4>2
    <3> QED
      BY <2>1, <2>3, <3>2, Loads DEF Points
  <2>4. CASE StoreError(c, "token")
    BY <2>1, <2>4, StoreErrorKeeps
  <2> QED
    BY <1>1, <2>3, <2>4 DEF MarkSubmitted
<1>2. CASE TokenRead(c)
  <2>1. call[c].pc = "token" /\ call[c] # Idle /\ Sound(call[c], row, clock)
    BY <1>2, Busy DEF TokenRead, IInv
  <2>2. call[c].rec.state # "reserved" /\ ~call[c].late
    BY <2>1 DEF Sound, Past
  <2> QED
    BY <1>2, <2>1, <2>2, Loaded, Loads, FollowsItself DEF TokenRead, Local, Quiet, Points
<1>3. CASE Post(c)
  <2>1. call[c].pc = "post" /\ call[c] # Idle /\ Sound(call[c], row, clock)
    BY <1>3, Busy DEF Post, IInv
  <2>2. call[c].rec.state # "reserved" /\ ~call[c].late
    BY <2>1 DEF Sound, Past
  <2>3. /\ row \in Rows /\ row # NoRow /\ RowOK(row) /\ call[c] \in Calls
        /\ row.state # "reserved" /\ Body(call[c].rec) = Body(row)
        /\ call[c].rec # NoRow
    BY <2>1, <2>2, Loaded DEF Body
  <2>4. posted' = posted \cup {Body(row)} /\ UNCHANGED <<row, clock, delivered, released>>
    BY <1>3, <2>3 DEF Post
  <2>5. released \in BOOLEAN
    BY DEF IInv, TypeOK
  <2>6. ASSUME NEW a \in Answers,
               call' = [call EXCEPT ![c].pc = "persist", ![c].reply = a]
        PROVE  IInv'
    <3> DEFINE k == [call[c] EXCEPT !.pc = "persist", !.reply = a]
    <3>1. k \in Calls /\ call' = [call EXCEPT ![c] = k]
      BY <2>3, <2>6 DEF Calls
    <3>2. Sound(k, row, clock)
      BY <2>1, <2>2, <2>3 DEF Sound, Past, Calls
    <3> HIDE DEF k
    <3> QED
      BY <2>3, <2>4, <2>5, <3>1, <3>2, GoesOn, FollowsItself
  <2>7. CASE Goto(c, "reconcile")
    BY <2>1, <2>2, <2>3, <2>4, <2>5, <2>7, Moves
  <2> QED
    BY <1>3, <2>6, <2>7 DEF Post
<1>4. CASE Reconcile(c)
  <2>1. call[c].pc = "reconcile" /\ call[c] # Idle /\ Sound(call[c], row, clock)
    BY <1>4, Busy DEF Reconcile, IInv
  <2>2. call[c].rec.state # "reserved"
    BY <2>1 DEF Sound, Past
  <2> QED
    BY <1>4, <2>1, <2>2, Loaded, Loads, FollowsItself DEF Reconcile, Local, Quiet, Points
<1>5. CASE Propagate(c)
  BY <1>5, Fails DEF Propagate
<1>6. CASE PersistCompletion(c)
  <2>1. call[c].pc = "persist" /\ call[c] # Idle /\ Sound(call[c], row, clock)
        /\ UNCHANGED <<clock, released, posted>>
    BY <1>6, Busy DEF PersistCompletion, IInv
  <2>2. call[c].reply \in Answers /\ call[c].rec.state # "reserved"
    BY <2>1 DEF Sound, Past
  <2>3. row \in Rows /\ row # NoRow /\ RowOK(row) /\ row.state # "reserved"
    BY <2>1, <2>2, Loaded
  <2> DEFINE s == Completed(row, call[c].reply)
  <2>4. CASE /\ s.completion = call[c].reply
             /\ row' = s
             /\ ResolveThen(c, row', "reject")
             /\ UNCHANGED delivered
    <3>1. s \in Rows /\ s.state # "reserved" /\ RowOK(s) /\ Follows(row, s)
      <4>1. CASE row.state = "submitted"
        <5>1. s = [row EXCEPT !.state = "completed", !.completion = call[c].reply]
          BY <4>1 DEF Completed
        <5> HIDE DEF s
        <5>2. /\ s \in Rows /\ s.state = "completed" /\ s.hash = row.hash
              /\ s.id = row.id /\ s.expires = row.expires
              /\ s.input = row.input /\ s.completion = call[c].reply
          BY <2>2, <2>3, <5>1 DEF Rows
        <5>3. Body(s) = Body(row) /\ row.hash = {Body(row)} /\ s # NoRow
          BY <2>3, <5>2 DEF Body, RowOK, NoRow
        <5> QED
          BY <2>2, <4>1, <5>2, <5>3 DEF RowOK, Follows, Settled
      <4>2. CASE row.state # "submitted"
        BY <2>3, <4>2, FollowsItself DEF Completed
      <4> QED
        BY <4>1, <4>2
    <3> HIDE DEF s
    <3> QED
      BY <2>1, <2>4, <3>1, Loads DEF Points
  <2>5. CASE UNCHANGED <<row, delivered>> /\ ResolveThen(c, row, "reject")
    BY <2>1, <2>3, <2>5, Loads, FollowsItself DEF Points
  <2>6. CASE UNCHANGED row /\ Fail(c)
    BY <2>1, <2>6, Fails DEF Quiet
  <2> QED
    BY <1>6, <2>4, <2>5, <2>6 DEF PersistCompletion
<1> QED
  BY <1>1, <1>2, <1>3, <1>4, <1>5, <1>6

LEMMA TickKeeps == ASSUME IInv, Tick PROVE IInv'
<1>1. TypeOK'
  BY MaxClockAssumption DEF IInv, TypeOK, Tick
<1>2. ASSUME NEW c \in Callers PROVE Sound(call'[c], row', clock')
  <2>1. /\ call[c] \in Calls \cup {Idle} /\ row \in Rows \cup {NoRow}
        /\ clock \in Nat /\ clock' \in Nat /\ clock <= clock'
        /\ Sound(call[c], row, clock) /\ UNCHANGED <<row, call>>
    BY DEF IInv, TypeOK, Tick
  <2> QED
    BY <2>1, SoundIsStable, FollowsItself
<1> QED
  BY <1>1, <1>2 DEF IInv, Tick, OneAnswerPerStep, ReleasedIsDurable, PostsAreOnRecord

LEMMA Inductive == IInv /\ [Next]_vars => IInv'
<1> SUFFICES ASSUME IInv, [Next]_vars PROVE IInv'
  OBVIOUS
<1>1. CASE Tick
  BY <1>1, TickKeeps
<1>2. ASSUME NEW c \in Callers, Step(c) PROVE IInv'
  <2>1. CASE \E input \in Inputs : Begin(c, input)
    BY <2>1, BeginKeeps
  <2>2. CASE Reserve(c)
    BY <2>2, ReserveKeeps
  <2>3. CASE ReserveFails(c)
    BY <2>3, StoreErrorKeeps DEF ReserveFails, At
  <2>4. CASE \/ ReturnAcknowledged(c) \/ ReturnExpired(c) \/ Acknowledge(c)
             \/ FailExpired(c) \/ NothingLocal(c)
    BY <2>4, ResolveKeeps
  <2>5. CASE \/ AckTokenRead(c) \/ TokenUnreadable(c) \/ SendAck(c) \/ AckFailed(c)
             \/ MarkAcknowledged(c)
    BY <2>5, AcknowledgeKeeps
  <2>6. CASE \/ MarkSubmitted(c) \/ TokenRead(c) \/ Post(c) \/ Reconcile(c)
             \/ Propagate(c) \/ PersistCompletion(c)
    BY <2>6, ExecuteKeeps
  <2>7. CASE Die(c)
    BY <2>7, Fails DEF Die
  <2> QED
    BY <1>2, <2>1, <2>2, <2>3, <2>4, <2>5, <2>6, <2>7 DEF Step
<1>3. CASE UNCHANGED vars
  BY <1>3 DEF vars, IInv, TypeOK, OneAnswerPerStep, ReleasedIsDurable, PostsAreOnRecord
<1> QED
  BY <1>1, <1>2, <1>3 DEF Next

LEMMA Invariance == Spec => []IInv
<1>1. Init => IInv
  BY Initially
<1>2. IInv /\ [Next]_vars => IInv'
  BY Inductive
<1> QED
  BY <1>1, <1>2, PTL DEF Spec

-----------------------------------------------------------------------------
(***************************************************************************)
(* Theorems                                                                 *)
(***************************************************************************)
\* Rows, calls and ghosts keep their types (gateway_store.rs:375-434, parse_record).
THEOREM GatewayTypeCorrect == Spec => []TypeOK
<1>1. IInv => TypeOK
  BY DEF IInv
<1> QED
  BY <1>1, Invariance, PTL

\* All answers ever returned for a step are the durable one, for any number of overlapping,
\* dying and repeated calls (gateway_client.rs:270-355).
THEOREM OneAnswer == Spec => []OneAnswerPerStep
<1>1. IInv => OneAnswerPerStep
  BY DEF IInv
<1> QED
  BY <1>1, Invariance, PTL

\* No acknowledgement can lose an answer (gateway_client.rs:395-411).
THEOREM AcknowledgedIsDurable == Spec => []ReleasedIsDurable
<1>1. IInv => ReleasedIsDurable
  BY DEF IInv
<1> QED
  BY <1>1, Invariance, PTL

\* Every POST of a step carries the body whose digest is on record (gateway_store.rs:182-227).
THEOREM OneBody == Spec => []PostsAreOnRecord
<1>1. IInv => PostsAreOnRecord
  BY DEF IInv
<1> QED
  BY <1>1, Invariance, PTL

\* A late call never reaches the inference endpoint (gateway_client.rs:325-338).
THEOREM LateIsOffline == Spec => []LateCallsDoNotPost
<1>1. IInv => LateCallsDoNotPost
  <2> SUFFICES ASSUME IInv, NEW c \in Callers, call[c].pc = "post" PROVE ~call[c].late
    BY DEF LateCallsDoNotPost, At
  <2>1. call[c] # Idle /\ Sound(call[c], row, clock)
    BY Busy DEF IInv
  <2> QED
    BY <2>1 DEF Sound
<1> QED
  BY <1>1, Invariance, PTL

-----------------------------------------------------------------------------
(***************************************************************************)
(* The refinement                                                           *)
(***************************************************************************)
\* Ending a call is a delivery, or nothing the contract sees.
LEMMA EndIsDelivery ==
  ASSUME IInv, NEW c \in Callers, UNCHANGED <<row, released>>,
         \/ UNCHANGED delivered
         \/ \E a : Return(c, a) /\ a = row.completion /\ a # NoAnswer
  PROVE  [Contract!Next]_<<row.completion, delivered, released>>
BY DEF Return, Contract!Next, Contract!Deliver

LEMMA StoreErrorIsNothing ==
  ASSUME NEW c \in Callers, NEW point, StoreError(c, point), UNCHANGED released
  PROVE  UNCHANGED <<row.completion, delivered, released>>
BY DEF StoreError, Fail

LEMMA TerminalIsDelivery ==
  ASSUME IInv, NEW c \in Callers, TerminalOrFail(c), Quiet
  PROVE  [Contract!Next]_<<row.completion, delivered, released>>
<1>1. CASE Return(c, row.completion) /\ row.state \in {"acknowledged", "completed"}
  BY <1>1, SettledAnswer, EndIsDelivery DEF Settled, Quiet
<1>2. CASE Fail(c)
  BY <1>2, EndIsDelivery DEF Fail, Quiet
<1> QED
  BY <1>1, <1>2 DEF TerminalOrFail

\* A call with a settled record returns the durable answer.
LEMMA ReturnIsDelivery ==
  ASSUME IInv, NEW c \in Callers, call[c].pc # "idle", Settled(call[c].rec),
         Return(c, call[c].rec.completion), UNCHANGED <<row, released>>
  PROVE  [Contract!Next]_<<row.completion, delivered, released>>
BY LoadedAnswer, EndIsDelivery

LEMMA StepImplements ==
  IInv /\ [Next]_vars => [Contract!Next]_<<row.completion, delivered, released>>
<1> SUFFICES ASSUME IInv, [Next]_vars
             PROVE  [Contract!Next]_<<row.completion, delivered, released>>
  OBVIOUS
<1>1. CASE Tick
  BY <1>1 DEF Tick
<1>2. ASSUME NEW c \in Callers, Step(c)
      PROVE  [Contract!Next]_<<row.completion, delivered, released>>
  <2> USE DEF At, Quiet, Local
  <2>1. CASE \/ \E input \in Inputs : Begin(c, input)
             \/ Acknowledge(c) \/ NothingLocal(c) \/ AckTokenRead(c) \/ TokenRead(c)
             \/ Post(c) \/ Reconcile(c)
    BY <2>1 DEF Begin, Acknowledge, NothingLocal, AckTokenRead, TokenRead, Post, Reconcile
  <2>2. CASE FailExpired(c) \/ Propagate(c) \/ Die(c)
    BY <2>2 DEF FailExpired, Propagate, Die, Fail
  <2>3. CASE Reserve(c) \/ ReserveFails(c)
    <3>1. CASE StoreError(c, "submit")
      BY <2>3, <3>1, StoreErrorIsNothing DEF Reserve, ReserveFails
    <3>2. ASSUME NEW id \in Ids, row' = InsertReservation(call[c].input, id),
                 UNCHANGED <<delivered, released>>
          PROVE  UNCHANGED <<row.completion, delivered, released>>
      BY <3>2 DEF InsertReservation, Reserved, NoRow
    <3> QED
      BY <2>3, <3>1, <3>2 DEF Reserve, ReserveFails
  <2>4. CASE ReturnAcknowledged(c) \/ ReturnExpired(c)
    BY <2>4, ReturnIsDelivery DEF ReturnAcknowledged, ReturnExpired, Settled
  <2>5. CASE TokenUnreadable(c) \/ AckFailed(c)
    BY <2>5, TerminalIsDelivery DEF TokenUnreadable, AckFailed
  <2>6. CASE SendAck(c)
    <3>1. call[c].pc = "ack" /\ call[c] # Idle /\ Sound(call[c], row, clock)
      BY <2>6, Busy DEF SendAck, IInv
    <3>2. row.completion # NoAnswer
      BY <3>1, LoadedAnswer DEF Sound, Settled
    <3> QED
      BY <2>6, <3>2 DEF SendAck, Contract!Next, Contract!Release
  <2>7. CASE MarkAcknowledged(c)
    <3>1. call[c].pc = "mark" /\ call[c] # Idle /\ Sound(call[c], row, clock)
      BY <2>7, Busy DEF MarkAcknowledged, IInv
    <3>2. row.completion = call[c].rec.completion /\ row.completion # NoAnswer
      BY <3>1, LoadedAnswer DEF Sound, Settled
    <3>3. row \in Rows
      BY <3>1, Loaded
    <3>4. row'.completion = row.completion
      BY <2>7, <3>3 DEF MarkAcknowledged, Rows
    <3> QED
      BY <2>7, <3>2, <3>4 DEF MarkAcknowledged, Return, Contract!Next, Contract!Deliver
  <2>8. CASE MarkSubmitted(c)
    <3>1. row \in Rows
      BY <2>8, Loaded DEF MarkSubmitted
    <3>2. CASE StoreError(c, "token")
      BY <2>8, <3>2, StoreErrorIsNothing DEF MarkSubmitted
    <3>3. CASE row' = Submitted(row, Body(call[c].rec)) /\ UNCHANGED delivered
      BY <2>8, <3>1, <3>3 DEF MarkSubmitted, Submitted, Rows
    <3> QED
      BY <2>8, <3>2, <3>3 DEF MarkSubmitted
  <2>9. CASE PersistCompletion(c)
    <3>1. call[c].pc = "persist" /\ call[c] # Idle /\ Sound(call[c], row, clock)
      BY <2>9, Busy DEF PersistCompletion, IInv
    <3>2. row \in Rows /\ RowOK(row) /\ row # NoRow /\ call[c].reply \in Answers
      BY <3>1, Loaded DEF Sound
    <3>3. CASE row' = Completed(row, call[c].reply) /\ UNCHANGED delivered
      <4>1. CASE row.state = "submitted"
        <5>1. row.completion = NoAnswer /\ row'.completion = call[c].reply
          BY <3>2, <3>3, <4>1 DEF Completed, Rows, RowOK, Settled
        <5> QED
          BY <2>9, <3>2, <3>3, <5>1 DEF PersistCompletion, Contract!Next, Contract!Settle
      <4>2. CASE row.state # "submitted"
        BY <2>9, <3>3, <4>2 DEF PersistCompletion, Completed
      <4> QED
        BY <4>1, <4>2
    <3>4. CASE UNCHANGED row /\ UNCHANGED delivered
      BY <2>9, <3>4 DEF PersistCompletion
    <3> QED
      BY <2>9, <3>3, <3>4 DEF PersistCompletion, Fail
  <2> QED
    BY <1>2, <2>1, <2>2, <2>3, <2>4, <2>5, <2>6, <2>7, <2>8, <2>9 DEF Step
<1>3. CASE UNCHANGED vars
  BY <1>3 DEF vars
<1> QED
  BY <1>1, <1>2, <1>3 DEF Next

\* The ledger implements the single agreed answer of GatewayAnswers.
THEOREM LedgerImplementsContract == Spec => Implements
<1>1. Init => Contract!Init
  BY DEF Init, NoRow, Contract!Init
<1>2. IInv /\ [Next]_vars => [Contract!Next]_<<row.completion, delivered, released>>
  BY StepImplements
<1> QED
  BY <1>1, <1>2, Invariance, PTL DEF Spec, Implements, Contract!Spec
=============================================================================
