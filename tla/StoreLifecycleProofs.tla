------------------------- MODULE StoreLifecycleProofs -------------------------
(***************************************************************************)
(* Proofs about StoreLifecycle, for any processes, threads and generations. *)
(*                                                                          *)
(* The three locks have one part of the invariant each. A step of a thread  *)
(* is judged by where it leads (Move): to a point of preparing only through *)
(* the gate, to the owner lock only when nobody owns, to the exclusive      *)
(* lease only when there is no Store, and to a new Store only from the      *)
(* record, by attaching, or as the one primary. What ends a Store, in a     *)
(* process that goes on or dies, is judged by what is left (Settle). Which  *)
(* file a connection leads to is a second invariant above the first: most   *)
(* steps are plain and leave it alone, and five are looked at one by one.   *)
(***************************************************************************)
EXTENDS StoreLifecycle, TLAPS

USE DesktopAssumption, HomeAssumption, BoundsAssumption

-----------------------------------------------------------------------------
(***************************************************************************)
(* The invariant                                                            *)
(***************************************************************************)
OwnerPoints == {"exclude", "migrate", "clear", "write", "bind"}
LeasePoints == {"migrate", "clear", "write", "bind"}
SharedPoints == CheckPoints \cup AttachPoints
ThreadRecords == [pc : Points, op : Ops, why : Checks, store : StoreOrNone, conn : Conns \cup {NoConn}]
Closing == {"no", "owner", "authority", "dying"}

\* The gate: who prepares is alone, and nobody looks.
GateOK == \A t, u \in Thread :
  th[t].pc \in PreparePoints => /\ th[u].pc \notin SharedPoints
                                /\ th[u].pc \in PreparePoints => u = t

\* The owner lock: one process has it; while it prepares, it has it by preparing and not by a Store;
\* and a Store that is being dropped is the last one of its process.
OneOwner == \A p, q \in Process : Owns(p) /\ Owns(q) => p = q
FreshOwner == \A t \in Thread, p \in Process :
  th[t].pc \in OwnerPoints => ~PrimaryRef(p) /\ closing[p] \notin {"owner", "dying"}
LastRef == \A p \in Process : closing[p] \in {"owner", "dying"} => ~PrimaryRef(p)

\* The lease: from its exclusive lock to the new Store nobody has one.
LeaseOK == \A t \in Thread, p \in Process : th[t].pc \in LeasePoints => Refs(p) = {}

RecordOK == \A t \in Thread : th[t].pc = "bind" => record # Torn

Current == \A p \in Process : \A s \in Refs(p) : record.gen = s.gen

IInv == /\ TypeOK
        /\ GateOK
        /\ OneOwner /\ FreshOwner /\ LastRef
        /\ LeaseOK
        /\ RecordOK
        /\ AuthorityFindsNoPrimary
        /\ Current

-----------------------------------------------------------------------------
(***************************************************************************)
(* Lemmas                                                                   *)
(***************************************************************************)
LEMMA Distinct == /\ NoStore \notin Stores /\ NoConn \notin Conns /\ Torn \notin Records
                  /\ ~NoStore.primary /\ Idle \in ThreadRecords /\ WellFormed(Idle)
                  /\ Idle.store = NoStore /\ Idle.pc = "idle"
<1>1. NoStore \notin Stores /\ NoConn \notin Conns /\ Torn \notin Records
  BY DEF NoStore, Stores, NoConn, Conns, Torn, Records, Generations, Files
<1>2. ~NoStore.primary /\ Idle.store = NoStore /\ Idle.pc = "idle"
  BY DEF NoStore, Idle
<1>3. Idle \in ThreadRecords
  BY DEF Idle, ThreadRecords, Points, Ops, Checks, StoreOrNone
<1>4. WellFormed(Idle)
  BY DEF WellFormed, Idle, CheckPoints, PreparePoints
<1> QED
  BY <1>1, <1>2, <1>3, <1>4

\* The Stores of a process, one by one.
LEMMA Member ==
  ASSUME NEW p \in Process, NEW s
  PROVE  s \in Refs(p) <=> /\ s # NoStore
                           /\ \/ s = cached[p] \/ s = provider[p]
                              \/ \E t \in Thread : Home[t] = p /\ th[t].store = s
BY DEF Refs

\* Who owns, in terms of points.
LEMMA Owner ==
  ASSUME NEW p \in Process
  PROVE  Owns(p) <=> \/ PrimaryRef(p) \/ closing[p] \in {"owner", "dying"}
                     \/ \E t \in Thread : Home[t] = p /\ th[t].pc \in OwnerPoints
BY DEF Owns, Within, OwnerPoints

LEMMA Authorized ==
  ASSUME NEW p \in Process, Owns(p), closing[p] # "dying"
  PROVE  HasAuthority(p)
<1>1. CASE PrimaryRef(p) \/ closing[p] = "owner"
  BY <1>1 DEF HasAuthority
<1>2. CASE \E t \in Thread : Home[t] = p /\ th[t].pc \in OwnerPoints
  BY <1>2 DEF HasAuthority, Within, OwnerPoints, PreparePoints
<1> QED
  BY <1>1, <1>2, Owner

LEMMA PointSets == /\ LeasePoints \subseteq OwnerPoints /\ OwnerPoints \subseteq PreparePoints
                   /\ "primary" \in PreparePoints /\ "primary" \notin OwnerPoints
                   /\ "bind" \in LeasePoints /\ "lease" \in SharedPoints
                   /\ {"clear", "write"} \subseteq LeasePoints
                   /\ PreparePoints \cap SharedPoints = {}
BY DEF LeasePoints, OwnerPoints, PreparePoints, SharedPoints, CheckPoints, AttachPoints

-----------------------------------------------------------------------------
(***************************************************************************)
(* A thread moves                                                           *)
(***************************************************************************)
\* What a thread at pc "from" may have as a new Store: one of the generation on record, and the
\* primary's only where it was prepared.
NewStore(t, p, s, r) ==
  /\ p = Home[t] /\ s.gen = record.gen /\ r.pc \notin PreparePoints
  /\ th[t].pc = "bind" \/ (th[t].pc = "lease" /\ ~s.primary)

\* Where a step may lead: through the gate, to the owner lock, to the exclusive lease, to the
\* authority.
MayGo(t, pc) ==
  /\ pc \in PreparePoints => th[t].pc \in PreparePoints \/ MayBegin
  /\ pc \in SharedPoints => th[t].pc \in SharedPoints \/ GateExclusive = {}
  /\ pc \in OwnerPoints => th[t].pc \in OwnerPoints \/ (th[t].pc = "primary" /\ OwnerExclusive = {})
  /\ pc \in LeasePoints => th[t].pc \in LeasePoints \/ LeaseShared = {}
  /\ pc = "primary" => \A p \in Process : ~HasAuthority(p)

\* A Store that goes leaves its process closing.
Closes == \A p \in Process : \/ closing'[p] = closing[p]
                             \/ closing'[p] = "owner" /\ PrimaryRef(p) /\ ~PrimaryRef(p)'

LEMMA Gate ==
  /\ GateExclusive = {} => \A u \in Thread : th[u].pc \notin PreparePoints
  /\ MayBegin => \A u \in Thread : th[u].pc \notin PreparePoints /\ th[u].pc \notin SharedPoints
BY DEF GateExclusive, GateShared, MayBegin, Within, SharedPoints

LEMMA NoOwner == OwnerExclusive = {} => \A p \in Process : ~Owns(p)
BY DEF OwnerExclusive

LEMMA NoLease == LeaseShared = {} => \A p \in Process : Refs(p) = {}
BY DEF LeaseShared

LEMMA Primary ==
  ASSUME NEW p \in Process
  PROVE  PrimaryRef(p) <=> \E s \in Refs(p) : s.primary
BY DEF PrimaryRef

LEMMA Move ==
  ASSUME IInv, NEW t \in Thread, NEW r \in ThreadRecords, WellFormed(r),
         th' = [th EXCEPT ![t] = r],
         cached' \in [Process -> StoreOrNone], provider' \in [Process -> StoreOrNone],
         closing' \in [Process -> Closing], record' \in Records \cup {Torn},
         file' \in Files, faults' \in 0..MaxFaults,
         MayGo(t, r.pc), Closes,
         r.pc = "bind" => record' # Torn,
         record' # record => th[t].pc \in {"clear", "write"},
         \A p \in Process : \A s \in Refs(p)' : s \in Refs(p) \/ NewStore(t, p, s, r)
  PROVE  IInv'
<1>1. /\ th \in [Thread -> ThreadRecords] /\ th' \in [Thread -> ThreadRecords]
      /\ th'[t] = r /\ \A u \in Thread : u # t => th'[u] = th[u]
      /\ \A u \in Thread : Home[u] \in Process
  BY DEF IInv, TypeOK, ThreadRecords
<1>2. TypeOK'
  <2>1. \A u \in Thread : WellFormed(th'[u])
    BY <1>1 DEF IInv, TypeOK
  <2> QED
    BY <1>1, <2>1 DEF TypeOK, ThreadRecords, Closing
<1>3. GateOK'
  BY <1>1, Gate, PointSets DEF IInv, GateOK, MayGo
<1>4. \A u \in Thread : th[u].pc \in LeasePoints => \A p \in Process : Refs(p) = {} /\ ~PrimaryRef(p)
  BY Primary DEF IInv, LeaseOK
<1>5. \A p \in Process : \A s \in Refs(p)' :
        (\E u \in Thread : th'[u].pc \in PreparePoints) => s \in Refs(p)
  <2> SUFFICES ASSUME NEW p \in Process, NEW s \in Refs(p)', NewStore(t, p, s, r),
                      NEW u \in Thread, th'[u].pc \in PreparePoints
               PROVE  FALSE
    OBVIOUS
  <2>1. u # t /\ th[u].pc \in PreparePoints
    BY <1>1 DEF NewStore
  <2>2. th[t].pc \in PreparePoints \/ th[t].pc \in SharedPoints
    BY PointSets DEF NewStore
  <2> QED
    BY <2>1, <2>2 DEF IInv, GateOK
<1>6. \A p \in Process : PrimaryRef(p)' =>
        \/ PrimaryRef(p)
        \/ p = Home[t] /\ th[t].pc = "bind" /\ \A u \in Thread : th'[u].pc \notin PreparePoints
  <2> SUFFICES ASSUME NEW p \in Process, PrimaryRef(p)', ~PrimaryRef(p)
               PROVE  p = Home[t] /\ th[t].pc = "bind" /\ \A u \in Thread : th'[u].pc \notin PreparePoints
    OBVIOUS
  <2>1. PICK s \in Refs(p)' : s.primary
    BY DEF PrimaryRef
  <2>2. s \notin Refs(p)
    BY <2>1, Primary
  <2> QED
    BY <1>5, <2>1, <2>2 DEF NewStore
<1>7. \A p \in Process : Owns(p)' =>
        \/ Owns(p)
        \/ th[t].pc = "primary" /\ r.pc \in OwnerPoints /\ OwnerExclusive = {} /\ p = Home[t]
  <2> SUFFICES ASSUME NEW p \in Process, Owns(p)', ~Owns(p)
               PROVE  th[t].pc = "primary" /\ r.pc \in OwnerPoints /\ OwnerExclusive = {} /\ p = Home[t]
    OBVIOUS
  <2>1. ~PrimaryRef(p) /\ closing[p] \notin {"owner", "dying"}
        /\ \A u \in Thread : Home[u] = p => th[u].pc \notin OwnerPoints
    BY Owner
  <2>2. ~PrimaryRef(p)'
    BY <1>6, <2>1, PointSets
  <2>3. closing'[p] = closing[p]
    BY <2>1 DEF Closes
  <2>4. PICK u \in Thread : Home[u] = p /\ th'[u].pc \in OwnerPoints
    BY <2>1, <2>2, <2>3 DEF Owns, Within, OwnerPoints
  <2> QED
    BY <1>1, <2>1, <2>4 DEF MayGo
<1>8. OneOwner'
  BY <1>7, NoOwner DEF IInv, OneOwner
<1>9. FreshOwner'
  <2> SUFFICES ASSUME NEW u \in Thread, NEW p \in Process, th'[u].pc \in OwnerPoints
               PROVE  ~PrimaryRef(p)' /\ closing'[p] \notin {"owner", "dying"}
    BY DEF FreshOwner
  <2>1. ~PrimaryRef(p) /\ closing[p] \notin {"owner", "dying"}
    <3>1. CASE th[u].pc \in OwnerPoints
      BY <3>1 DEF IInv, FreshOwner
    <3>2. CASE th[u].pc \notin OwnerPoints
      BY <3>2, <1>1, NoOwner, Owner DEF MayGo
    <3> QED
      BY <3>1, <3>2
  <2> QED
    BY <2>1, <1>6, PointSets DEF Closes
<1>10. LastRef'
  <2> SUFFICES ASSUME NEW p \in Process, closing'[p] \in {"owner", "dying"}, PrimaryRef(p)'
               PROVE  FALSE
    BY DEF LastRef
  <2>1. closing[p] \in {"owner", "dying"}
    BY DEF Closes
  <2>2. ~PrimaryRef(p)
    BY <2>1 DEF IInv, LastRef
  <2> QED
    BY <2>1, <2>2, <1>6, PointSets DEF IInv, FreshOwner
<1>11. LeaseOK'
  <2> SUFFICES ASSUME NEW u \in Thread, NEW p \in Process, th'[u].pc \in LeasePoints
               PROVE  Refs(p)' = {}
    BY DEF LeaseOK
  <2>1. Refs(p) = {}
    BY <1>1, <1>4, NoLease DEF MayGo
  <2> QED
    BY <2>1, <1>5, PointSets
<1>12. RecordOK'
  <2> SUFFICES ASSUME NEW u \in Thread, th'[u].pc = "bind"
               PROVE  record' # Torn
    BY DEF RecordOK
  <2>1. CASE u # t /\ record' # record
    BY <2>1, <1>1, PointSets DEF IInv, GateOK
  <2>2. CASE u # t /\ record' = record
    BY <2>2, <1>1 DEF IInv, RecordOK
  <2> QED
    BY <2>1, <2>2, <1>1
<1>13. AuthorityFindsNoPrimary'
  <2> SUFFICES ASSUME NEW u \in Thread, NEW p \in Process, th'[u].pc = "primary", Owns(p)'
               PROVE  closing'[p] = "dying"
    BY DEF AuthorityFindsNoPrimary, Within
  <2>1. Owns(p)
    BY <1>7, <1>1, PointSets DEF IInv, GateOK
  <2>2. closing[p] = "dying"
    <3>1. CASE th[u].pc = "primary"
      BY <3>1, <2>1 DEF IInv, AuthorityFindsNoPrimary, Within
    <3>2. CASE th[u].pc # "primary"
      BY <3>2, <2>1, <1>1, Authorized DEF MayGo
    <3> QED
      BY <3>1, <3>2
  <2> QED
    BY <2>2 DEF Closes, IInv, LastRef
<1>14. Current'
  <2> SUFFICES ASSUME NEW p \in Process, NEW s \in Refs(p)'
               PROVE  record'.gen = s.gen
    BY DEF Current
  <2>1. CASE record' = record
    BY <2>1 DEF IInv, Current, NewStore
  <2>2. CASE record' # record
    <3>1. Refs(p) = {}
      BY <2>2, <1>4, PointSets
    <3> QED
      BY <3>1, <2>2 DEF NewStore
  <2> QED
    BY <2>1, <2>2
<1> QED
  BY <1>2, <1>3, <1>8, <1>9, <1>10, <1>11, <1>12, <1>13, <1>14 DEF IInv

-----------------------------------------------------------------------------
(***************************************************************************)
(* What ends                                                                *)
(***************************************************************************)
\* What may become of a process's hold on the owner lock and the authority when something ends.
Ends(p) == \/ closing'[p] = closing[p] \/ closing'[p] \in {"no", "authority"}
           \/ closing'[p] = "owner" /\ PrimaryRef(p) /\ ~PrimaryRef(p)'
           \/ /\ closing'[p] = "dying" /\ Owns(p) /\ ~PrimaryRef(p)'
              /\ \A u \in Thread : Home[u] = p => th'[u].pc = "idle"

LEMMA Settle ==
  ASSUME IInv, th' \in [Thread -> ThreadRecords],
         \A u \in Thread : th'[u] = th[u] \/ th'[u] = Idle,
         cached' \in [Process -> StoreOrNone], provider' \in [Process -> StoreOrNone],
         closing' \in [Process -> Closing], record' = record,
         file' \in Files, faults' \in 0..MaxFaults,
         \A p \in Process : Refs(p)' \subseteq Refs(p),
         \A p \in Process : Ends(p)
  PROVE  IInv'
<1>1. \A u \in Thread : th'[u] = th[u] \/ (th'[u].pc = "idle" /\ th'[u].pc \notin PreparePoints
                                            /\ th'[u].pc \notin SharedPoints)
  BY Distinct DEF PreparePoints, SharedPoints, CheckPoints, AttachPoints
<1>2. TypeOK'
  <2>1. \A u \in Thread : WellFormed(th'[u])
    BY Distinct DEF IInv, TypeOK
  <2> QED
    BY <2>1 DEF IInv, TypeOK, ThreadRecords, Closing
<1>3. GateOK'
  BY <1>1 DEF IInv, GateOK
<1>4. \A p \in Process : PrimaryRef(p)' => PrimaryRef(p)
  BY DEF PrimaryRef
<1>5. \A p \in Process : Owns(p)' => Owns(p)
  <2> SUFFICES ASSUME NEW p \in Process, Owns(p)', ~Owns(p)
               PROVE  FALSE
    OBVIOUS
  <2>1. ~PrimaryRef(p) /\ closing[p] \notin {"owner", "dying"}
        /\ \A u \in Thread : Home[u] = p => th[u].pc \notin OwnerPoints
    BY Owner
  <2>2. \A u \in Thread : Home[u] = p => th'[u].pc \notin OwnerPoints
    BY <1>1, <2>1, PointSets
  <2>3. closing'[p] \notin {"owner", "dying"}
    BY <2>1 DEF Ends
  <2> QED
    BY <1>4, <2>1, <2>2, <2>3 DEF Owns, Within, OwnerPoints
<1>6. OneOwner'
  BY <1>5 DEF IInv, OneOwner
<1>7. FreshOwner'
  <2> SUFFICES ASSUME NEW u \in Thread, NEW p \in Process, th'[u].pc \in OwnerPoints
               PROVE  ~PrimaryRef(p)' /\ closing'[p] \notin {"owner", "dying"}
    BY DEF FreshOwner
  <2>1. th[u].pc \in OwnerPoints /\ th'[u] = th[u] /\ Home[u] \in Process
    BY <1>1, PointSets
  <2>2. ~PrimaryRef(p) /\ closing[p] \notin {"owner", "dying"}
    BY <2>1 DEF IInv, FreshOwner
  <2>3. Owns(Home[u])
    BY <2>1, Owner
  <2>4. ~(closing'[p] = "dying" /\ Owns(p) /\ \A v \in Thread : Home[v] = p => th'[v].pc = "idle")
    BY <2>1, <2>3, PointSets DEF IInv, OneOwner, PreparePoints
  <2> QED
    BY <2>2, <2>4, <1>4 DEF Ends
<1>8. LastRef'
  BY <1>4 DEF IInv, LastRef, Ends
<1>9. LeaseOK'
  BY <1>1, PointSets DEF IInv, LeaseOK
<1>10. RecordOK'
  BY <1>1 DEF IInv, RecordOK
<1>11. AuthorityFindsNoPrimary'
  <2> SUFFICES ASSUME NEW u \in Thread, NEW p \in Process, th'[u].pc = "primary", Owns(p)'
               PROVE  closing'[p] = "dying"
    BY DEF AuthorityFindsNoPrimary, Within
  <2>1. th[u].pc = "primary"
    BY <1>1
  <2>2. Owns(p) /\ closing[p] = "dying" /\ ~PrimaryRef(p)
    BY <2>1, <1>5 DEF IInv, AuthorityFindsNoPrimary, Within, LastRef
  <2>3. \A v \in Thread : th'[v].pc \notin OwnerPoints
    BY <1>1, <2>1, PointSets DEF IInv, GateOK
  <2>4. closing'[p] \in {"owner", "dying"}
    BY <2>2, <2>3, <1>4 DEF Owns, Within, OwnerPoints
  <2> QED
    BY <2>2, <2>4 DEF Ends
<1>12. Current'
  BY DEF IInv, Current
<1> QED
  BY <1>2, <1>3, <1>6, <1>7, <1>8, <1>9, <1>10, <1>11, <1>12 DEF IInv

-----------------------------------------------------------------------------
(***************************************************************************)
(* The steps of a thread                                                    *)
(***************************************************************************)
FreePoints == {"idle", "gate", "connect", "work", "relock", "begin", "wait"}

LEMMA FreeGo ==
  ASSUME NEW t, NEW pc \in FreePoints
  PROVE  MayGo(t, pc) /\ pc # "bind"
BY DEF MayGo, FreePoints, PreparePoints, SharedPoints, CheckPoints, AttachPoints, OwnerPoints,
       LeasePoints

LEMMA SharedGo ==
  ASSUME NEW t, NEW pc \in SharedPoints, th[t].pc \in SharedPoints \/ GateExclusive = {}
  PROVE  MayGo(t, pc) /\ pc # "bind"
BY PointSets DEF MayGo

\* A Store a process can have without a new one.
Sheds(t, r) ==
  /\ r.store \in {NoStore, th[t].store, cached[Home[t]], provider[Home[t]]}
  /\ cached' \in {cached, [cached EXCEPT ![Home[t]] = NoStore], [cached EXCEPT ![Home[t]] = th[t].store]}
  /\ provider' \in {provider, [provider EXCEPT ![Home[t]] = th[t].store]}

LEMMA Shed ==
  ASSUME TypeOK, NEW t \in Thread, NEW r, th' = [th EXCEPT ![t] = r], Sheds(t, r)
  PROVE  /\ \A p \in Process : \A s \in Refs(p)' : s \in Refs(p)
         /\ cached' \in [Process -> StoreOrNone] /\ provider' \in [Process -> StoreOrNone]
<1>1. /\ Home[t] \in Process /\ th'[t] = r /\ \A u \in Thread : u # t => th'[u] = th[u]
      /\ cached \in [Process -> StoreOrNone] /\ provider \in [Process -> StoreOrNone]
      /\ th[t].store \in StoreOrNone /\ NoStore \in StoreOrNone
  BY DEF TypeOK, StoreOrNone
<1>2. cached' \in [Process -> StoreOrNone] /\ provider' \in [Process -> StoreOrNone]
  BY <1>1 DEF Sheds
<1>3. ASSUME NEW p \in Process, NEW s \in Refs(p)'
      PROVE  s \in Refs(p)
  <2>1. s # NoStore /\ \/ s = cached'[p] \/ s = provider'[p]
                       \/ \E u \in Thread : Home[u] = p /\ th'[u].store = s
    BY DEF Refs
  <2>2. CASE s = cached'[p] \/ s = provider'[p]
    BY <1>1, <2>1, <2>2, Member DEF Sheds
  <2>3. CASE \E u \in Thread : Home[u] = p /\ th'[u].store = s
    BY <1>1, <2>1, <2>3, Member DEF Sheds
  <2> QED
    BY <2>1, <2>2, <2>3
<1> QED
  BY <1>2, <1>3

LEMMA Walk ==
  ASSUME IInv, NEW t \in Thread, NEW r \in ThreadRecords, WellFormed(r),
         th' = [th EXCEPT ![t] = r], Sheds(t, r), MayGo(t, r.pc), r.pc # "bind",
         record' = record, file' = file, faults' \in 0..MaxFaults,
         closing' = closing \/ Drops
  PROVE  IInv'
<1>1. /\ record' \in Records \cup {Torn} /\ file' \in Files
      /\ closing' \in [Process -> Closing]
  BY DEF IInv, TypeOK, Drops, Closing
<1>2. Closes
  BY DEF Closes, Drops
<1>3. /\ \A p \in Process : \A s \in Refs(p)' : s \in Refs(p)
      /\ cached' \in [Process -> StoreOrNone] /\ provider' \in [Process -> StoreOrNone]
  BY Shed DEF IInv
<1> QED
  BY <1>1, <1>2, <1>3, Move

\* The same for a step that only goes on to the next line.
Kinds == {CheckPoints \cup {"gate", "connect"},
          (PreparePoints \ {"write"}) \cup {"begin", "wait", "relock", "seek", "lease"},
          {"connection", "seekAgain", "join"}}
SameKind(from, to) == \/ \E k \in Kinds : from \in k /\ to \in k
                      \/ from \in {"seek", "seekAgain"} /\ to = "nobody"

LEMMA Kept ==
  ASSUME NEW r \in ThreadRecords, WellFormed(r), NEW to \in Points, SameKind(r.pc, to)
  PROVE  [r EXCEPT !.pc = to] \in ThreadRecords /\ WellFormed([r EXCEPT !.pc = to])
<1> DEFINE n == [r EXCEPT !.pc = to]
<1>1. /\ n.pc = to /\ n.op = r.op /\ n.why = r.why /\ n.store = r.store /\ n.conn = r.conn
      /\ n \in ThreadRecords
  BY DEF ThreadRecords
<1> HIDE DEF n
<1>2. WellFormed(n)
  <2>1. CASE r.pc \in CheckPoints \cup {"gate", "connect"} /\ to \in CheckPoints \cup {"gate", "connect"}
    BY <1>1, <2>1 DEF WellFormed, CheckPoints, PreparePoints
  <2>2. CASE \E k \in Kinds \ {CheckPoints \cup {"gate", "connect"}} : r.pc \in k /\ to \in k
    BY <1>1, <2>2 DEF WellFormed, CheckPoints, PreparePoints, Kinds
  <2>3. CASE r.pc \in {"seek", "seekAgain"} /\ to = "nobody"
    BY <1>1, <2>3 DEF WellFormed, CheckPoints, PreparePoints
  <2> QED
    BY <2>1, <2>2, <2>3 DEF SameKind, Kinds
<1> QED
  BY <1>1, <1>2 DEF n

LEMMA Hop ==
  ASSUME IInv, NEW t \in Thread, NEW from, NEW to \in Points, Step(t, from, to),
         SameKind(from, to), MayGo(t, to), to # "bind"
  PROVE  IInv'
<1> DEFINE r == [th[t] EXCEPT !.pc = to]
<1>1. th[t] \in ThreadRecords /\ WellFormed(th[t]) /\ th[t].pc = from
  BY DEF IInv, TypeOK, ThreadRecords, Step, At
<1>2. r \in ThreadRecords /\ WellFormed(r)
  BY <1>1, Kept
<1>3. r.pc = to /\ r.store = th[t].store
  BY <1>1 DEF ThreadRecords
<1>4. /\ th' = [th EXCEPT ![t] = r] /\ cached' = cached /\ provider' = provider
      /\ closing' = closing /\ record' = record /\ file' = file /\ faults' \in 0..MaxFaults
  BY DEF Step, Go, Become, shared, IInv, TypeOK
<1> HIDE DEF r
<1>5. Sheds(t, r)
  BY <1>3, <1>4 DEF Sheds
<1> QED
  BY <1>2, <1>3, <1>4, <1>5, Walk

LEMMA FailedIs ==
  ASSUME TypeOK, NEW t \in Thread
  PROVE  /\ Failed(t) \in ThreadRecords /\ WellFormed(Failed(t)) /\ Failed(t).store = NoStore
         /\ Failed(t).pc \in FreePoints
<1>1. \A pc \in {"begin", "wait", "relock"} :
        /\ [Idle EXCEPT !.pc = pc, !.op = "retry"] \in ThreadRecords
        /\ WellFormed([Idle EXCEPT !.pc = pc, !.op = "retry"])
        /\ [Idle EXCEPT !.pc = pc, !.op = "retry"].store = NoStore
        /\ [Idle EXCEPT !.pc = pc, !.op = "retry"].pc = pc
  BY DEF Idle, ThreadRecords, Points, Ops, Checks, StoreOrNone, WellFormed, CheckPoints, PreparePoints
<1>2. \/ Failed(t) = Idle
      \/ \E pc \in {"begin", "wait"} : Failed(t) = [Idle EXCEPT !.pc = pc, !.op = "retry"]
  BY DEF Failed
<1> QED
  BY <1>1, <1>2, Distinct DEF FreePoints

LEMMA OnFail ==
  ASSUME IInv, NEW t \in Thread, Fail(t), faults' \in 0..MaxFaults
  PROVE  IInv'
<1> DEFINE q == [Idle EXCEPT !.pc = "relock", !.op = "retry"]
<1>1. q \in ThreadRecords /\ WellFormed(q) /\ q.store = NoStore /\ q.pc = "relock"
  BY DEF Idle, ThreadRecords, Points, Ops, Checks, StoreOrNone, WellFormed, CheckPoints, PreparePoints
<1>2. PICK r \in {q, Idle, Failed(t)} :
        /\ th' = [th EXCEPT ![t] = r]
        /\ cached' \in {cached, [cached EXCEPT ![Home[t]] = NoStore]}
  BY DEF Fail, Become
<1>3. provider' = provider /\ record' = record /\ file' = file /\ Drops
  BY DEF Fail, disk
<1> HIDE DEF q
<1>4. r \in ThreadRecords /\ WellFormed(r) /\ r.store = NoStore /\ r.pc \in FreePoints
  BY <1>1, FailedIs, Distinct DEF IInv, FreePoints
<1>5. Sheds(t, r)
  BY <1>2, <1>3, <1>4 DEF Sheds
<1> QED
  BY <1>2, <1>3, <1>4, <1>5, FreeGo, Walk

LEMMA OnBusy ==
  ASSUME IInv, NEW t \in Thread, Busy(t)
  PROVE  IInv'
<1>1. PICK r \in {Idle, Failed(t)} : th' = [th EXCEPT ![t] = r]
  BY DEF Busy, Become
<1>2. /\ cached' = cached /\ provider' = provider /\ record' = record /\ file' = file /\ Drops
      /\ faults' \in 0..MaxFaults
  BY DEF Busy, disk, IInv, TypeOK
<1>3. r \in ThreadRecords /\ WellFormed(r) /\ r.store = NoStore /\ r.pc \in FreePoints
  BY FailedIs, Distinct DEF IInv, FreePoints
<1>4. Sheds(t, r)
  BY <1>2, <1>3 DEF Sheds
<1> QED
  BY <1>1, <1>2, <1>3, <1>4, FreeGo, Walk

LEMMA PassedIs ==
  ASSUME TypeOK, NEW t \in Thread, At(t, "identity")
  PROVE  /\ Passed(t) \in ThreadRecords /\ WellFormed(Passed(t)) /\ Passed(t).pc \in FreePoints
         /\ Passed(t).store \in {NoStore, th[t].store}
<1> DEFINE a == th[t]
<1>1. /\ a \in ThreadRecords /\ WellFormed(a) /\ a.pc = "identity" /\ a.store # NoStore
      /\ a.why # "none" /\ a.op # "none" /\ (a.conn # NoConn <=> a.why = "second")
  BY DEF TypeOK, ThreadRecords, At, WellFormed, CheckPoints
<1> HIDE DEF a
<1>2. DEFINE first == [a EXCEPT !.pc = "gate", !.why = "first"]
             connecting == [a EXCEPT !.pc = "connect"]
             attached == [a EXCEPT !.pc = "work", !.why = "none"]
             working == [a EXCEPT !.pc = "work", !.why = "none", !.store = NoStore]
             final == [a EXCEPT !.pc = "gate", !.why = "final", !.conn = NoConn]
<1>3. \/ Passed(t) = Idle
      \/ a.why = "get" /\ Passed(t) = first
      \/ a.why = "first" /\ Passed(t) = connecting
      \/ a.why = "second" /\ Passed(t) \in {attached, working, final}
  BY DEF Passed, a
<1>4. CASE Passed(t) = Idle
  BY <1>4, Distinct DEF FreePoints
<1>5. CASE a.why = "get" /\ Passed(t) = first
  BY <1>1, <1>5 DEF ThreadRecords, Points, Checks, WellFormed, CheckPoints, PreparePoints, FreePoints, a
<1>6. CASE a.why = "first" /\ Passed(t) = connecting
  BY <1>1, <1>6 DEF ThreadRecords, Points, Checks, WellFormed, CheckPoints, PreparePoints, FreePoints, a
<1>7. CASE a.why = "second" /\ Passed(t) = attached
  BY <1>1, <1>7 DEF ThreadRecords, Points, Checks, WellFormed, CheckPoints, PreparePoints, FreePoints, a
<1>8. CASE a.why = "second" /\ Passed(t) = working
  BY <1>1, <1>8 DEF ThreadRecords, Points, Checks, StoreOrNone, WellFormed, CheckPoints, PreparePoints,
                    FreePoints
<1>9. CASE a.why = "second" /\ Passed(t) = final
  BY <1>1, <1>9 DEF ThreadRecords, Points, Checks, WellFormed, CheckPoints, PreparePoints, FreePoints, a
<1> QED
  BY <1>3, <1>4, <1>5, <1>6, <1>7, <1>8, <1>9

\* The step of a thread to a record that shares its Store with what the process has, at a point
\* without a lock or from one shared lock to another.
LEMMA Turn ==
  ASSUME IInv, NEW t \in Thread, NEW r \in ThreadRecords, WellFormed(r), Become(t, r), UNCHANGED shared,
         r.store \in {NoStore, th[t].store, cached[Home[t]], provider[Home[t]]},
         MayGo(t, r.pc), r.pc # "bind"
  PROVE  IInv'
<1>1. /\ th' = [th EXCEPT ![t] = r] /\ cached' = cached /\ provider' = provider
      /\ closing' = closing /\ record' = record /\ file' = file /\ faults' \in 0..MaxFaults
  BY DEF Become, shared, IInv, TypeOK
<1>2. Sheds(t, r)
  BY <1>1 DEF Sheds
<1> QED
  BY <1>1, <1>2, Walk

LEMMA OnCheck ==
  ASSUME IInv, NEW t \in Thread, Check(t)
  PROVE  IInv'
<1>0. /\ th[t] \in ThreadRecords /\ WellFormed(th[t]) /\ faults \in 0..MaxFaults /\ Home[t] \in Process
  BY DEF IInv, TypeOK, ThreadRecords
<1>1. CASE TakeGate(t)
  <2>1. Step(t, "gate", "probe") /\ GateExclusive = {}
    BY <1>1 DEF TakeGate
  <2>2. "probe" \in Points /\ "probe" \in SharedPoints /\ SameKind("gate", "probe")
    BY DEF Points, SharedPoints, CheckPoints, SameKind, Kinds
  <2> QED
    BY <2>1, <2>2, SharedGo, Hop
<1>2. CASE GateIsTaken(t)
  BY <1>2, OnBusy DEF GateIsTaken
<1>3. CASE Probe(t)
  <2>1. PICK to \in {"record", "absent"} : Step(t, "probe", to)
    BY <1>3 DEF Probe
  <2>2. to \in Points /\ to \in SharedPoints /\ SameKind("probe", to) /\ th[t].pc \in SharedPoints
    BY <2>1 DEF Points, SharedPoints, CheckPoints, SameKind, Kinds, Step, At
  <2> QED
    BY <2>1, <2>2, SharedGo, Hop
<1>4. CASE Unavailable(t)
  BY <1>0, <1>4, OnFail DEF Unavailable
<1>5. CASE ReadRecord(t)
  <2>1. CASE Step(t, "record", "identity")
    <3>1. /\ "identity" \in Points /\ "identity" \in SharedPoints /\ SameKind("record", "identity")
          /\ th[t].pc \in SharedPoints
      BY <2>1 DEF Points, SharedPoints, CheckPoints, SameKind, Kinds, Step, At
    <3> QED
      BY <2>1, <3>1, SharedGo, Hop
  <2> QED
    BY <1>0, <1>5, <2>1, OnFail DEF ReadRecord
<1>6. CASE CheckIdentity(t)
  <2>1. CASE SameFile(th[t].store) /\ th' = [th EXCEPT ![t] = Passed(t)]
    <3>1. /\ cached' \in {cached, [cached EXCEPT ![Home[t]] = th[t].store]}
          /\ provider' \in {provider, [provider EXCEPT ![Home[t]] = th[t].store]}
          /\ record' = record /\ file' = file /\ faults' = faults /\ Drops
      BY <1>6, <2>1 DEF CheckIdentity, disk, Fail
    <3>2. /\ Passed(t) \in ThreadRecords /\ WellFormed(Passed(t)) /\ Passed(t).pc \in FreePoints
          /\ Passed(t).store \in {NoStore, th[t].store}
      BY <1>6, PassedIs DEF CheckIdentity, IInv
    <3>3. Sheds(t, Passed(t))
      BY <3>1, <3>2 DEF Sheds
    <3> QED
      BY <1>0, <2>1, <3>1, <3>2, <3>3, FreeGo, Walk
  <2> QED
    BY <1>0, <1>6, <2>1, OnFail DEF CheckIdentity, Become
<1>7. CASE Connect(t)
  <2> DEFINE c == [gen |-> th[t].store.gen, file |-> file]
             r == [th[t] EXCEPT !.pc = "gate", !.why = "second", !.conn = c]
  <2>1. th[t].pc = "connect" /\ th[t].store # NoStore /\ th[t].op # "none" /\ th[t].store \in Stores
    BY <1>0, <1>7 DEF Connect, At, WellFormed, ThreadRecords, StoreOrNone, CheckPoints
  <2>2. c \in Conns /\ c # NoConn
    BY <2>1, Distinct DEF Conns, Stores, IInv, TypeOK
  <2>3. Become(t, r) /\ UNCHANGED shared
    BY <1>7 DEF Connect
  <2> HIDE DEF c
  <2>4. r \in ThreadRecords /\ r.store = th[t].store /\ r.pc = "gate" /\ r.why = "second" /\ r.conn = c
        /\ r.op = th[t].op
    BY <1>0, <2>2 DEF ThreadRecords, Points, Checks
  <2> HIDE DEF r
  <2>5. WellFormed(r)
    BY <2>1, <2>2, <2>4 DEF WellFormed, CheckPoints, PreparePoints
  <2>6. MayGo(t, r.pc) /\ r.pc # "bind"
    BY <2>4, FreeGo DEF FreePoints
  <2> QED
    BY <2>3, <2>4, <2>5, <2>6, Turn
<1>8. CASE EndWork(t)
  <2>1. /\ th' = [th EXCEPT ![t] = Idle] /\ cached' = cached /\ provider' = provider
        /\ record' = record /\ file' = file /\ faults' = faults /\ Drops
    BY <1>8 DEF EndWork, Become, disk
  <2>2. Sheds(t, Idle) /\ Idle.pc \in FreePoints
    BY <2>1, Distinct DEF Sheds, FreePoints
  <2> QED
    BY <1>0, <2>1, <2>2, FreeGo, Distinct, Walk
<1> QED
  BY <1>1, <1>2, <1>3, <1>4, <1>5, <1>6, <1>7, <1>8 DEF Check

\* Preparing, up to the migration, is one step after another.
LEMMA PrepareHop ==
  ASSUME NEW from, NEW to \in PreparePoints \ {"write", "bind"},
         from \in (PreparePoints \ {"write"}) \cup {"begin"}
  PROVE  to \in Points /\ SameKind(from, to) /\ to # "bind"
BY DEF Points, SameKind, Kinds

LEMMA OnPrepare ==
  ASSUME IInv, NEW t \in Thread, Prepare(t)
  PROVE  IInv'
<1>0. /\ th[t] \in ThreadRecords /\ WellFormed(th[t]) /\ faults \in 0..MaxFaults /\ file \in Files
      /\ Home[t] \in Process /\ cached \in [Process -> StoreOrNone] /\ provider \in [Process -> StoreOrNone]
      /\ closing \in [Process -> Closing] /\ record \in Records \cup {Torn}
  BY DEF IInv, TypeOK, ThreadRecords, Closing
<1>1. CASE Relock(t)
  <2>1. CASE cached[Home[t]] = NoStore
    <3>1. Step(t, "relock", "begin")
      BY <1>1, <2>1 DEF Relock, Step
    <3>2. "begin" \in Points /\ SameKind("relock", "begin") /\ "begin" \in FreePoints
      BY DEF Points, SameKind, Kinds, FreePoints
    <3> QED
      BY <3>1, <3>2, FreeGo, Hop
  <2>2. CASE cached[Home[t]] # NoStore
    <3> DEFINE r == [Idle EXCEPT !.pc = "gate", !.op = "retry", !.why = "final", !.store = cached[Home[t]]]
    <3>1. Become(t, r) /\ UNCHANGED shared
      BY <1>1, <2>2 DEF Relock
    <3>2. /\ r \in ThreadRecords /\ r.pc = "gate" /\ r.op = "retry" /\ r.why = "final"
          /\ r.store = cached[Home[t]] /\ r.conn = NoConn
      BY <1>0 DEF Idle, ThreadRecords, Points, Ops, Checks
    <3> HIDE DEF r
    <3>3. WellFormed(r)
      BY <2>2, <3>2 DEF WellFormed, CheckPoints, PreparePoints
    <3>4. MayGo(t, r.pc) /\ r.pc # "bind"
      BY <3>2, FreeGo DEF FreePoints
    <3> QED
      BY <3>1, <3>2, <3>3, <3>4, Turn
  <2> QED
    BY <2>1, <2>2
<1>2. CASE Begin(t)
  <2>1. Step(t, "begin", "authority") /\ MayBegin
    BY <1>2 DEF Begin
  <2>2. "authority" \in PreparePoints \ {"write", "bind", "primary"}
        /\ "authority" \notin SharedPoints \cup OwnerPoints \cup LeasePoints
    BY DEF PreparePoints, SharedPoints, CheckPoints, AttachPoints, OwnerPoints, LeasePoints
  <2>3. MayGo(t, "authority")
    BY <2>1, <2>2 DEF MayGo
  <2> QED
    BY <2>1, <2>2, <2>3, PrepareHop, Hop
<1>3. CASE CannotBegin(t)
  BY <1>3, OnBusy DEF CannotBegin
<1>4. CASE TakeAuthority(t)
  <2>1. Step(t, "authority", "primary") /\ (\A p \in Process : ~HasAuthority(p)) /\ th[t].pc = "authority"
    BY <1>4 DEF TakeAuthority, Step, At
  <2>2. "authority" \in PreparePoints \ {"write"} /\ "primary" \in PreparePoints \ {"write", "bind"}
        /\ "primary" \notin SharedPoints \cup OwnerPoints \cup LeasePoints
    BY DEF PreparePoints, SharedPoints, CheckPoints, AttachPoints, OwnerPoints, LeasePoints
  <2>3. MayGo(t, "primary")
    BY <2>1, <2>2 DEF MayGo
  <2> QED
    BY <2>1, <2>2, <2>3, PrepareHop, Hop
<1>5. CASE AlreadyRunning(t)
  BY <1>5, OnBusy DEF AlreadyRunning
<1>6. CASE BecomePrimary(t)
  <2>1. Step(t, "primary", "exclude") /\ OwnerExclusive = {} /\ th[t].pc = "primary"
    BY <1>6 DEF BecomePrimary, Step, At
  <2>2. "primary" \in PreparePoints \ {"write"} /\ "exclude" \in PreparePoints \ {"write", "bind"}
        /\ "exclude" \notin SharedPoints \cup LeasePoints /\ "exclude" # "primary"
    BY DEF PreparePoints, SharedPoints, CheckPoints, AttachPoints, LeasePoints
  <2>3. MayGo(t, "exclude")
    BY <2>1, <2>2 DEF MayGo
  <2> QED
    BY <2>1, <2>2, <2>3, PrepareHop, Hop
<1>7. CASE PrimaryExists(t)
  BY <1>7, OnBusy DEF PrimaryExists
<1>8. CASE ExcludeConsumers(t)
  <2>1. Step(t, "exclude", "migrate") /\ LeaseShared = {} /\ th[t].pc = "exclude"
    BY <1>8 DEF ExcludeConsumers, Step, At
  <2>2. "exclude" \in PreparePoints \ {"write"} /\ "migrate" \in PreparePoints \ {"write", "bind"}
        /\ "exclude" \in OwnerPoints /\ "migrate" \notin SharedPoints /\ "migrate" # "primary"
    BY DEF PreparePoints, SharedPoints, CheckPoints, AttachPoints, OwnerPoints
  <2>3. MayGo(t, "migrate")
    BY <2>1, <2>2 DEF MayGo
  <2> QED
    BY <2>1, <2>2, <2>3, PrepareHop, Hop
<1>9. CASE ConsumersRemain(t)
  BY <1>9, OnBusy DEF ConsumersRemain
<1>10. \A pc \in {"clear", "write", "bind"} : th[t].pc \in LeasePoints => MayGo(t, pc)
  BY PointSets DEF MayGo, LeasePoints, OwnerPoints, PreparePoints, SharedPoints, CheckPoints, AttachPoints
<1>11. CASE Migrate(t)
  <2>1. Step(t, "migrate", "clear") /\ th[t].pc = "migrate"
    BY <1>11 DEF Migrate, Step, At
  <2>2. "migrate" \in PreparePoints \ {"write"} /\ "clear" \in PreparePoints \ {"write", "bind"}
        /\ "migrate" \in LeasePoints
    BY DEF PreparePoints, LeasePoints
  <2> QED
    BY <1>10, <2>1, <2>2, PrepareHop, Hop
<1>12. ASSUME NEW r, r.store = NoStore, th' = [th EXCEPT ![t] = r], UNCHANGED <<cached, provider, closing>>
       PROVE  /\ Closes /\ cached' \in [Process -> StoreOrNone] /\ provider' \in [Process -> StoreOrNone]
              /\ closing' \in [Process -> Closing]
              /\ \A p \in Process : \A s \in Refs(p)' : s \in Refs(p)
  <2>1. Sheds(t, r)
    BY <1>12 DEF Sheds
  <2> QED
    BY <1>0, <1>12, <2>1, Shed DEF Closes, IInv
<1>13. CASE ClearRecord(t)
  <2>1. PICK g \in Generations :
          th' = [th EXCEPT ![t] = [th[t] EXCEPT !.pc = "write", !.conn = [gen |-> g, file |-> file]]]
    BY <1>13 DEF ClearRecord, Become
  <2> DEFINE c == [gen |-> g, file |-> file]
             r == [th[t] EXCEPT !.pc = "write", !.conn = c]
  <2>2. th[t].pc = "clear" /\ th[t].store = NoStore /\ th[t].why = "none" /\ th[t].op # "none"
    BY <1>0, <1>13 DEF ClearRecord, At, WellFormed, PreparePoints, CheckPoints
  <2>3. c \in Conns /\ c # NoConn
    BY <1>0, Distinct DEF Conns
  <2> HIDE DEF c
  <2>4. /\ r \in ThreadRecords /\ r.pc = "write" /\ r.conn = c /\ r.store = NoStore /\ r.why = "none"
        /\ r.op # "none"
    BY <1>0, <2>2, <2>3 DEF ThreadRecords, Points, PreparePoints
  <2>5. th' = [th EXCEPT ![t] = r]
    BY <2>1 DEF c
  <2> HIDE DEF r
  <2>6. WellFormed(r)
    BY <2>3, <2>4 DEF WellFormed, CheckPoints, PreparePoints
  <2>7. record' \in Records \cup {Torn} /\ file' \in Files /\ faults' \in 0..MaxFaults
        /\ UNCHANGED <<cached, provider, closing>>
    BY <1>0, <1>13 DEF ClearRecord
  <2>8. MayGo(t, r.pc) /\ r.pc # "bind"
    BY <1>10, <2>2, <2>4, PointSets
  <2> QED
    BY <1>12, <2>2, <2>4, <2>5, <2>6, <2>7, <2>8, Move
<1>14. CASE WriteRecord(t)
  <2> DEFINE r == [th[t] EXCEPT !.pc = "bind", !.conn = NoConn]
  <2>1. /\ th[t].pc = "write" /\ th[t].store = NoStore /\ th[t].why = "none" /\ th[t].op # "none"
        /\ th[t].conn \in Conns
    BY <1>0, <1>14 DEF WriteRecord, At, WellFormed, PreparePoints, CheckPoints, ThreadRecords
  <2>2. /\ r \in ThreadRecords /\ r.pc = "bind" /\ r.conn = NoConn /\ r.store = NoStore /\ r.why = "none"
        /\ r.op # "none"
    BY <1>0, <2>1 DEF ThreadRecords, Points, PreparePoints
  <2>3. th' = [th EXCEPT ![t] = r]
    BY <1>14 DEF WriteRecord, Become
  <2> HIDE DEF r
  <2>4. WellFormed(r)
    BY <2>2 DEF WellFormed, CheckPoints, PreparePoints
  <2>5. /\ record' \in Records /\ file' \in Files /\ faults' \in 0..MaxFaults
        /\ UNCHANGED <<cached, provider, closing>>
    BY <1>0, <1>14, <2>1 DEF WriteRecord, Conns, Records
  <2>6. MayGo(t, r.pc)
    BY <1>10, <2>1, <2>2, PointSets
  <2> QED
    BY <1>12, <2>1, <2>2, <2>3, <2>4, <2>5, <2>6, Distinct, Move
<1>15. CASE Bind(t)
  <2> DEFINE s == [gen |-> record.gen, file |-> file, primary |-> TRUE]
             r == [th[t] EXCEPT !.pc = "gate", !.why = "first", !.store = s]
  <2>1. th[t].pc = "bind" /\ th[t].op # "none" /\ th[t].conn = NoConn
    BY <1>0, <1>15 DEF Bind, At, WellFormed, PreparePoints, CheckPoints
  <2>2. record \in Records
    BY <1>0, <2>1 DEF IInv, RecordOK
  <2>3. s \in Stores /\ s # NoStore /\ s.gen = record.gen
    BY <1>0, <2>2, Distinct DEF Stores, Records
  <2> HIDE DEF s
  <2>4. /\ r \in ThreadRecords /\ r.pc = "gate" /\ r.why = "first" /\ r.store = s /\ r.conn = NoConn
        /\ r.op # "none"
    BY <1>0, <2>1, <2>3 DEF ThreadRecords, Points, Checks, StoreOrNone
  <2>5. th' = [th EXCEPT ![t] = r] /\ UNCHANGED shared
    BY <1>15 DEF Bind, Become, s
  <2> HIDE DEF r
  <2>6. WellFormed(r)
    BY <2>3, <2>4 DEF WellFormed, CheckPoints, PreparePoints
  <2>7. MayGo(t, r.pc) /\ r.pc # "bind" /\ r.pc \notin PreparePoints
    BY <2>4, FreeGo DEF FreePoints, PreparePoints
  <2>8. \A p \in Process : \A x \in Refs(p)' : x \in Refs(p) \/ NewStore(t, p, x, r)
    <3> SUFFICES ASSUME NEW p \in Process, NEW x \in Refs(p)', x \notin Refs(p)
                 PROVE  NewStore(t, p, x, r)
      OBVIOUS
    <3>1. x # NoStore /\ \/ x = cached'[p] \/ x = provider'[p]
                         \/ \E u \in Thread : Home[u] = p /\ th'[u].store = x
      BY DEF Refs
    <3>2. PICK u \in Thread : Home[u] = p /\ th'[u].store = x
      BY <2>5, <3>1, Member DEF shared
    <3>3. u = t
      BY <2>5, <3>1, <3>2, Member
    <3>4. x = s /\ p = Home[t]
      BY <2>4, <2>5, <3>2, <3>3 DEF IInv, TypeOK
    <3> QED
      BY <2>1, <2>3, <2>7, <3>4 DEF NewStore
  <2>9. Closes /\ record' = record /\ cached' = cached /\ provider' = provider /\ closing' = closing
        /\ file' = file /\ faults' = faults
    BY <2>5 DEF Closes, shared
  <2> QED
    BY <1>0, <2>4, <2>5, <2>6, <2>7, <2>8, <2>9, Move
<1> QED
  BY <1>1, <1>2, <1>3, <1>4, <1>5, <1>6, <1>7, <1>8, <1>9, <1>11, <1>13, <1>14, <1>15 DEF Prepare

LEMMA AttachHop ==
  ASSUME NEW t, NEW from, NEW to \in AttachPoints, th[t].pc = from,
         from \in AttachPoints \/ (from = "wait" /\ GateExclusive = {}),
         SameKind(from, to)
  PROVE  to \in Points /\ MayGo(t, to) /\ to # "bind"
<1>1. to \in Points /\ to \in SharedPoints /\ (from \in AttachPoints => from \in SharedPoints)
  BY DEF Points, SharedPoints
<1> QED
  BY <1>1, SharedGo

LEMMA OnAttach ==
  ASSUME IInv, NEW t \in Thread, Attach(t)
  PROVE  IInv'
<1>0. /\ th[t] \in ThreadRecords /\ WellFormed(th[t]) /\ faults \in 0..MaxFaults /\ file \in Files
      /\ Home[t] \in Process /\ cached \in [Process -> StoreOrNone] /\ provider \in [Process -> StoreOrNone]
      /\ closing \in [Process -> Closing] /\ record \in Records \cup {Torn}
  BY DEF IInv, TypeOK, ThreadRecords, Closing
<1>1. ASSUME NEW from, NEW to, Step(t, from, to),
             <<from, to>> \in {<<"wait", "seek">>, <<"seek", "lease">>, <<"seek", "nobody">>,
                               <<"connection", "seekAgain">>, <<"seekAgain", "join">>,
                               <<"seekAgain", "nobody">>},
             from = "wait" => GateExclusive = {}
      PROVE  IInv'
  <2>1. th[t].pc = from
    BY <1>1 DEF Step, At
  <2>2. to \in AttachPoints /\ (from \in AttachPoints \/ from = "wait")
    BY <1>1 DEF AttachPoints
  <2>3. SameKind(from, to)
    BY <1>1 DEF SameKind, Kinds
  <2> QED
    BY <1>1, <2>1, <2>2, <2>3, AttachHop, Hop
<1>2. CASE EnterGate(t)
  BY <1>1, <1>2 DEF EnterGate
<1>3. CASE GiveUp(t)
  BY <1>3, OnBusy DEF GiveUp
<1>4. CASE SeekPrimary(t)
  BY <1>1, <1>4 DEF SeekPrimary
<1>5. CASE NoPrimary(t)
  BY <1>0, <1>5, OnFail DEF NoPrimary
<1>6. CASE TakeLease(t)
  <2> DEFINE s == [gen |-> record.gen, file |-> file, primary |-> FALSE]
             r == [th[t] EXCEPT !.pc = "connection", !.store = s]
  <2>1. CASE Busy(t)
    BY <2>1, OnBusy
  <2>2. CASE record # Torn /\ Become(t, r) /\ UNCHANGED shared
    <3>1. th[t].pc = "lease" /\ th[t].op # "none" /\ th[t].conn = NoConn /\ th[t].why = "none"
      BY <1>0, <1>6 DEF TakeLease, At, WellFormed, CheckPoints
    <3>2. s \in Stores /\ s # NoStore /\ s.gen = record.gen /\ ~s.primary
      <4>1. record \in Records
        BY <1>0, <2>2
      <4>2. s.gen = record.gen /\ s.primary = FALSE
        OBVIOUS
      <4>3. s \in Stores
        BY <1>0, <4>1 DEF Stores, Records
      <4> QED
        BY <4>2, <4>3, Distinct
    <3>3. th' = [th EXCEPT ![t] = r] /\ UNCHANGED shared
      BY <2>2 DEF Become
    <3> HIDE DEF s
    <3>4. /\ r \in ThreadRecords /\ r.pc = "connection" /\ r.why = "none" /\ r.store = s
          /\ r.conn = NoConn /\ r.op # "none"
      BY <1>0, <3>1, <3>2 DEF ThreadRecords, Points, AttachPoints, StoreOrNone
    <3> HIDE DEF r
    <3>5. WellFormed(r)
      BY <3>2, <3>4 DEF WellFormed, CheckPoints, PreparePoints
    <3>6. "connection" \in SharedPoints /\ "lease" \in SharedPoints /\ "connection" \notin PreparePoints
      BY DEF SharedPoints, AttachPoints, PreparePoints
    <3>7. MayGo(t, r.pc) /\ r.pc # "bind" /\ r.pc \notin PreparePoints
      BY <3>1, <3>4, <3>6, SharedGo
    <3>8. \A p \in Process : \A x \in Refs(p)' : x \in Refs(p) \/ NewStore(t, p, x, r)
      <4> SUFFICES ASSUME NEW p \in Process, NEW x \in Refs(p)', x \notin Refs(p)
                   PROVE  NewStore(t, p, x, r)
        OBVIOUS
      <4>1. x # NoStore /\ \/ x = cached'[p] \/ x = provider'[p]
                           \/ \E u \in Thread : Home[u] = p /\ th'[u].store = x
        BY DEF Refs
      <4>2. PICK u \in Thread : Home[u] = p /\ th'[u].store = x
        BY <3>3, <4>1, Member DEF shared
      <4>3. u = t
        BY <3>3, <4>1, <4>2, Member
      <4>4. x = s /\ p = Home[t]
        BY <3>3, <3>4, <4>2, <4>3 DEF IInv, TypeOK
      <4> QED
        BY <3>1, <3>2, <3>7, <4>4 DEF NewStore
    <3>9. Closes /\ record' = record /\ cached' = cached /\ provider' = provider /\ closing' = closing
          /\ file' = file /\ faults' = faults
      BY <3>3 DEF Closes, shared
    <3> QED
      BY <1>0, <3>3, <3>4, <3>5, <3>7, <3>8, <3>9, Move
  <2> QED
    BY <1>6, <2>1, <2>2 DEF TakeLease
<1>7. CASE ConnectAnchor(t)
  BY <1>1, <1>7 DEF ConnectAnchor
<1>8. CASE SeekAgain(t)
  BY <1>1, <1>8 DEF SeekAgain
<1>9. CASE Join(t)
  <2>1. CASE Fail(t) /\ UNCHANGED faults
    BY <1>0, <2>1, OnFail
  <2>2. CASE ~(Fail(t) /\ UNCHANGED faults)
    <3>1. PICK why \in {"first", "final"} :
            Become(t, [th[t] EXCEPT !.pc = "gate", !.why = why]) /\ UNCHANGED shared
      BY <1>9, <2>2 DEF Join
    <3> DEFINE r == [th[t] EXCEPT !.pc = "gate", !.why = why]
    <3>2. th[t].pc = "join" /\ th[t].store # NoStore /\ th[t].op # "none" /\ th[t].conn = NoConn
      BY <1>0, <1>9 DEF Join, At, WellFormed, CheckPoints
    <3>3. /\ r \in ThreadRecords /\ r.pc = "gate" /\ r.why = why /\ r.store = th[t].store
          /\ r.conn = NoConn /\ r.op # "none"
      BY <1>0, <3>2 DEF ThreadRecords, Points, Checks
    <3>4. Become(t, r)
      BY <3>1
    <3> HIDE DEF r
    <3>5. WellFormed(r)
      BY <3>2, <3>3 DEF WellFormed, CheckPoints, PreparePoints
    <3>6. MayGo(t, r.pc) /\ r.pc # "bind"
      BY <3>3, FreeGo DEF FreePoints
    <3> QED
      BY <3>1, <3>3, <3>4, <3>5, <3>6, Turn
  <2> QED
    BY <2>1, <2>2
<1> QED
  BY <1>2, <1>3, <1>4, <1>5, <1>6, <1>7, <1>8, <1>9 DEF Attach

LEMMA OnAsk ==
  ASSUME IInv, NEW t \in Thread, Asks(t)
  PROVE  IInv'
<1> DEFINE r(pc, op, why, store) == [Idle EXCEPT !.pc = pc, !.op = op, !.why = why, !.store = store]
<1>0. /\ Home[t] \in Process /\ cached[Home[t]] \in StoreOrNone /\ provider[Home[t]] \in StoreOrNone
      /\ NoStore \in StoreOrNone
  BY DEF IInv, TypeOK, StoreOrNone
<1>1. ASSUME NEW pc \in Points, NEW op \in Ops \ {"none"}, NEW why \in Checks, NEW store \in StoreOrNone
      PROVE  /\ r(pc, op, why, store) \in ThreadRecords
             /\ r(pc, op, why, store).pc = pc /\ r(pc, op, why, store).op = op
             /\ r(pc, op, why, store).why = why /\ r(pc, op, why, store).store = store
             /\ r(pc, op, why, store).conn = NoConn
  BY DEF Idle, ThreadRecords
<1> HIDE DEF r
<1>2. ASSUME NEW op \in Ops \ {"none"}, NEW why \in {"get", "first"}, NEW store \in StoreOrNone \ {NoStore},
             store \in {cached[Home[t]], provider[Home[t]]}, Ask(t, op, why, store, "probe"),
             GateExclusive = {}
      PROVE  IInv'
  <2>1. "probe" \in Points /\ "probe" \in SharedPoints /\ why \in Checks
    BY DEF Points, SharedPoints, CheckPoints, Checks
  <2>2. r("probe", op, why, store).store \in {cached[Home[t]], provider[Home[t]]}
        /\ r("probe", op, why, store) \in ThreadRecords /\ r("probe", op, why, store).pc = "probe"
    BY <1>1, <1>2, <2>1
  <2>3. WellFormed(r("probe", op, why, store))
    <3>1. /\ r("probe", op, why, store).op = op
          /\ r("probe", op, why, store).why = why /\ r("probe", op, why, store).store = store
          /\ r("probe", op, why, store).conn = NoConn
      BY <1>1, <2>1
    <3> QED
      BY <2>2, <3>1 DEF WellFormed, CheckPoints, PreparePoints
  <2>4. Become(t, r("probe", op, why, store)) /\ UNCHANGED shared
    BY <1>2 DEF Ask, r
  <2> QED
    BY <1>2, <2>1, <2>2, <2>3, <2>4, SharedGo, Turn
<1>3. ASSUME NEW op \in Ops \ {"none"}, NEW pc \in {"begin", "authority", "seek"},
             Ask(t, op, "none", NoStore, pc), MayGo(t, pc)
      PROVE  IInv'
  <2>1. pc \in Points /\ "none" \in Checks /\ pc # "bind" /\ pc \notin CheckPoints \cup {"gate", "connect"}
    BY DEF Points, CheckPoints, AttachPoints, PreparePoints, Checks
  <2>2. /\ r(pc, op, "none", NoStore) \in ThreadRecords
        /\ r(pc, op, "none", NoStore).pc = pc /\ r(pc, op, "none", NoStore).op = op
        /\ r(pc, op, "none", NoStore).why = "none" /\ r(pc, op, "none", NoStore).store = NoStore
        /\ r(pc, op, "none", NoStore).conn = NoConn
    BY <1>0, <1>1, <2>1
  <2>3. Become(t, r(pc, op, "none", NoStore)) /\ UNCHANGED shared
    BY <1>3 DEF Ask, r
  <2>4. WellFormed(r(pc, op, "none", NoStore))
    BY <2>1, <2>2 DEF WellFormed, CheckPoints, PreparePoints
  <2> QED
    BY <1>3, <2>1, <2>2, <2>3, <2>4, Turn
<1>4. CASE Call(t)
  BY <1>0, <1>2, <1>4 DEF Call, Ops
<1>5. CASE Retry(t)
  <2>1. MayGo(t, "begin")
    BY FreeGo DEF FreePoints
  <2> QED
    BY <1>3, <1>5, <2>1 DEF Retry, Ops
<1>6. CASE StartProvider(t)
  <2>1. MayGo(t, "authority")
    BY <1>6 DEF StartProvider, MayGo, PreparePoints, SharedPoints, CheckPoints, AttachPoints, OwnerPoints,
                LeasePoints
  <2> QED
    BY <1>3, <1>6, <2>1 DEF StartProvider, Ops
<1>7. CASE Request(t)
  BY <1>0, <1>2, <1>7 DEF Request, Ops
<1>8. CASE CallGateway(t)
  <2>1. MayGo(t, "seek")
    BY <1>8, SharedGo DEF CallGateway, SharedPoints, AttachPoints
  <2> QED
    BY <1>3, <1>8, <2>1 DEF CallGateway, Ops
<1> QED
  BY <1>4, <1>5, <1>6, <1>7, <1>8 DEF Asks

-----------------------------------------------------------------------------
(***************************************************************************)
(* What ends a Store or a process                                           *)
(***************************************************************************)
LEMMA OnStumble ==
  ASSUME IInv, NEW t \in Thread, Stumble(t)
  PROVE  IInv'
<1>1. faults' \in 0..MaxFaults /\ Fail(t)
  BY DEF Stumble, Fault, IInv, TypeOK
<1> QED
  BY <1>1, OnFail

LEMMA OnCrash ==
  ASSUME IInv, NEW p \in Process, Crash(p)
  PROVE  IInv'
<1>1. PICK last \in {"no", "dying"} :
        /\ closing' = [closing EXCEPT ![p] = last]
        /\ last = "dying" => Owns(p)
  BY DEF Crash
<1>2. /\ th' = [t \in Thread |-> IF Home[t] = p THEN Idle ELSE th[t]]
      /\ cached' = [cached EXCEPT ![p] = NoStore] /\ provider' = [provider EXCEPT ![p] = NoStore]
      /\ record' = record /\ file' = file /\ faults' \in 0..MaxFaults
  BY DEF Crash, Fault, disk, IInv, TypeOK
<1>3. /\ th \in [Thread -> ThreadRecords] /\ cached \in [Process -> StoreOrNone]
      /\ provider \in [Process -> StoreOrNone] /\ closing \in [Process -> Closing] /\ file \in Files
      /\ NoStore \in StoreOrNone
  BY DEF IInv, TypeOK, ThreadRecords, Closing, StoreOrNone
<1>4. /\ th' \in [Thread -> ThreadRecords] /\ cached' \in [Process -> StoreOrNone]
      /\ provider' \in [Process -> StoreOrNone] /\ closing' \in [Process -> Closing] /\ file' \in Files
  <2>1. th' \in [Thread -> ThreadRecords]
    BY <1>2, <1>3, Distinct
  <2>2. cached' \in [Process -> StoreOrNone] /\ provider' \in [Process -> StoreOrNone]
    BY <1>2, <1>3
  <2>3. closing' \in [Process -> Closing]
    BY <1>1, <1>3 DEF Closing
  <2> QED
    BY <1>2, <1>3, <2>1, <2>2, <2>3
<1>5. \A u \in Thread : IF Home[u] = p THEN th'[u] = Idle ELSE th'[u] = th[u]
  BY <1>2
<1>6. \A q \in Process : Refs(q)' \subseteq Refs(q) /\ (q = p => Refs(q)' = {})
  <2> SUFFICES ASSUME NEW q \in Process, NEW s \in Refs(q)'
               PROVE  q # p /\ s \in Refs(q)
    OBVIOUS
  <2>1. s # NoStore /\ \/ s = cached'[q] \/ s = provider'[q]
                       \/ \E u \in Thread : Home[u] = q /\ th'[u].store = s
    BY DEF Refs
  <2>2. q # p
    BY <1>2, <1>3, <1>5, <2>1, Distinct
  <2> QED
    BY <1>2, <1>3, <1>5, <2>1, <2>2, Member
<1>7. ~PrimaryRef(p)'
  BY <1>6 DEF PrimaryRef
<1>8. \A q \in Process : Ends(q)
  <2>1. \A q \in Process : closing'[q] = IF q = p THEN last ELSE closing[q]
    BY <1>1, <1>3
  <2>2. \A u \in Thread : Home[u] = p => th'[u].pc = "idle"
    BY <1>5, Distinct
  <2> QED
    BY <1>1, <1>7, <2>1, <2>2 DEF Ends
<1> QED
  BY <1>2, <1>4, <1>5, <1>6, <1>8, Settle

LEMMA OnStop ==
  ASSUME IInv, NEW p \in Process, Stop(p)
  PROVE  IInv'
<1>1. /\ th' = th /\ cached' = cached /\ provider' = [provider EXCEPT ![p] = NoStore]
      /\ record' = record /\ file' = file /\ faults' \in 0..MaxFaults /\ Drops
  BY DEF Stop, Fault, disk, IInv, TypeOK
<1>2. /\ th' \in [Thread -> ThreadRecords] /\ cached' \in [Process -> StoreOrNone]
      /\ provider' \in [Process -> StoreOrNone] /\ closing' \in [Process -> Closing] /\ file' \in Files
  BY <1>1 DEF IInv, TypeOK, ThreadRecords, Closing, StoreOrNone, Drops
<1>3. \A q \in Process : Refs(q)' \subseteq Refs(q)
  <2> SUFFICES ASSUME NEW q \in Process, NEW s \in Refs(q)'
               PROVE  s \in Refs(q)
    OBVIOUS
  <2>1. s # NoStore /\ \/ s = cached'[q] \/ s = provider'[q]
                       \/ \E u \in Thread : Home[u] = q /\ th'[u].store = s
    BY DEF Refs
  <2> QED
    BY <1>1, <2>1, Member DEF IInv, TypeOK
<1>4. \A q \in Process : Ends(q)
  BY <1>1 DEF Ends, Drops
<1> QED
  BY <1>1, <1>2, <1>3, <1>4, Settle

LEMMA OnClosing ==
  ASSUME IInv, NEW p \in Process, Closings(p)
  PROVE  IInv'
<1>1. /\ closing' \in {[closing EXCEPT ![p] = "no"], [closing EXCEPT ![p] = "authority"]}
      /\ th' = th /\ cached' = cached /\ provider' = provider
      /\ record' = record /\ file' = file /\ faults' = faults
  BY DEF Closings, DropOwner, DropAuthority, disk
<1>2. /\ th' \in [Thread -> ThreadRecords] /\ cached' \in [Process -> StoreOrNone]
      /\ provider' \in [Process -> StoreOrNone] /\ closing' \in [Process -> Closing]
      /\ file' \in Files /\ faults' \in 0..MaxFaults
  BY <1>1 DEF IInv, TypeOK, ThreadRecords, Closing
<1>3. \A q \in Process : Refs(q)' \subseteq Refs(q)
  BY <1>1 DEF Refs
<1>4. \A q \in Process : Ends(q)
  BY <1>1 DEF Ends, IInv, TypeOK
<1> QED
  BY <1>1, <1>2, <1>3, <1>4, Settle

LEMMA OnReplace ==
  ASSUME IInv, Replace
  PROVE  IInv'
<1>1. /\ file' \in Files /\ faults' \in 0..MaxFaults
      /\ UNCHANGED <<th, cached, provider, closing, record>>
  BY DEF Replace, Fault, IInv, TypeOK, Files
<1>2. /\ th' \in [Thread -> ThreadRecords] /\ cached' \in [Process -> StoreOrNone]
      /\ provider' \in [Process -> StoreOrNone] /\ closing' \in [Process -> Closing]
  BY <1>1 DEF IInv, TypeOK, ThreadRecords, Closing
<1>3. \A q \in Process : Refs(q)' \subseteq Refs(q) /\ Ends(q)
  BY <1>1 DEF Refs, Ends
<1> QED
  BY <1>1, <1>2, <1>3, Settle

LEMMA NobodyYet ==
  ASSUME Init
  PROVE  \A p \in Process : Refs(p) = {}
<1>1. /\ \A t \in Thread : th[t].store = NoStore
      /\ \A p \in Process : cached[p] = NoStore /\ provider[p] = NoStore
  BY Distinct DEF Init
<1>2. ASSUME NEW p \in Process, NEW s \in Refs(p)
      PROVE  FALSE
  BY <1>1, Member
<1> QED
  BY <1>2

LEMMA Initially ==
  ASSUME Init
  PROVE  IInv
<1>1. /\ \A t \in Thread : th[t] = Idle /\ th[t].pc = "idle" /\ th[t].store = NoStore
      /\ \A p \in Process : cached[p] = NoStore /\ provider[p] = NoStore /\ closing[p] = "no"
  BY Distinct DEF Init
<1>2. TypeOK
  <2>1. th \in [Thread -> ThreadRecords] /\ \A t \in Thread : WellFormed(th[t])
    BY <1>1, Distinct DEF Init
  <2>2. NoStore \in StoreOrNone /\ 1 \in Files
    BY DEF StoreOrNone, Files
  <2> QED
    BY <2>1, <2>2 DEF TypeOK, Init, ThreadRecords
<1>3. \A p \in Process : Refs(p) = {}
  BY NobodyYet
<1>4. "idle" \notin PreparePoints /\ "idle" \notin SharedPoints
  BY DEF PreparePoints, SharedPoints, CheckPoints, AttachPoints
<1>5. \A p \in Process : ~PrimaryRef(p) /\ ~Owns(p)
  <2>1. \A p \in Process : ~PrimaryRef(p)
    BY <1>3, Primary
  <2> QED
    BY <1>1, <1>4, <2>1, Owner, PointSets
<1>6. GateOK /\ OneOwner /\ LastRef
  BY <1>1, <1>4, <1>5 DEF GateOK, OneOwner, LastRef
<1>7. FreshOwner /\ LeaseOK /\ RecordOK
  BY <1>1, <1>4, <1>5, PointSets DEF FreshOwner, LeaseOK, RecordOK
<1>8. AuthorityFindsNoPrimary /\ Current
  BY <1>3, <1>5 DEF AuthorityFindsNoPrimary, Current
<1> QED
  BY <1>2, <1>6, <1>7, <1>8 DEF IInv

LEMMA Inductive ==
  ASSUME IInv, [Next]_vars
  PROVE  IInv'
<1>1. CASE UNCHANGED vars
  <2>1. UNCHANGED <<th, cached, provider, closing, record, file, faults>>
    BY <1>1 DEF vars
  <2>2. \A p \in Process : Refs(p)' = Refs(p)
    BY <2>1 DEF Refs
  <2>3. \A p \in Process : PrimaryRef(p)' = PrimaryRef(p)
    BY <2>2 DEF PrimaryRef
  <2>4. \A p \in Process : Owns(p)' = Owns(p)
    BY <2>1, <2>3 DEF Owns, Within
  <2>5. TypeOK' /\ GateOK' /\ RecordOK'
    BY <2>1 DEF IInv, TypeOK, GateOK, RecordOK
  <2>6. OneOwner' /\ FreshOwner' /\ LastRef' /\ AuthorityFindsNoPrimary'
    BY <2>1, <2>3, <2>4 DEF IInv, OneOwner, FreshOwner, LastRef, AuthorityFindsNoPrimary, Within
  <2>7. LeaseOK' /\ Current'
    BY <2>1, <2>2 DEF IInv, LeaseOK, Current
  <2> QED
    BY <2>5, <2>6, <2>7 DEF IInv
<1>2. ASSUME NEW t \in Thread, Check(t) \/ Prepare(t) \/ Attach(t) \/ Asks(t) \/ Stumble(t)
      PROVE  IInv'
  BY <1>2, OnCheck, OnPrepare, OnAttach, OnAsk, OnStumble
<1>3. ASSUME NEW p \in Process, Closings(p) \/ Crash(p) \/ Stop(p)
      PROVE  IInv'
  BY <1>3, OnClosing, OnCrash, OnStop
<1> QED
  BY <1>1, <1>2, <1>3, OnReplace DEF Next, Environment

LEMMA Invariance == Spec => []IInv
<1>1. Init => IInv
  BY Initially
<1>2. IInv /\ [Next]_vars => IInv'
  BY Inductive
<1> QED
  BY <1>1, <1>2, PTL DEF Spec

-----------------------------------------------------------------------------
(***************************************************************************)
(* Who finds a primary                                                      *)
(***************************************************************************)
\* Whoever holds the gate sees no initializer at work: who owns has a Store, or had one until now.
LEMMA Seen ==
  ASSUME IInv, NEW t \in Thread, th[t].pc \in SharedPoints, PrimaryIsLive
  PROVE  \E p \in Process : PrimaryRef(p) \/ closing[p] \in {"owner", "dying"}
<1>1. PICK p \in Process : Owns(p)
  BY DEF PrimaryIsLive, OwnerExclusive
<1>2. \A u \in Thread : th[u].pc \notin OwnerPoints
  BY PointSets DEF IInv, GateOK
<1> QED
  BY <1>1, <1>2, Owner

LEMMA FailPoint ==
  ASSUME TypeOK, NEW t \in Thread, Fail(t) \/ Busy(t)
  PROVE  th'[t].pc \in FreePoints /\ \A u \in Thread : u # t => th'[u] = th[u]
<1> DEFINE q == [Idle EXCEPT !.pc = "relock", !.op = "retry"]
<1>1. q.pc = "relock"
  BY DEF Idle
<1>2. PICK r \in {q, Idle, Failed(t)} : th' = [th EXCEPT ![t] = r]
  BY DEF Fail, Busy, Become
<1> HIDE DEF q
<1>3. r.pc \in FreePoints
  BY <1>1, FailedIs, Distinct DEF FreePoints
<1> QED
  BY <1>2, <1>3 DEF TypeOK

\* A thread moves by its own steps only, or its process dies.
LEMMA OthersStay ==
  ASSUME NEW t \in Thread, Check(t) \/ Prepare(t) \/ Attach(t) \/ Asks(t) \/ Stumble(t)
  PROVE  \A u \in Thread : u # t => th'[u] = th[u]
<1>1. ASSUME NEW r, Become(t, r), NEW u \in Thread, u # t
      PROVE  th'[u] = th[u]
  BY <1>1 DEF Become
<1>2. Check(t) \/ Stumble(t) => \E r : Become(t, r)
  BY DEF Check, Stumble, TakeGate, GateIsTaken, Probe, Unavailable, ReadRecord, CheckIdentity, Connect,
         EndWork, Step, Go, Busy, Fail
<1>3. Prepare(t) => \E r : Become(t, r)
  BY DEF Prepare, Relock, Begin, CannotBegin, TakeAuthority, AlreadyRunning, BecomePrimary, PrimaryExists,
         ExcludeConsumers, ConsumersRemain, Migrate, ClearRecord, WriteRecord, Bind, Step, Go, Busy
<1>4. Attach(t) => \E r : Become(t, r)
  BY DEF Attach, EnterGate, GiveUp, SeekPrimary, NoPrimary, TakeLease, ConnectAnchor, SeekAgain, Join,
         Step, Go, Busy, Fail
<1>5. Asks(t) => \E r : Become(t, r)
  BY DEF Asks, Call, Retry, StartProvider, Request, CallGateway, Ask
<1> QED
  BY <1>1, <1>2, <1>3, <1>4, <1>5

LEMMA LiveStep ==
  ASSUME IInv, [Next]_vars, NEW t \in Thread,
         (At(t, "probe") /\ At(t, "record")') \/ (At(t, "seek") /\ At(t, "lease")')
  PROVE  \E p \in Process : PrimaryRef(p) \/ closing[p] \in {"owner", "dying"}
<1>0. /\ th[t].pc \in {"probe", "seek"} /\ th[t].pc \in SharedPoints
      /\ th'[t].pc \in {"record", "lease"} /\ th'[t].pc \notin FreePoints
  BY DEF At, SharedPoints, CheckPoints, AttachPoints, FreePoints
<1>1. ~(Fail(t) \/ Busy(t))
  BY <1>0, FailPoint DEF IInv
<1>2. CASE Check(t) \/ Prepare(t) \/ Attach(t) \/ Asks(t) \/ Stumble(t)
  <2>1. ~Asks(t) /\ ~Stumble(t)
    BY <1>0, <1>1 DEF Asks, Call, Retry, StartProvider, Request, CallGateway, Ask, At, Stumble
  <2>2. ~Prepare(t)
    BY <1>0, <1>1 DEF Prepare, Relock, Begin, CannotBegin, TakeAuthority, AlreadyRunning, BecomePrimary,
         PrimaryExists, ExcludeConsumers, ConsumersRemain, Migrate, ClearRecord, WriteRecord, Bind, Step, At
  <2>3. Check(t) => Probe(t)
    BY <1>0, <1>1 DEF Check, TakeGate, GateIsTaken, Unavailable, ReadRecord, CheckIdentity, Connect, EndWork,
         Step, At
  <2>4. Attach(t) => SeekPrimary(t)
    BY <1>0, <1>1 DEF Attach, EnterGate, GiveUp, NoPrimary, TakeLease, ConnectAnchor, SeekAgain, Join, Step, At
  <2>5. th'[t].pc # "absent" /\ th'[t].pc # "nobody"
    BY <1>0
  <2>6. \A from, to : Step(t, from, to) => th'[t].pc = to
    BY DEF Step, Go, Become, IInv, TypeOK
  <2>7. PrimaryIsLive
    BY <1>2, <2>1, <2>2, <2>3, <2>4, <2>5, <2>6 DEF Probe, SeekPrimary
  <2> QED
    BY <1>0, <2>7, Seen
<1>3. ASSUME NEW u \in Thread, u # t, Check(u) \/ Prepare(u) \/ Attach(u) \/ Asks(u) \/ Stumble(u)
      PROVE  FALSE
  BY <1>0, <1>3, OthersStay
<1>4. ASSUME NEW p \in Process, Closings(p) \/ Crash(p) \/ Stop(p)
      PROVE  FALSE
  <2>1. th'[t] = th[t] \/ th'[t] = Idle
    BY <1>4 DEF Closings, DropOwner, DropAuthority, Crash, Stop
  <2> QED
    BY <1>0, <2>1, Distinct
<1>5. ~Replace /\ ~UNCHANGED vars
  BY <1>0 DEF Replace, vars
<1> QED
  BY <1>2, <1>3, <1>4, <1>5 DEF Next, Environment

-----------------------------------------------------------------------------
(***************************************************************************)
(* Which file a connection leads to                                         *)
(***************************************************************************)
\* The path leads to later and later files; a Store at its last look has just read its own record;
\* a connection was made between two looks; a new generation is in nobody's memory.
FilesPass == \A p \in Process : \A s \in Refs(p) : s.file <= file
HasRead == \A t \in Thread : th[t].pc = "identity" => Matches(th[t].store)
Bracketed == \A t \in Thread : th[t].why = "second" =>
  th[t].conn.gen = th[t].store.gen /\ th[t].store.file <= th[t].conn.file /\ th[t].conn.file <= file
NewGeneration == \A t, u \in Thread : th[t].pc = "write" /\ u # t => th[u].conn.gen # th[t].conn.gen

FInv == IInv /\ FilesPass /\ HasRead /\ Bracketed /\ NewGeneration /\ ConnectionIsPrepared

LEMMA Ranges ==
  ASSUME TypeOK, NEW t \in Thread
  PROVE  /\ th[t] \in ThreadRecords /\ Home[t] \in Process /\ file \in Nat
         /\ th[t].conn = NoConn \/ (th[t].conn.gen \in Nat \ {0} /\ th[t].conn.file \in Nat)
         /\ th[t].store = NoStore \/ (th[t].store.gen \in Nat \ {0} /\ th[t].store.file \in Nat)
         /\ NoConn.gen = 0 /\ Torn.gen = 0 /\ NoStore.gen = 0
         /\ th[t].pc \in {"work", "write"} => th[t].conn # NoConn
<1>1. /\ th[t] \in ThreadRecords /\ WellFormed(th[t]) /\ file \in Files
  BY DEF TypeOK, ThreadRecords
<1>2. Home[t] \in Process /\ file \in Nat
  BY <1>1 DEF Files
<1>3. th[t].conn \in Conns \cup {NoConn} /\ th[t].store \in Stores \cup {NoStore}
  BY <1>1 DEF ThreadRecords, StoreOrNone
<1>4. \A c \in Conns : c.gen \in Nat \ {0} /\ c.file \in Nat
  BY DEF Conns, Generations, Files
<1>5. \A s \in Stores : s.gen \in Nat \ {0} /\ s.file \in Nat
  BY DEF Stores, Generations, Files
<1>6. NoConn.gen = 0 /\ Torn.gen = 0 /\ NoStore.gen = 0
  BY DEF NoConn, Torn, NoStore
<1>7. th[t].pc \in {"work", "write"} => th[t].conn # NoConn
  BY <1>1 DEF WellFormed
<1> QED
  BY <1>1, <1>2, <1>3, <1>4, <1>5, <1>6, <1>7

\* A step that neither connects nor reads nor writes the record.
Plain(t, r) ==
  /\ th' = [th EXCEPT ![t] = r] /\ record' = record /\ file' = file
  /\ r.pc \notin {"identity", "work", "write"}
  /\ r.conn \in {NoConn, th[t].conn}
  /\ r.why = "second" => th[t].why = "second" /\ r.store = th[t].store /\ r.conn = th[t].conn

\* Where the Stores after a step come from.
Sources(t, r) ==
  /\ r.store \in {NoStore, th[t].store, cached[Home[t]], provider[Home[t]]} \/ r.store.file = file
  /\ cached' \in {cached, [cached EXCEPT ![Home[t]] = NoStore], [cached EXCEPT ![Home[t]] = th[t].store]}
  /\ provider' \in {provider, [provider EXCEPT ![Home[t]] = th[t].store]}

LEMMA Sourced ==
  ASSUME TypeOK, FilesPass, NEW t \in Thread, NEW r, th' = [th EXCEPT ![t] = r], Sources(t, r), file' = file
  PROVE  FilesPass'
<1>1. /\ Home[t] \in Process /\ th'[t] = r /\ \A u \in Thread : u # t => th'[u] = th[u]
      /\ cached \in [Process -> StoreOrNone] /\ provider \in [Process -> StoreOrNone] /\ file \in Nat
  BY DEF TypeOK, Files
<1>2. ASSUME NEW p \in Process, NEW s \in Refs(p)'
      PROVE  s \in Refs(p) \/ s.file = file
  <2>1. s # NoStore /\ \/ s = cached'[p] \/ s = provider'[p]
                       \/ \E u \in Thread : Home[u] = p /\ th'[u].store = s
    BY DEF Refs
  <2>2. CASE s = cached'[p] \/ s = provider'[p]
    BY <1>1, <2>1, <2>2, Member DEF Sources
  <2>3. CASE \E u \in Thread : Home[u] = p /\ th'[u].store = s
    BY <1>1, <2>1, <2>3, Member DEF Sources
  <2> QED
    BY <2>1, <2>2, <2>3
<1> QED
  BY <1>1, <1>2 DEF FilesPass

LEMMA PlainKeeps ==
  ASSUME FInv, IInv', NEW t \in Thread, NEW r, Plain(t, r), Sources(t, r)
  PROVE  FInv'
<1>1. /\ th'[t] = r /\ \A u \in Thread : u # t => th'[u] = th[u]
      /\ record' = record /\ file' = file
  BY DEF Plain, FInv, IInv, TypeOK
<1>2. FilesPass'
  BY Sourced DEF FInv, IInv, Plain
<1>3. HasRead'
  BY <1>1 DEF FInv, HasRead, Plain, Matches
<1>4. Bracketed'
  BY <1>1 DEF FInv, Bracketed, Plain
<1>5. NewGeneration'
  <2> SUFFICES ASSUME NEW u \in Thread, NEW v \in Thread, th'[u].pc = "write", v # u
               PROVE  th'[v].conn.gen # th'[u].conn.gen
    BY DEF NewGeneration
  <2>1. u # t /\ th'[u] = th[u]
    BY <1>1 DEF Plain
  <2>2. th[u].conn.gen \in Nat \ {0} /\ NoConn.gen = 0
    BY <2>1, Ranges DEF FInv, IInv
  <2>3. th'[v].conn \in {NoConn, th[v].conn}
    BY <1>1 DEF Plain
  <2> QED
    BY <2>1, <2>2, <2>3 DEF FInv, NewGeneration
<1>6. ConnectionIsPrepared'
  BY <1>1 DEF FInv, ConnectionIsPrepared, Within, Plain
<1> QED
  BY <1>2, <1>3, <1>4, <1>5, <1>6 DEF FInv

LEMMA EndKeeps ==
  ASSUME FInv, IInv', \A u \in Thread : th'[u] = th[u] \/ th'[u] = Idle,
         record' = record, file' \in Nat, file <= file',
         \A p \in Process : Refs(p)' \subseteq Refs(p)
  PROVE  FInv'
<1>1. /\ file \in Nat /\ Idle.pc = "idle" /\ Idle.why = "none" /\ Idle.conn = NoConn /\ NoConn.gen = 0
      /\ \A u \in Thread : th'[u] = th[u] \/ (th'[u].pc = "idle" /\ th'[u].why = "none" /\ th'[u].conn = NoConn)
  BY DEF FInv, IInv, TypeOK, Files, Idle, NoConn
<1>2. \A p \in Process : \A s \in Refs(p) : s.file \in Nat
  <2> SUFFICES ASSUME NEW p \in Process, NEW s \in Refs(p)
               PROVE  s.file \in Nat
    OBVIOUS
  <2>1. s \in Stores
    BY Member DEF FInv, IInv, TypeOK, StoreOrNone
  <2> QED
    BY <2>1 DEF Stores, Files
<1>3. FilesPass'
  BY <1>1, <1>2 DEF FInv, FilesPass
<1>4. HasRead'
  BY <1>1 DEF FInv, HasRead, Matches
<1>5. Bracketed'
  <2> SUFFICES ASSUME NEW t \in Thread, th'[t].why = "second"
               PROVE  (th[t].conn.gen = th[t].store.gen /\ th[t].store.file <= th[t].conn.file
                        /\ th[t].conn.file <= file') /\ th'[t] = th[t]
    BY DEF Bracketed
  <2>1. th'[t] = th[t]
    BY <1>1
  <2>2. th[t].conn \in Conns
    BY <2>1 DEF FInv, IInv, TypeOK, WellFormed
  <2>3. th[t].conn.file \in Nat
    BY <2>2 DEF Conns, Files
  <2> QED
    BY <1>1, <2>1, <2>3 DEF FInv, Bracketed
<1>6. NewGeneration'
  <2> SUFFICES ASSUME NEW u \in Thread, NEW v \in Thread, th'[u].pc = "write", v # u
               PROVE  th'[v].conn.gen # th'[u].conn.gen
    BY DEF NewGeneration
  <2>1. th'[u] = th[u]
    BY <1>1
  <2>2. th[u].conn.gen \in Nat \ {0}
    BY <2>1, Ranges DEF FInv, IInv
  <2>3. th'[v].conn \in {NoConn, th[v].conn}
    BY <1>1
  <2> QED
    BY <1>1, <2>1, <2>2, <2>3 DEF FInv, NewGeneration
<1>7. ConnectionIsPrepared'
  BY <1>1 DEF FInv, ConnectionIsPrepared, Within
<1> QED
  BY <1>3, <1>4, <1>5, <1>6, <1>7 DEF FInv

-----------------------------------------------------------------------------
(***************************************************************************)
(* Which steps are plain                                                    *)
(***************************************************************************)
LEMMA FailPlain ==
  ASSUME TypeOK, NEW t \in Thread, Fail(t) \/ Busy(t)
  PROVE  \E r : Plain(t, r) /\ Sources(t, r)
<1> DEFINE q == [Idle EXCEPT !.pc = "relock", !.op = "retry"]
<1>1. \A pc \in {"begin", "wait", "relock"} :
        /\ [Idle EXCEPT !.pc = pc, !.op = "retry"].pc = pc
        /\ [Idle EXCEPT !.pc = pc, !.op = "retry"].why = "none"
        /\ [Idle EXCEPT !.pc = pc, !.op = "retry"].store = NoStore
        /\ [Idle EXCEPT !.pc = pc, !.op = "retry"].conn = NoConn
  BY DEF Idle
<1>2. \/ Failed(t) = Idle
      \/ \E pc \in {"begin", "wait"} : Failed(t) = [Idle EXCEPT !.pc = pc, !.op = "retry"]
  BY DEF Failed
<1>3. PICK r \in {q, Idle, Failed(t)} : th' = [th EXCEPT ![t] = r]
  BY DEF Fail, Busy, Become
<1>4. r.pc \in {"idle", "begin", "wait", "relock"} /\ r.why = "none" /\ r.store = NoStore /\ r.conn = NoConn
  <2>1. Idle.pc = "idle" /\ Idle.why = "none" /\ Idle.store = NoStore /\ Idle.conn = NoConn
    BY DEF Idle
  <2>2. /\ q.pc = "relock" /\ q.why = "none" /\ q.store = NoStore /\ q.conn = NoConn
    BY <1>1
  <2>3. /\ Failed(t).pc \in {"idle", "begin", "wait"} /\ Failed(t).why = "none"
        /\ Failed(t).store = NoStore /\ Failed(t).conn = NoConn
    <3>1. CASE Failed(t) = Idle
      BY <2>1, <3>1
    <3>2. ASSUME NEW pc \in {"begin", "wait"}, Failed(t) = [Idle EXCEPT !.pc = pc, !.op = "retry"]
          PROVE  Failed(t).pc = pc /\ Failed(t).why = "none" /\ Failed(t).store = NoStore
                 /\ Failed(t).conn = NoConn
      <4> HIDE DEF q
      <4> QED
        BY <1>1, <3>2, Zenon
    <3> QED
      BY <1>2, <3>1, <3>2
  <2> HIDE DEF q
  <2> QED
    BY <1>3, <2>1, <2>2, <2>3
<1>5. /\ cached' \in {cached, [cached EXCEPT ![Home[t]] = NoStore]} /\ provider' = provider
      /\ record' = record /\ file' = file
  BY DEF Fail, Busy, disk
<1> HIDE DEF q
<1>6. Plain(t, r) /\ Sources(t, r)
  BY <1>3, <1>4, <1>5 DEF Plain, Sources
<1> QED
  BY <1>6

LEMMA TurnPlain ==
  ASSUME NEW t \in Thread, NEW r, Become(t, r), UNCHANGED shared,
         r.store \in {NoStore, th[t].store, cached[Home[t]], provider[Home[t]]} \/ r.store.file = file,
         r.pc \notin {"identity", "work", "write"}, r.conn \in {NoConn, th[t].conn},
         r.why = "second" => th[t].why = "second" /\ r.store = th[t].store /\ r.conn = th[t].conn
  PROVE  Plain(t, r) /\ Sources(t, r)
BY DEF Become, shared, Plain, Sources

LEMMA StepPlain ==
  ASSUME TypeOK, NEW t \in Thread, NEW from, NEW to, Step(t, from, to), to \notin {"identity", "work", "write"}
  PROVE  \E r : Plain(t, r) /\ Sources(t, r)
<1> DEFINE r == [th[t] EXCEPT !.pc = to]
<1>1. r.pc = to /\ r.store = th[t].store /\ r.conn = th[t].conn /\ r.why = th[t].why
  BY DEF TypeOK
<1>2. Become(t, r) /\ UNCHANGED shared
  BY DEF Step, Go
<1> HIDE DEF r
<1> QED
  BY <1>1, <1>2, TurnPlain

\* The steps that make, use or keep a record of what a connection or a new generation is.
Special(t) == ReadRecord(t) \/ CheckIdentity(t) \/ Connect(t) \/ ClearRecord(t) \/ WriteRecord(t)

LEMMA CheckPlain ==
  ASSUME TypeOK, NEW t \in Thread, Check(t), ~Special(t)
  PROVE  \E r : Plain(t, r) /\ Sources(t, r)
<1>1. CASE TakeGate(t) \/ Probe(t)
  <2>1. PICK from, to : Step(t, from, to) /\ to \in {"probe", "record", "absent"}
    BY <1>1 DEF TakeGate, Probe
  <2> QED
    BY <2>1, StepPlain
<1>2. CASE GateIsTaken(t) \/ Unavailable(t)
  BY <1>2, FailPlain DEF GateIsTaken, Unavailable
<1>3. CASE EndWork(t)
  <2>1. /\ Idle.pc = "idle" /\ Idle.why = "none" /\ Idle.store = NoStore /\ Idle.conn = NoConn
        /\ th' = [th EXCEPT ![t] = Idle] /\ cached' = cached /\ provider' = provider
        /\ record' = record /\ file' = file
    BY <1>3 DEF EndWork, Become, disk, Idle
  <2> QED
    BY <2>1 DEF Plain, Sources
<1> QED
  BY <1>1, <1>2, <1>3 DEF Check, Special

LEMMA PreparePlain ==
  ASSUME TypeOK, NEW t \in Thread, Prepare(t), ~Special(t)
  PROVE  \E r : Plain(t, r) /\ Sources(t, r)
<1>0. th[t] \in ThreadRecords
  BY DEF TypeOK, ThreadRecords
<1>1. ASSUME NEW from, NEW to, Step(t, from, to), to \in {"begin", "authority", "primary", "exclude", "migrate", "clear"}
      PROVE  \E r : Plain(t, r) /\ Sources(t, r)
  BY <1>1, StepPlain
<1>2. CASE Relock(t)
  <2>1. CASE cached[Home[t]] = NoStore
    BY <1>1, <1>2, <2>1 DEF Relock, Step
  <2>2. CASE cached[Home[t]] # NoStore
    <3> DEFINE r == [Idle EXCEPT !.pc = "gate", !.op = "retry", !.why = "final", !.store = cached[Home[t]]]
    <3>1. Become(t, r) /\ UNCHANGED shared
      BY <1>2, <2>2 DEF Relock
    <3>2. r.pc = "gate" /\ r.why = "final" /\ r.store = cached[Home[t]] /\ r.conn = NoConn
      BY DEF Idle
    <3> HIDE DEF r
    <3> QED
      BY <3>1, <3>2, TurnPlain
  <2> QED
    BY <2>1, <2>2
<1>3. CASE CannotBegin(t) \/ AlreadyRunning(t) \/ PrimaryExists(t) \/ ConsumersRemain(t)
  BY <1>3, FailPlain DEF CannotBegin, AlreadyRunning, PrimaryExists, ConsumersRemain
<1>4. CASE Begin(t) \/ TakeAuthority(t) \/ BecomePrimary(t) \/ ExcludeConsumers(t) \/ Migrate(t)
  BY <1>1, <1>4 DEF Begin, TakeAuthority, BecomePrimary, ExcludeConsumers, Migrate
<1>5. CASE Bind(t)
  <2> DEFINE s == [gen |-> record.gen, file |-> file, primary |-> TRUE]
             r == [th[t] EXCEPT !.pc = "gate", !.why = "first", !.store = s]
  <2>1. Become(t, r) /\ UNCHANGED shared /\ s.file = file
    BY <1>5 DEF Bind
  <2> HIDE DEF s
  <2>2. r.pc = "gate" /\ r.why = "first" /\ r.store = s /\ r.conn = th[t].conn
    BY <1>0 DEF ThreadRecords
  <2> HIDE DEF r
  <2> QED
    BY <2>1, <2>2, TurnPlain
<1> QED
  BY <1>2, <1>3, <1>4, <1>5 DEF Prepare, Special

LEMMA AttachPlain ==
  ASSUME TypeOK, NEW t \in Thread, Attach(t)
  PROVE  \E r : Plain(t, r) /\ Sources(t, r)
<1>0. th[t] \in ThreadRecords
  BY DEF TypeOK, ThreadRecords
<1>1. CASE EnterGate(t) \/ SeekPrimary(t) \/ ConnectAnchor(t) \/ SeekAgain(t)
  <2>1. PICK from, to : Step(t, from, to) /\ to \in {"seek", "lease", "nobody", "seekAgain", "join"}
    BY <1>1 DEF EnterGate, SeekPrimary, ConnectAnchor, SeekAgain
  <2> QED
    BY <2>1, StepPlain
<1>2. CASE GiveUp(t) \/ NoPrimary(t) \/ Fail(t) \/ Busy(t)
  BY <1>2, FailPlain DEF GiveUp, NoPrimary
<1>3. CASE TakeLease(t) /\ ~Busy(t)
  <2> DEFINE s == [gen |-> record.gen, file |-> file, primary |-> FALSE]
             r == [th[t] EXCEPT !.pc = "connection", !.store = s]
  <2>1. Become(t, r) /\ UNCHANGED shared /\ s.file = file /\ th[t].pc = "lease"
    BY <1>3 DEF TakeLease, At
  <2>2. th[t].why = "none"
    BY <2>1 DEF TypeOK, WellFormed, CheckPoints
  <2> HIDE DEF s
  <2>3. r.pc = "connection" /\ r.why = th[t].why /\ r.store = s /\ r.conn = th[t].conn
    BY <1>0 DEF ThreadRecords
  <2> HIDE DEF r
  <2> QED
    BY <2>1, <2>2, <2>3, TurnPlain
<1>4. CASE Join(t) /\ ~Fail(t)
  <2>1. PICK why \in {"first", "final"} :
          Become(t, [th[t] EXCEPT !.pc = "gate", !.why = why]) /\ UNCHANGED shared
    BY <1>4 DEF Join
  <2> DEFINE r == [th[t] EXCEPT !.pc = "gate", !.why = why]
  <2>2. r.pc = "gate" /\ r.why = why /\ r.store = th[t].store /\ r.conn = th[t].conn
    BY <1>0 DEF ThreadRecords
  <2>3. Become(t, r)
    BY <2>1
  <2> HIDE DEF r
  <2> QED
    BY <2>1, <2>2, <2>3, TurnPlain
<1> QED
  BY <1>1, <1>2, <1>3, <1>4 DEF Attach

LEMMA AskPlain ==
  ASSUME NEW t \in Thread, Asks(t)
  PROVE  \E r : Plain(t, r) /\ Sources(t, r)
<1>1. ASSUME NEW op, NEW why, NEW store, NEW pc, Ask(t, op, why, store, pc),
             why \in {"none", "get", "first"}, pc \in {"probe", "begin", "authority", "seek"},
             store \in {NoStore, cached[Home[t]], provider[Home[t]]}
      PROVE  \E r : Plain(t, r) /\ Sources(t, r)
  <2> DEFINE r == [Idle EXCEPT !.pc = pc, !.op = op, !.why = why, !.store = store]
  <2>1. Become(t, r) /\ UNCHANGED shared
    BY <1>1 DEF Ask
  <2>2. r.pc = pc /\ r.why = why /\ r.store = store /\ r.conn = NoConn
    BY DEF Idle
  <2> HIDE DEF r
  <2> QED
    BY <1>1, <2>1, <2>2, TurnPlain
<1> QED
  BY <1>1 DEF Asks, Call, Retry, StartProvider, Request, CallGateway

-----------------------------------------------------------------------------
(***************************************************************************)
(* The steps that are not plain                                             *)
(***************************************************************************)
\* What a step of one thread leaves of the invariant of the others.
LEMMA Aside ==
  ASSUME FInv, NEW t \in Thread, NEW r, th' = [th EXCEPT ![t] = r], file' = file
  PROVE  /\ th'[t] = r /\ \A u \in Thread : u # t => th'[u] = th[u]
         /\ (r.why = "second" => r.conn.gen = r.store.gen /\ r.store.file <= r.conn.file /\ r.conn.file <= file)
               => Bracketed'
         /\ record' = record /\ (r.pc = "identity" => Matches(r.store)) => HasRead'
<1>1. th'[t] = r /\ \A u \in Thread : u # t => th'[u] = th[u]
  BY DEF FInv, IInv, TypeOK
<1>2. (r.why = "second" => r.conn.gen = r.store.gen /\ r.store.file <= r.conn.file /\ r.conn.file <= file)
         => Bracketed'
  BY <1>1 DEF FInv, Bracketed
<1>3. record' = record /\ (r.pc = "identity" => Matches(r.store)) => HasRead'
  BY <1>1 DEF FInv, HasRead, Matches
<1> QED
  BY <1>1, <1>2, <1>3

LEMMA ReadKeeps ==
  ASSUME FInv, IInv', NEW t \in Thread, ReadRecord(t)
  PROVE  FInv'
<1>1. CASE Fail(t)
  BY <1>1, FailPlain, PlainKeeps DEF FInv, IInv
<1>2. CASE ~Fail(t)
  <2> DEFINE r == [th[t] EXCEPT !.pc = "identity"]
  <2>1. /\ r.pc = "identity" /\ r.store = th[t].store /\ r.conn = th[t].conn /\ r.why = th[t].why
    BY DEF FInv, IInv, TypeOK
  <2>2. /\ th' = [th EXCEPT ![t] = r] /\ cached' = cached /\ provider' = provider
        /\ record' = record /\ file' = file /\ Matches(th[t].store)
    BY <1>2 DEF ReadRecord, Step, Go, Become, shared
  <2> HIDE DEF r
  <2>3. FilesPass'
    BY <2>1, <2>2, Sourced DEF Sources, FInv, IInv
  <2>4. HasRead' /\ Bracketed'
    <3>1. Matches(r.store)
      BY <2>1, <2>2
    <3>2. r.why = "second" => r.conn.gen = r.store.gen /\ r.store.file <= r.conn.file /\ r.conn.file <= file
      BY <2>1 DEF FInv, Bracketed
    <3> QED
      BY <2>2, <3>1, <3>2, Aside
  <2>5. NewGeneration'
    BY <2>1, <2>2, Aside DEF FInv, NewGeneration
  <2>6. ConnectionIsPrepared'
    BY <2>1, <2>2, Aside DEF FInv, ConnectionIsPrepared, Within
  <2> QED
    BY <2>3, <2>4, <2>5, <2>6 DEF FInv
<1> QED
  BY <1>1, <1>2

LEMMA ConnectKeeps ==
  ASSUME FInv, IInv', NEW t \in Thread, Connect(t)
  PROVE  FInv'
<1> DEFINE c == [gen |-> th[t].store.gen, file |-> file]
           r == [th[t] EXCEPT !.pc = "gate", !.why = "second", !.conn = c]
<1>1. /\ r.pc = "gate" /\ r.store = th[t].store /\ r.conn = c /\ r.why = "second"
      /\ c.gen = th[t].store.gen /\ c.file = file
  BY DEF FInv, IInv, TypeOK
<1>2. /\ th' = [th EXCEPT ![t] = r] /\ cached' = cached /\ provider' = provider
      /\ record' = record /\ file' = file /\ th[t].pc = "connect"
  BY DEF Connect, Become, shared, At
<1> HIDE DEF r, c
<1>3. th[t].store # NoStore /\ th[t].store \in Refs(Home[t]) /\ Home[t] \in Process /\ file \in Nat
  BY <1>2, Member, Ranges DEF FInv, IInv, TypeOK, WellFormed, CheckPoints
<1>4. FilesPass'
  BY <1>1, <1>2, Sourced DEF Sources, FInv, IInv
<1>5. HasRead' /\ Bracketed'
  <2>1. r.conn.gen = r.store.gen /\ r.store.file <= r.conn.file /\ r.conn.file <= file
    BY <1>1, <1>3 DEF FInv, FilesPass
  <2> QED
    BY <1>1, <1>2, <2>1, Aside
<1>6. NewGeneration'
  <2> SUFFICES ASSUME NEW u \in Thread, NEW v \in Thread, th'[u].pc = "write", v # u
               PROVE  th'[v].conn.gen # th'[u].conn.gen
    BY DEF NewGeneration
  <2>1. u # t /\ th'[u] = th[u]
    BY <1>1, <1>2, Aside
  <2>2. FALSE
    BY <1>3, <2>1, PointSets DEF FInv, IInv, LeaseOK
  <2> QED
    BY <2>2
<1>7. ConnectionIsPrepared'
  BY <1>1, <1>2, Aside DEF FInv, ConnectionIsPrepared, Within
<1> QED
  BY <1>4, <1>5, <1>6, <1>7 DEF FInv

LEMMA PassedKeeps ==
  ASSUME NEW t \in Thread, th[t] \in ThreadRecords
  PROVE  /\ Passed(t).why # "second" /\ Passed(t).conn \in {NoConn, th[t].conn}
         /\ Passed(t).pc = "work" => th[t].why = "second" /\ Passed(t).conn = th[t].conn
<1> DEFINE a == th[t]
           first == [a EXCEPT !.pc = "gate", !.why = "first"]
           connecting == [a EXCEPT !.pc = "connect"]
           attached == [a EXCEPT !.pc = "work", !.why = "none"]
           working == [a EXCEPT !.pc = "work", !.why = "none", !.store = NoStore]
           final == [a EXCEPT !.pc = "gate", !.why = "final", !.conn = NoConn]
<1>1. \/ Passed(t) = Idle
      \/ Passed(t) = first
      \/ a.why = "first" /\ Passed(t) = connecting
      \/ a.why = "second" /\ Passed(t) \in {attached, working}
      \/ Passed(t) = final
  BY DEF Passed
<1>2. /\ Idle.pc = "idle" /\ Idle.why = "none" /\ Idle.conn = NoConn
      /\ first.pc = "gate" /\ first.why = "first" /\ first.conn = a.conn
      /\ connecting.pc = "connect" /\ connecting.why = a.why /\ connecting.conn = a.conn
  BY DEF ThreadRecords, Idle
<1>3. /\ attached.pc = "work" /\ attached.why = "none" /\ attached.conn = a.conn
      /\ working.pc = "work" /\ working.why = "none" /\ working.conn = a.conn
      /\ final.pc = "gate" /\ final.why = "final" /\ final.conn = NoConn
  BY DEF ThreadRecords
<1> HIDE DEF first, connecting, attached, working, final
<1> QED
  BY <1>1, <1>2, <1>3

LEMMA IdentityKeeps ==
  ASSUME FInv, IInv', NEW t \in Thread, CheckIdentity(t)
  PROVE  FInv'
<1>1. CASE Fail(t)
  BY <1>1, FailPlain, PlainKeeps DEF FInv, IInv
<1>2. CASE ~Fail(t)
  <2> DEFINE r == Passed(t)
  <2>1. /\ th' = [th EXCEPT ![t] = r] /\ record' = record /\ file' = file /\ SameFile(th[t].store)
        /\ cached' \in {cached, [cached EXCEPT ![Home[t]] = th[t].store]}
        /\ provider' \in {provider, [provider EXCEPT ![Home[t]] = th[t].store]}
        /\ th[t].pc = "identity"
    BY <1>2 DEF CheckIdentity, Become, disk, At
  <2>2. r.store \in {NoStore, th[t].store} /\ r.pc \in FreePoints
    BY <2>1, PassedIs DEF At, FInv, IInv
  <2>3. /\ r.why # "second" /\ r.conn \in {NoConn, th[t].conn}
        /\ r.pc = "work" => th[t].why = "second" /\ r.conn = th[t].conn
    <3>1. th[t] \in ThreadRecords
      BY DEF FInv, IInv, TypeOK, ThreadRecords
    <3> QED
      BY <3>1, PassedKeeps
  <2> HIDE DEF r
  <2>4. Sources(t, r)
    BY <2>1, <2>2 DEF Sources
  <2>5. CASE r.pc # "work"
    BY <2>1, <2>2, <2>3, <2>4, <2>5, PlainKeeps DEF Plain, FreePoints
  <2>6. CASE r.pc = "work"
    <3>1. FilesPass'
      BY <2>1, <2>4, Sourced DEF FInv, IInv
    <3>2. HasRead' /\ Bracketed'
      BY <2>1, <2>3, <2>6, Aside
    <3>3. NewGeneration'
      BY <2>1, <2>3, <2>6, Aside DEF FInv, NewGeneration
    <3>4. record.gen = th[t].conn.gen => record.file = th[t].conn.file
      <4>1. /\ record.file = th[t].store.file /\ file = th[t].store.file
            /\ th[t].store.file <= th[t].conn.file /\ th[t].conn.file <= file
        BY <2>1, <2>3, <2>6 DEF FInv, HasRead, Matches, SameFile, Bracketed
      <4>2. th[t].conn.file \in Nat /\ file \in Nat
        BY <2>3, <2>6, Ranges DEF FInv, IInv, TypeOK, WellFormed
      <4> QED
        BY <4>1, <4>2
    <3>5. ConnectionIsPrepared'
      BY <2>1, <2>3, <2>6, <3>4, Aside DEF FInv, ConnectionIsPrepared, Within
    <3> QED
      BY <3>1, <3>2, <3>3, <3>5 DEF FInv
  <2> QED
    BY <2>5, <2>6
<1> QED
  BY <1>1, <1>2

LEMMA ClearKeeps ==
  ASSUME FInv, IInv', NEW t \in Thread, ClearRecord(t)
  PROVE  FInv'
<1>1. PICK g \in Generations \ Remembered :
        th' = [th EXCEPT ![t] = [th[t] EXCEPT !.pc = "write", !.conn = [gen |-> g, file |-> file]]]
  BY Zenon DEF ClearRecord, Become
<1> DEFINE c == [gen |-> g, file |-> file]
           r == [th[t] EXCEPT !.pc = "write", !.conn = c]
<1>2. /\ r.pc = "write" /\ r.store = th[t].store /\ r.conn = c /\ r.why = th[t].why /\ c.gen = g
  BY DEF FInv, IInv, TypeOK
<1>3. /\ th' = [th EXCEPT ![t] = r] /\ cached' = cached /\ provider' = provider
      /\ record' = Torn /\ file' = file /\ th[t].pc = "clear"
  BY <1>1 DEF ClearRecord, At
<1> HIDE DEF r, c
<1>4. \A u \in Thread : u # t => th'[u] = th[u] /\ th[u].pc \notin SharedPoints \cup PreparePoints
  BY <1>2, <1>3, PointSets, Aside DEF FInv, IInv, GateOK
<1>5. FilesPass'
  BY <1>2, <1>3, Sourced DEF Sources, FInv, IInv
<1>6. Bracketed'
  BY <1>2, <1>3, Aside DEF FInv, Bracketed, IInv, TypeOK, WellFormed, CheckPoints
<1>7. HasRead'
  <2>1. \A u \in Thread : th'[u].pc # "identity"
    BY <1>2, <1>3, <1>4, Aside DEF SharedPoints, CheckPoints
  <2> QED
    BY <2>1 DEF HasRead
<1>8. NewGeneration'
  <2> SUFFICES ASSUME NEW u \in Thread, NEW v \in Thread, th'[u].pc = "write", v # u
               PROVE  th'[v].conn.gen # th'[u].conn.gen
    BY DEF NewGeneration
  <2>1. u = t
    BY <1>4 DEF PreparePoints
  <2>2. th[v].conn.gen # g
    BY <1>1 DEF Remembered
  <2> QED
    BY <1>2, <1>3, <1>4, <2>1, <2>2, Aside
<1>9. ConnectionIsPrepared'
  <2> SUFFICES ASSUME NEW u \in Thread, th'[u].pc = "work"
               PROVE  Torn.gen # th'[u].conn.gen
    BY <1>3 DEF ConnectionIsPrepared, Within
  <2>1. u # t /\ th'[u] = th[u]
    BY <1>2, <1>3, Aside
  <2> QED
    BY <2>1, Ranges DEF FInv, IInv
<1> QED
  BY <1>5, <1>6, <1>7, <1>8, <1>9 DEF FInv

LEMMA WriteKeeps ==
  ASSUME FInv, IInv', NEW t \in Thread, WriteRecord(t)
  PROVE  FInv'
<1> DEFINE r == [th[t] EXCEPT !.pc = "bind", !.conn = NoConn]
<1>1. /\ r.pc = "bind" /\ r.store = th[t].store /\ r.conn = NoConn /\ r.why = th[t].why
  BY DEF FInv, IInv, TypeOK
<1>2. /\ th' = [th EXCEPT ![t] = r] /\ cached' = cached /\ provider' = provider
      /\ record' = th[t].conn /\ file' = file /\ th[t].pc = "write"
  BY DEF WriteRecord, Become, At
<1> HIDE DEF r
<1>3. \A u \in Thread : u # t => th'[u] = th[u] /\ th[u].pc \notin SharedPoints \cup PreparePoints
  BY <1>1, <1>2, PointSets, Aside DEF FInv, IInv, GateOK
<1>4. FilesPass'
  BY <1>1, <1>2, Sourced DEF Sources, FInv, IInv
<1>5. Bracketed'
  BY <1>1, <1>2, Aside DEF FInv, Bracketed, IInv, TypeOK, WellFormed, CheckPoints
<1>6. HasRead' /\ NewGeneration'
  <2>1. th'[t] = r /\ "identity" \in SharedPoints /\ "write" \in PreparePoints
    BY <1>2, Aside DEF SharedPoints, CheckPoints, PreparePoints
  <2>2. \A u \in Thread : th'[u].pc # "identity" /\ th'[u].pc # "write"
    BY <1>1, <1>3, <2>1
  <2> QED
    BY <2>2 DEF HasRead, NewGeneration
<1>7. ConnectionIsPrepared'
  <2> SUFFICES ASSUME NEW u \in Thread, th'[u].pc = "work"
               PROVE  th[t].conn.gen # th'[u].conn.gen
    BY <1>2 DEF ConnectionIsPrepared, Within
  <2>1. u # t /\ th'[u] = th[u]
    BY <1>1, <1>2, Aside
  <2> QED
    BY <1>2, <2>1 DEF FInv, NewGeneration
<1> QED
  BY <1>4, <1>5, <1>6, <1>7 DEF FInv

LEMMA FirstFile ==
  ASSUME Init
  PROVE  FInv
<1>1. IInv /\ \A t \in Thread : th[t] = Idle /\ th[t].pc = "idle" /\ th[t].why = "none"
  BY Initially DEF Init, Idle
<1>2. \A p \in Process : Refs(p) = {}
  BY NobodyYet, Zenon
<1> QED
  BY <1>1, <1>2 DEF FInv, FilesPass, HasRead, Bracketed, NewGeneration, ConnectionIsPrepared, Within

LEMMA FileInductive ==
  ASSUME FInv, [Next]_vars
  PROVE  FInv'
<1>0. IInv' /\ TypeOK
  BY Inductive DEF FInv, IInv
<1>1. CASE UNCHANGED vars
  <2>1. UNCHANGED <<th, cached, provider, closing, record, file, faults>>
    BY <1>1 DEF vars
  <2>2. \A p \in Process : Refs(p)' = Refs(p)
    BY <2>1 DEF Refs
  <2> QED
    BY <1>0, <2>1, <2>2 DEF FInv, FilesPass, HasRead, Matches, Bracketed, NewGeneration,
                            ConnectionIsPrepared, Within
<1>2. ASSUME NEW t \in Thread, Check(t) \/ Prepare(t) \/ Attach(t) \/ Asks(t) \/ Stumble(t)
      PROVE  FInv'
  <2>1. CASE Special(t)
    BY <1>0, <2>1, ReadKeeps, ConnectKeeps, IdentityKeeps, ClearKeeps, WriteKeeps DEF Special
  <2>2. CASE ~Special(t)
    <3>1. Stumble(t) => Fail(t)
      BY DEF Stumble
    <3>2. PICK r : Plain(t, r) /\ Sources(t, r)
      BY <1>0, <1>2, <2>2, <3>1, CheckPlain, PreparePlain, AttachPlain, AskPlain, FailPlain
    <3> QED
      BY <1>0, <3>2, PlainKeeps
  <2> QED
    BY <2>1, <2>2
<1>3. ASSUME NEW p \in Process, Closings(p) \/ Crash(p) \/ Stop(p)
      PROVE  FInv'
  <2>1. /\ \A u \in Thread : th'[u] = th[u] \/ th'[u] = Idle
        /\ record' = record /\ file' = file
        /\ cached' \in {cached, [cached EXCEPT ![p] = NoStore]}
        /\ provider' \in {provider, [provider EXCEPT ![p] = NoStore]}
    BY <1>3 DEF Closings, DropOwner, DropAuthority, Crash, Stop, disk
  <2>2. \A q \in Process : Refs(q)' \subseteq Refs(q)
    <3> SUFFICES ASSUME NEW q \in Process, NEW s \in Refs(q)'
                 PROVE  s \in Refs(q)
      OBVIOUS
    <3>1. s # NoStore /\ \/ s = cached'[q] \/ s = provider'[q]
                         \/ \E u \in Thread : Home[u] = q /\ th'[u].store = s
      BY DEF Refs
    <3> QED
      BY <1>0, <2>1, <3>1, Distinct, Member DEF TypeOK
  <2>3. file' \in Nat /\ file <= file'
    BY <1>0, <2>1 DEF TypeOK, Files
  <2> QED
    BY <1>0, <2>1, <2>2, <2>3, EndKeeps
<1>4. CASE Replace
  <2>1. UNCHANGED <<th, cached, provider, closing, record>> /\ file' = file + 1
    BY <1>4 DEF Replace
  <2>2. \A q \in Process : Refs(q)' \subseteq Refs(q)
    BY <2>1 DEF Refs
  <2>3. file' \in Nat /\ file <= file'
    BY <1>0, <2>1 DEF TypeOK, Files
  <2> QED
    BY <1>0, <2>1, <2>2, <2>3, EndKeeps
<1> QED
  BY <1>1, <1>2, <1>3, <1>4 DEF Next, Environment

LEMMA FileInvariance == Spec => []FInv
<1>1. Init => FInv
  BY FirstFile
<1>2. FInv /\ [Next]_vars => FInv'
  BY FileInductive
<1> QED
  BY <1>1, <1>2, PTL DEF Spec

-----------------------------------------------------------------------------
(***************************************************************************)
(* The theorems                                                             *)
(***************************************************************************)
\* Every thread is at a point of lifecycle.rs with the Store, the connection and the reason to
\* check that the functions there have in scope at it.
THEOREM StoreTypeCorrect == Spec => []TypeOK
<1>1. IInv => TypeOK
  BY DEF IInv
<1> QED
  BY <1>1, Invariance, PTL

\* PreparedStore keeps the lease, and prepare migrates only under the exclusive lease and the owner
\* lock: no Store that anybody still refers to is of another generation than the record on disk, and
\* no two processes are primary, for any number of processes, threads, failures and deaths.
THEOREM OneGenerationInUse == Spec => []OneGeneration
<1>1. IInv => OneGeneration
  BY DEF IInv, Current, OneOwner, OneGeneration
<1> QED
  BY <1>1, Invariance, PTL

\* The order of PreparedStore's fields: who has the application's authority can be refused the owner
\* lock only by a process that was killed and has not closed its files yet.
THEOREM AuthorityIsEnough == Spec => []AuthorityFindsNoPrimary
<1>1. IInv => AuthorityFindsNoPrimary
  BY DEF IInv
<1> QED
  BY <1>1, Invariance, PTL

\* primary_is_live is only asked under the shared gate and tries the shared lock: who finds a primary
\* has found neither another probe nor an initializer.
THEOREM LiveIsTrue == Spec => LiveIsServed
<1>1. IInv /\ [Next]_vars =>
        [\A t \in Thread :
           (At(t, "probe") /\ At(t, "record")') \/ (At(t, "seek") /\ At(t, "lease")')
              => \E p \in Process : PrimaryRef(p) \/ closing[p] \in {"owner", "dying"}]_vars
  BY LiveStep
<1> QED
  BY <1>1, Invariance, PTL DEF Spec, LiveIsServed

\* open() connects between two checks, and migrates only without consumers: a connection that is
\* being worked on leads to the file that was prepared for its generation, whenever the file at the
\* database's path is exchanged, as long as no earlier one is put back.
THEOREM ConnectionLeadsHome == Spec => []ConnectionIsPrepared
<1>1. FInv => ConnectionIsPrepared
  BY DEF FInv
<1> QED
  BY <1>1, FileInvariance, PTL
=============================================================================
