-------------------------- MODULE NativeInboxProofs --------------------------
(***************************************************************************)
(* What holds of the inbox for every set of receipts, names, peers, reports *)
(* and callers: the type invariant, at-most-once dispatch, and who keeps    *)
(* the printer.                                                             *)
(***************************************************************************)
EXTENDS NativeInbox, FiniteSetTheorems, TLAPS

(***************************************************************************)
(* The typed part.                                                         *)
(***************************************************************************)
LEMMA CommandIsNotNull == None \notin Command
BY IdentitiesAssumption

\* The two rows that enter the table are rows.
LEMMA NewRowsTyped ==
    ASSUME TypeOK, NEW i \in Ids
    PROVE  /\ NextRowid \in Nat
           /\ Absent \in Row
           /\ \A n \in Names \union {None}, p \in Peers \union {None} :
                  NewUpload(i, n, p) \in Row
           /\ \A c \in Command \union {None} : NewExternal(c) \in Row
<1>1. NextRowid \in Nat
  <2>1. IsFiniteSet({j \in Ids : uploads[j].rowid # 0})
    BY FS_Subset, IdentitiesAssumption
  <2> QED
    BY <2>1, FS_CardinalityType DEF NextRowid
<1>2. Absent \in Row
  BY DEF Absent, Row, Kinds, FileStates, StartStates, Age
<1>3. \A n \in Names \union {None}, p \in Peers \union {None} :
          NewUpload(i, n, p) \in Row
  BY <1>1, <1>2, ZenonT(60) DEF NewUpload, Row, Kinds, FileStates, StartStates, Age
<1>4. \A c \in Command \union {None} : NewExternal(c) \in Row
  <2> TAKE c \in Command \union {None}
  <2> DEFINE n == IF c = None THEN None ELSE c.name
  <2>1. n \in Names \union {None}
    BY CommandIsNotNull DEF Command
  <2>2. NewExternal(c) =
          [Absent EXCEPT !.kind = "external", !.state = "external",
                         !.rowid = NextRowid, !.cmd = c, !.name = n]
    BY DEF NewExternal
  <2> HIDE DEF n
  <2> QED
    BY <1>1, <1>2, <2>1, <2>2, ZenonT(60) DEF Row, Kinds, FileStates
<1> QED
  BY <1>1, <1>2, <1>3, <1>4

\* observe() decides a state a tracked row can have, never a pending one.
LEMMA LifecycleTyped ==
    ASSUME TypeOK, NEW i \in Ids, NEW e \in Evidence,
           uploads[i].start \in TrackedStates
    PROVE  /\ Lifecycle(i, e) \in Verdict
           /\ Lifecycle(i, e).start \in TrackedStates \union TerminalStates
<1>1. uploads[i] \in Row /\ e \in [report : Report, merged : Merged]
  BY EvidenceAssumption DEF TypeOK
<1>2. e.report.ok \in BOOLEAN /\ uploads[i].ack \in BOOLEAN /\ uploads[i].active \in BOOLEAN
  BY <1>1 DEF Row, Report
<1> QED
  BY <1>2, ZenonT(40) DEF Lifecycle, Verdict, StartStates, OwnerStates, PendingStates,
              TrackedStates, TerminalStates, Over, EmptyIdle

\* Setting one column of a row to a value of the column.
LEMMA ColumnTyped ==
    ASSUME NEW row \in Row
    PROVE  /\ \A v \in Kinds : [row EXCEPT !.kind = v] \in Row
           /\ \A v \in FileStates : [row EXCEPT !.state = v] \in Row
           /\ \A v \in StartStates : [row EXCEPT !.start = v] \in Row
           /\ \A v \in Names \union {None} : [row EXCEPT !.name = v] \in Row
           /\ \A v \in Command \union {None} : [row EXCEPT !.cmd = v] \in Row
           /\ \A v \in Age : [row EXCEPT !.age = v] \in Row
           /\ \A v \in Nat : [row EXCEPT !.rowid = v] \in Row
           /\ \A v \in BOOLEAN : /\ [row EXCEPT !.replay = v] \in Row
                                /\ [row EXCEPT !.sealed = v] \in Row
                                /\ [row EXCEPT !.retained = v] \in Row
                                /\ [row EXCEPT !.frozen = v] \in Row
                                /\ [row EXCEPT !.ack = v] \in Row
                                /\ [row EXCEPT !.active = v] \in Row
                                /\ [row EXCEPT !.dispatched = v] \in Row
                                /\ [row EXCEPT !.dismissed = v] \in Row
           /\ row.state \in FileStates /\ row.start \in StartStates /\ row.age \in Age
BY DEF Row

LEMMA StatesTyped ==
    /\ TrackedStates \union PendingStates \union TerminalStates \union {None} \subseteq StartStates
    /\ {0, 1, 2} \subseteq Age
BY DEF StartStates, OwnerStates, Age

\* Writing a row to the table keeps the types; so does a claim.
LEMMA PutTyped ==
    ASSUME TypeOK, NEW i \in Ids, NEW row \in Row, Put(i, row),
           claims' \in [Ids -> Nat]
    PROVE  TypeOK'
BY DEF TypeOK, Put

LEMMA ClaimedTyped ==
    ASSUME TypeOK, NEW i \in Ids, NEW row \in Row, Claimed(i, row)
    PROVE  TypeOK'
<1> DEFINE r1 == [row EXCEPT !.start = "dispatching"]
           r2 == [r1 EXCEPT !.dispatched = TRUE]
           r3 == [r2 EXCEPT !.age = 0]
<1>1. "dispatching" \in StartStates /\ 0 \in Age
  BY StatesTyped DEF TrackedStates
<1>2. r3 \in Row
  <2>1. r1 \in Row
    BY <1>1, ColumnTyped
  <2> HIDE DEF r1
  <2>2. r2 \in Row
    BY <2>1, ColumnTyped
  <2> HIDE DEF r2
  <2> QED
    BY <1>1, <2>2, ColumnTyped
<1>3. claims' \in [Ids -> Nat] /\ Put(i, r3)
  BY DEF Claimed, TypeOK
<1> HIDE DEF r3
<1> QED
  BY <1>2, <1>3, PutTyped

LEMMA InitTyped == Init => TypeOK
<1> SUFFICES ASSUME Init PROVE TypeOK
  OBVIOUS
<1>1. Absent \in Row
  BY DEF Absent, Row, Kinds, FileStates, StartStates, Age
<1>2. NoVerdict \in Verdict
  BY DEF NoVerdict, Verdict, StartStates
<1> QED
  BY <1>1, <1>2 DEF Init, TypeOK

LEMMA ReceivingTyped == TypeOK /\ Receiving => TypeOK'
<1> SUFFICES ASSUME TypeOK, NEW i \in Ids,
                    \/ \E n \in Names, p \in Peers : Reserve(i, n, p)
                    \/ \E c \in Command : ReserveReplay(i, c)
                    \/ Seal(i) \/ Fail(i) \/ QueueReplay(i) \/ AbandonReplay(i)
             PROVE  TypeOK'
  BY DEF Receiving
<1>0. uploads[i] \in Row /\ claims \in [Ids -> Nat]
  BY DEF TypeOK
<1>1. ASSUME NEW n \in Names, NEW p \in Peers, Reserve(i, n, p) PROVE TypeOK'
  BY <1>0, <1>1, NewRowsTyped, PutTyped DEF Reserve
<1>2. ASSUME NEW c \in Command, ReserveReplay(i, c) PROVE TypeOK'
  <2>1. NewUpload(i, None, None) \in Row
    BY NewRowsTyped
  <2> DEFINE row == [NewUpload(i, None, None) EXCEPT
                       !.replay = TRUE, !.cmd = c, !.start = "reserved"]
  <2>2. row \in Row
    BY <2>1, ColumnTyped, StatesTyped DEF PendingStates
  <2>3. Put(i, row) /\ claims' = claims
    BY <1>2 DEF ReserveReplay
  <2> HIDE DEF row
  <2> QED
    BY <1>0, <2>2, <2>3, PutTyped
<1>3. CASE Seal(i)
  <2> DEFINE row == [uploads[i] EXCEPT !.state = "stored", !.sealed = TRUE]
  <2>2. row \in Row
    BY <1>0, ColumnTyped DEF FileStates
  <2>3. Put(i, row) /\ claims' = claims
    BY <1>3 DEF Seal
  <2> HIDE DEF row
  <2> QED
    BY <1>0, <2>2, <2>3, PutTyped
<1>5. CASE QueueReplay(i)
  <2> DEFINE row == [uploads[i] EXCEPT !.start = "queued", !.age = 0]
  <2>2. row \in Row
    BY <1>0, ColumnTyped, StatesTyped DEF PendingStates
  <2>3. Put(i, row) /\ claims' = claims
    BY <1>5 DEF QueueReplay
  <2> HIDE DEF row
  <2> QED
    BY <1>0, <2>2, <2>3, PutTyped
<1>4. CASE Fail(i)
  BY <1>0, <1>4, ColumnTyped, StatesTyped, PutTyped DEF Fail, FileStates, TerminalStates
<1>6. CASE AbandonReplay(i)
  BY <1>0, <1>6, ColumnTyped, StatesTyped, PutTyped DEF AbandonReplay, FileStates, TerminalStates
<1> QED
  BY <1>1, <1>2, <1>3, <1>4, <1>5, <1>6

LEMMA StartingTyped == TypeOK /\ Starting => TypeOK'
<1> SUFFICES ASSUME TypeOK, Starting PROVE TypeOK'
  OBVIOUS
<1> USE ColumnTyped, StatesTyped, NewRowsTyped
<1>0. uploads \in [Ids -> Row] /\ claims \in [Ids -> Nat]
  BY DEF TypeOK
<1>1. ASSUME NEW p \in Peers, NEW c \in Command, HoldStart(p, c) PROVE TypeOK'
  <2> DEFINE i == Newest(Candidates(c.name, p))
  <2>1. Put(i, Held(i, c)) /\ claims' = claims
    BY <1>1 DEF HoldStart
  <2>2. CASE i \in Ids
    <3>1. Held(i, c) \in Row
      BY <1>0, <2>2 DEF Held, PendingStates
    <3> QED
      BY <1>0, <2>1, <2>2, <3>1, PutTyped
  <2>3. CASE i \notin Ids
    BY <1>0, <2>1, <2>3 DEF Put, TypeOK
  <2> HIDE DEF i
  <2> QED
    BY <2>2, <2>3
<1> SUFFICES ASSUME NEW i \in Ids,
                    \/ BeginDelivery(i) \/ Delivered(i) \/ FreezeAccounting(i)
                    \/ BlockStart(i) \/ ClaimStart(i)
                    \/ \E outcome \in {"sent", "unknown"} : Dispatched(i, outcome)
                    \/ ReserveExternal(i) \/ AbandonReserved(i)
                    \/ \E c \in Command : \/ ClaimExternal(i, c)
                                          \/ ActivateReserved(i, c)
                                          \/ AdoptRunningPrint(i, c)
             PROVE  TypeOK'
  BY <1>1 DEF Starting
<1>2. uploads[i] \in Row
  BY <1>0
<1>3. CASE BeginDelivery(i)
  BY <1>0, <1>2, <1>3, PutTyped DEF BeginDelivery, FileStates
<1>4. CASE Delivered(i)
  BY <1>0, <1>2, <1>4, PutTyped DEF Delivered, FileStates
<1>5. CASE FreezeAccounting(i)
  BY <1>0, <1>2, <1>5, PutTyped DEF FreezeAccounting
<1>6. CASE BlockStart(i)
  BY <1>0, <1>2, <1>6, PutTyped DEF BlockStart, TerminalStates
<1>7. CASE ClaimStart(i)
  BY <1>2, <1>7, ClaimedTyped DEF ClaimStart
<1>8. CASE \E outcome \in {"sent", "unknown"} : Dispatched(i, outcome)
  BY <1>0, <1>2, <1>8, PutTyped DEF Dispatched, PutStart, TrackedStates
<1>9. CASE ReserveExternal(i)
  BY <1>0, <1>2, <1>9, PutTyped DEF ReserveExternal, PendingStates
<1>10. CASE AbandonReserved(i)
  BY <1>0, <1>2, <1>10, PutTyped DEF AbandonReserved, PutStart, TerminalStates
<1>11. ASSUME NEW c \in Command, ClaimExternal(i, c) PROVE TypeOK'
  BY <1>11, ClaimedTyped DEF ClaimExternal
<1>12. ASSUME NEW c \in Command, ActivateReserved(i, c) PROVE TypeOK'
  <2>1. c.name \in Names
    BY DEF Command
  <2> DEFINE row == [uploads[i] EXCEPT !.cmd = c, !.name = c.name]
  <2>2. row \in Row /\ Claimed(i, row)
    BY <1>2, <1>12, <2>1 DEF ActivateReserved
  <2> HIDE DEF row
  <2> QED
    BY <2>2, ClaimedTyped
<1>13. ASSUME NEW c \in Command, AdoptRunningPrint(i, c) PROVE TypeOK'
  <2> DEFINE row == [NewExternal(c) EXCEPT
                       !.kind = "observed", !.start = "running", !.sealed = TRUE,
                       !.frozen = TRUE, !.ack = TRUE, !.active = TRUE,
                       !.dispatched = TRUE]
  <2>1. NewExternal(c) \in Row
    BY NewRowsTyped
  <2>2. row \in Row
    BY <2>1 DEF TrackedStates, Kinds
  <2>3. Put(i, row) /\ claims' = claims
    BY <1>13 DEF AdoptRunningPrint
  <2> HIDE DEF row
  <2> QED
    BY <1>0, <2>2, <2>3, PutTyped
<1> QED
  BY <1>3, <1>4, <1>5, <1>6, <1>7, <1>8, <1>9, <1>10, <1>11, <1>12, <1>13

LEMMA ObservingTyped == TypeOK /\ Observing => TypeOK'
<1> SUFFICES ASSUME TypeOK, Observing PROVE TypeOK'
  OBVIOUS
<1> USE ColumnTyped, StatesTyped
<1>0. /\ uploads \in [Ids -> Row] /\ claims \in [Ids -> Nat]
      /\ verdicts \in [Ids -> Verdict] /\ NoVerdict \in Verdict
  BY DEF TypeOK, NoVerdict, Verdict
<1>1. ASSUME NEW e \in Evidence, ObserveRead(e) PROVE TypeOK'
  <2>1. verdicts' \in [Ids -> Verdict]
    BY <1>0, <1>1, LifecycleTyped DEF ObserveRead
  <2> QED
    BY <1>1, <2>1 DEF ObserveRead, TypeOK
<1>2. CASE ObserveWrite
  <2>1. \A i \in Ids : /\ verdicts[i].start \in StartStates
                       /\ verdicts[i].ack \in BOOLEAN
                       /\ verdicts[i].active \in BOOLEAN
    BY <1>0 DEF Verdict
  <2>2. uploads' \in [Ids -> Row]
    BY <1>0, <1>2, <2>1 DEF ObserveWrite
  <2>3. events' \in [Ids -> {None, "completed", "interrupted"}]
    BY <1>2 DEF ObserveWrite, Recorded, TypeOK
  <2>4. verdicts' \in [Ids -> Verdict]
    BY <1>0, <1>2 DEF ObserveWrite
  <2> QED
    BY <1>2, <2>2, <2>3, <2>4 DEF ObserveWrite, TypeOK
<1>3. CASE ExpireDispatch
  <2>1. uploads' \in [Ids -> Row]
    BY <1>0, <1>3 DEF ExpireDispatch, UpdateAll, TrackedStates
  <2> QED
    BY <1>3, <2>1 DEF ExpireDispatch, UpdateAll, TypeOK
<1>4. CASE ExpireQueued
  <2>1. uploads' \in [Ids -> Row]
    BY <1>0, <1>4 DEF ExpireQueued, UpdateAll, TerminalStates
  <2> QED
    BY <1>4, <2>1 DEF ExpireQueued, UpdateAll, TypeOK
<1>5. ASSUME NEW i \in Ids, Elapse(i) PROVE TypeOK'
  <2>1. uploads[i] \in Row /\ uploads[i].age \in Age /\ uploads[i].age < 2
    BY <1>0, <1>5 DEF Elapse
  <2>2. uploads[i].age + 1 \in Age
    BY <2>1 DEF Age
  <2> QED
    BY <1>0, <1>5, <2>1, <2>2, PutTyped DEF Elapse
<1> QED
  BY <1>1, <1>2, <1>3, <1>4, <1>5 DEF Observing

LEMMA ManagingTyped == TypeOK /\ Managing => TypeOK'
<1> SUFFICES ASSUME TypeOK, Managing PROVE TypeOK'
  OBVIOUS
<1> USE ColumnTyped, StatesTyped
<1>0. /\ uploads \in [Ids -> Row] /\ claims \in [Ids -> Nat]
      /\ verdicts \in [Ids -> Verdict] /\ NoVerdict \in Verdict
      /\ deleting \subseteq Ids
  BY DEF TypeOK, NoVerdict, Verdict
<1>1. ASSUME NEW i \in Ids,
             \/ ResolveRead(i) \/ Cancel(i) \/ RetryDelivery(i) \/ Discard(i)
             \/ DeletedDiscard(i) \/ DeletedMark(i) \/ PruneLocal(i) \/ PruneReceipt(i)
      PROVE  TypeOK'
  <2>0. uploads[i] \in Row
    BY <1>0
  <2>1. CASE ResolveRead(i)
    BY <2>1 DEF ResolveRead, TypeOK
  <2>2. CASE Cancel(i)
    BY <1>0, <2>0, <2>2, PutTyped DEF Cancel, PutStart, TerminalStates
  <2>3. CASE RetryDelivery(i)
    BY <1>0, <2>0, <2>3, PutTyped DEF RetryDelivery, FileStates
  <2>4. CASE Discard(i)
    BY <1>0, <2>0, <2>4, PutTyped DEF Discard
  <2>5. CASE DeletedDiscard(i)
    <3>1. uploads' \in [Ids -> Row]
      BY <1>0, <2>0, <2>5 DEF DeletedDiscard
    <3> QED
      BY <1>0, <2>5, <3>1 DEF DeletedDiscard, TypeOK
  <2>6. CASE DeletedMark(i)
    <3>1. uploads' \in [Ids -> Row]
      BY <1>0, <2>0, <2>6 DEF DeletedMark, FileStates
    <3> QED
      BY <1>0, <2>6, <3>1 DEF DeletedMark, TypeOK
  <2>7. CASE PruneLocal(i)
    BY <1>0, <2>0, <2>7, PutTyped DEF PruneLocal
  <2>8. CASE PruneReceipt(i)
    <3>1. uploads[i].rowid \in Nat /\ Absent \in Row
      BY <2>0, NewRowsTyped DEF Row
    <3>2. [Absent EXCEPT !.state = "forgotten", !.rowid = uploads[i].rowid] \in Row
      BY <3>1 DEF FileStates
    <3> QED
      BY <1>0, <2>8, <3>2, PutTyped DEF PruneReceipt
  <2> QED
    BY <1>1, <2>1, <2>2, <2>3, <2>4, <2>5, <2>6, <2>7, <2>8
<1>2. CASE ResolveWrite
  <2>1. uploads' \in [Ids -> Row]
    BY <1>0, <1>2 DEF ResolveWrite, TerminalStates
  <2> QED
    BY <1>2, <2>1 DEF ResolveWrite, TypeOK
<1>3. CASE CancelQueued
  <2>1. uploads' \in [Ids -> Row]
    BY <1>0, <1>3 DEF CancelQueued, UpdateAll, TerminalStates
  <2> QED
    BY <1>3, <2>1 DEF CancelQueued, UpdateAll, TypeOK
<1>4. CASE AcknowledgePastReviews
  <2>0. \A i \in Ids : [uploads[i] EXCEPT !.dismissed = TRUE] \in Row
    BY <1>0
  <2>1. uploads' \in [Ids -> Row]
    BY <1>0, <1>4, <2>0 DEF AcknowledgePastReviews, UpdateAll
  <2> QED
    BY <1>4, <2>1 DEF AcknowledgePastReviews, UpdateAll, TypeOK
<1>5. CASE Restart
  <2>1. \A row \in Row : Recovered(row) \in Row
    BY DEF Recovered, FileStates, TrackedStates, TerminalStates
  <2> QED
    BY <1>0, <1>5, <2>1 DEF Restart, TypeOK
<1> QED
  BY <1>1, <1>2, <1>3, <1>4, <1>5 DEF Managing

\* The table, the recorded events, the pending decisions and the history keep
\* their types under every action.
THEOREM TypeCorrect == Spec => []TypeOK
<1>1. TypeOK /\ [Next]_inboxVars => TypeOK'
  <2>1. TypeOK /\ Next => TypeOK'
    BY ReceivingTyped, StartingTyped, ObservingTyped, ManagingTyped DEF Next
  <2>2. TypeOK /\ UNCHANGED inboxVars => TypeOK'
    BY DEF inboxVars, TypeOK
  <2> QED
    BY <2>1, <2>2
<1> QED
  BY InitTyped, <1>1, PTL DEF Spec

(***************************************************************************)
(* At-most-once dispatch.                                                  *)
(*                                                                         *)
(* ClaimOnce alone is not inductive: that a row claimed once is not claimed *)
(* again rests on its start never being pending, or unset, afterwards; and *)
(* observe(), which writes a start decided on an older row, never writes   *)
(* one of those.                                                           *)
(***************************************************************************)
Unclaimed(i) == claims[i] = 0
Startable(i) ==
    \/ uploads[i].start \in PendingStates
    \/ uploads[i].start = None /\ uploads[i].state # "forgotten"

ClaimInv ==
    /\ \A i \in Ids : Startable(i) => Unclaimed(i)
    /\ \A i \in Ids : verdicts[i] # NoVerdict =>
          verdicts[i].start \in TrackedStates \union TerminalStates
    /\ ClaimOnce

LEMMA StatesDisjoint ==
    /\ PendingStates \intersect (TrackedStates \union TerminalStates) = {}
    /\ TrackedStates \intersect TerminalStates = {}
    /\ None \notin PendingStates \union TrackedStates \union TerminalStates
<1>2. None \notin PendingStates \union TrackedStates \union TerminalStates
  BY NullAssumption DEF OwnerStates
<1>3. PendingStates \intersect (TrackedStates \union TerminalStates) = {}
  BY DEF PendingStates, TrackedStates, TerminalStates
<1>4. TrackedStates \intersect TerminalStates = {}
  BY DEF TrackedStates, TerminalStates
<1> QED
  BY <1>2, <1>3, <1>4

\* A write to one row that claims nothing keeps the invariant if the new row is
\* no longer startable, or was so before.
LEMMA PutClaimInv ==
    ASSUME TypeOK, ClaimInv, NEW i \in Ids, NEW row, Put(i, row),
           UNCHANGED claims,
           row.start \in PendingStates \/ (row.start = None /\ row.state # "forgotten")
               => Startable(i)
    PROVE  ClaimInv'
BY DEF TypeOK, ClaimInv, ClaimOnce, Put, Startable, Unclaimed

LEMMA FreshStartable ==
    ASSUME NEW i \in Ids, Fresh(i)
    PROVE  Startable(i)
BY DEF Fresh, Absent, Startable

LEMMA ClaimedClaimInv ==
    ASSUME TypeOK, ClaimInv, NEW i \in Ids, NEW row \in Row, Claimed(i, row),
           Startable(i)
    PROVE  ClaimInv'
<1> DEFINE new == [row EXCEPT !.start = "dispatching", !.dispatched = TRUE, !.age = 0]
<1>1. new.start = "dispatching" /\ new.state = row.state
  BY DEF Row
<1>2. Put(i, new) /\ claims' = [claims EXCEPT ![i] = @ + 1]
  BY DEF Claimed
<1>3. claims[i] = 0
  BY DEF ClaimInv, Unclaimed
<1>4. "dispatching" \notin PendingStates /\ "dispatching" # None
  BY StatesDisjoint DEF TrackedStates
<1> HIDE DEF new
<1> QED
  BY <1>1, <1>2, <1>3, <1>4
     DEF TypeOK, ClaimInv, ClaimOnce, Put, Startable, Unclaimed

LEMMA ReceivingClaimInv == TypeOK /\ ClaimInv /\ Receiving => ClaimInv'
<1> SUFFICES ASSUME TypeOK, ClaimInv, NEW i \in Ids,
                    \/ \E n \in Names, p \in Peers : Reserve(i, n, p)
                    \/ \E c \in Command : ReserveReplay(i, c)
                    \/ Seal(i) \/ Fail(i) \/ QueueReplay(i) \/ AbandonReplay(i)
             PROVE  ClaimInv'
  BY DEF Receiving
<1> USE DEF Row
<1>0. uploads[i] \in Row
  BY DEF TypeOK
<1>1. ASSUME NEW n \in Names, NEW p \in Peers, Reserve(i, n, p) PROVE ClaimInv'
  <2>1. NewUpload(i, n, p).start = None /\ NewUpload(i, n, p).state = "receiving"
    BY DEF NewUpload, Absent
  <2>2. Startable(i) /\ Put(i, NewUpload(i, n, p)) /\ UNCHANGED claims
    BY <1>1 DEF Reserve, Fresh, Absent, Startable
  <2> QED
    BY <2>1, <2>2, PutClaimInv
<1>2. ASSUME NEW c \in Command, ReserveReplay(i, c) PROVE ClaimInv'
  <2> DEFINE row == [NewUpload(i, None, None) EXCEPT
                       !.replay = TRUE, !.cmd = c, !.start = "reserved"]
  <2>1. row.start = "reserved" /\ row.state = "receiving"
    BY DEF NewUpload, Absent
  <2>2. Put(i, row) /\ UNCHANGED claims
    BY <1>2 DEF ReserveReplay
  <2> HIDE DEF row
  <2>3. Startable(i)
    BY <1>2, FreshStartable DEF ReserveReplay
  <2> QED
    BY <2>1, <2>2, <2>3, PutClaimInv
<1>3. CASE Seal(i)
  <2> DEFINE row == [uploads[i] EXCEPT !.state = "stored", !.sealed = TRUE]
  <2>1. row.start = uploads[i].start /\ row.state = "stored"
    BY <1>0
  <2>2. uploads[i].state # "forgotten" /\ Put(i, row) /\ UNCHANGED claims
    BY <1>3 DEF Seal
  <2> HIDE DEF row
  <2> QED
    BY <2>1, <2>2, PutClaimInv DEF Startable
<1>4. CASE Fail(i)
  <2> DEFINE row == [uploads[i] EXCEPT
                 !.state = "failed", !.dismissed = FALSE,
                 !.start = IF @ \in PendingStates THEN "blocked" ELSE @]
  <2>1. /\ row.start \in {uploads[i].start, "blocked"}
        /\ row.state = "failed"
    BY <1>0
  <2>2. uploads[i].state # "forgotten" /\ Put(i, row) /\ UNCHANGED claims
    BY <1>4 DEF Fail
  <2> HIDE DEF row
  <2> QED
    BY <2>1, <2>2, PutClaimInv, StatesDisjoint DEF Startable, TerminalStates
<1>5. CASE QueueReplay(i)
  BY <1>0, <1>5, PutClaimInv DEF QueueReplay, Startable, PendingStates
<1>6. CASE AbandonReplay(i)
  BY <1>0, <1>6, PutClaimInv, StatesDisjoint DEF AbandonReplay, Startable, TerminalStates
<1> QED
  BY <1>1, <1>2, <1>3, <1>4, <1>5, <1>6

LEMMA StartingClaimInv == TypeOK /\ ClaimInv /\ Starting => ClaimInv'
<1> SUFFICES ASSUME TypeOK, ClaimInv, Starting PROVE ClaimInv'
  OBVIOUS
<1> USE StatesDisjoint DEF Row
<1>1. ASSUME NEW p \in Peers, NEW c \in Command, HoldStart(p, c) PROVE ClaimInv'
  <2> DEFINE i == Newest(Candidates(c.name, p))
  <2>1. /\ Put(i, Held(i, c)) /\ claims' = claims
        /\ uploads[i].state \in {"stored", "delivering", "delivered"}
    BY <1>1 DEF HoldStart
  <2>2. CASE i \in Ids
    <3>1. uploads[i] \in Row
      BY <2>2 DEF TypeOK
    <3>2. /\ Held(i, c).start = IF uploads[i].start = None THEN "queued"
                                                           ELSE uploads[i].start
          /\ Held(i, c).state = uploads[i].state
      BY <3>1 DEF Held
    <3> HIDE DEF i
    <3> QED
      BY <2>1, <2>2, <3>2, PutClaimInv DEF Startable
  <2>3. CASE i \notin Ids
    BY <2>1, <2>3 DEF Put, TypeOK, ClaimInv, ClaimOnce, Startable, Unclaimed
  <2> HIDE DEF i
  <2> QED
    BY <2>2, <2>3
<1> SUFFICES ASSUME NEW i \in Ids,
                    \/ BeginDelivery(i) \/ Delivered(i) \/ FreezeAccounting(i)
                    \/ BlockStart(i) \/ ClaimStart(i)
                    \/ \E outcome \in {"sent", "unknown"} : Dispatched(i, outcome)
                    \/ ReserveExternal(i) \/ AbandonReserved(i)
                    \/ \E c \in Command : \/ ClaimExternal(i, c)
                                          \/ ActivateReserved(i, c)
                                          \/ AdoptRunningPrint(i, c)
             PROVE  ClaimInv'
  BY <1>1 DEF Starting
<1>2. uploads[i] \in Row
  BY DEF TypeOK
<1>3. CASE BeginDelivery(i)
  BY <1>2, <1>3, PutClaimInv DEF BeginDelivery, Startable
<1>4. CASE Delivered(i)
  BY <1>2, <1>4, PutClaimInv DEF Delivered, Startable
<1>5. CASE FreezeAccounting(i)
  BY <1>2, <1>5, PutClaimInv DEF FreezeAccounting, Startable
<1>6. CASE BlockStart(i)
  BY <1>2, <1>6, PutClaimInv DEF BlockStart, TerminalStates
<1>7. CASE ClaimStart(i)
  BY <1>2, <1>7, ClaimedClaimInv DEF ClaimStart, Startable, PendingStates
<1>8. CASE \E outcome \in {"sent", "unknown"} : Dispatched(i, outcome)
  BY <1>2, <1>8, PutClaimInv DEF Dispatched, PutStart, TrackedStates, Startable
<1>9. CASE ReserveExternal(i)
  <2> DEFINE row == [NewExternal(None) EXCEPT !.start = "reserved", !.dispatched = TRUE]
  <2>1. row.start = "reserved" /\ row.state = "external"
    BY DEF NewExternal, Absent
  <2>2. Startable(i) /\ Put(i, row) /\ UNCHANGED claims
    BY <1>9 DEF ReserveExternal, Fresh, Absent, Startable
  <2> HIDE DEF row
  <2> QED
    BY <2>1, <2>2, PutClaimInv
<1>10. CASE AbandonReserved(i)
  <2> DEFINE row == [uploads[i] EXCEPT !.start = "cancelled"]
  <2>1. row.start = "cancelled" /\ row.state = uploads[i].state
    BY <1>2
  <2>2. Put(i, row) /\ UNCHANGED claims
    BY <1>10 DEF AbandonReserved, PutStart
  <2> HIDE DEF row
  <2> QED
    BY <2>1, <2>2, PutClaimInv DEF TerminalStates
<1>11. ASSUME NEW c \in Command, ClaimExternal(i, c) PROVE ClaimInv'
  <2>1. NewExternal(c).state = "external"
    BY DEF NewExternal, Absent
  <2>2. NewExternal(c) \in Row
    BY NewRowsTyped
  <2> QED
    BY <1>11, <2>1, <2>2, ClaimedClaimInv DEF ClaimExternal, Startable, Fresh, Absent
<1>12. ASSUME NEW c \in Command, ActivateReserved(i, c) PROVE ClaimInv'
  <2> DEFINE row == [uploads[i] EXCEPT !.cmd = c, !.name = c.name]
  <2>1. row \in Row /\ row.state = uploads[i].state
    BY <1>2 DEF Command
  <2>2. Claimed(i, row) /\ Startable(i)
    BY <1>12 DEF ActivateReserved, Startable, PendingStates, Startable
  <2> HIDE DEF row
  <2> QED
    BY <2>1, <2>2, ClaimedClaimInv
<1>13. ASSUME NEW c \in Command, AdoptRunningPrint(i, c) PROVE ClaimInv'
  <2> DEFINE row == [NewExternal(c) EXCEPT
                       !.kind = "observed", !.start = "running", !.sealed = TRUE,
                       !.frozen = TRUE, !.ack = TRUE, !.active = TRUE,
                       !.dispatched = TRUE]
  <2>1. row.start = "running" /\ row.state = "external"
    BY DEF NewExternal, Absent
  <2>2. Put(i, row) /\ UNCHANGED claims
    BY <1>13 DEF AdoptRunningPrint
  <2>3. "running" \in TrackedStates
    BY DEF TrackedStates
  <2> HIDE DEF row
  <2> QED
    BY <2>1, <2>2, <2>3, PutClaimInv
<1> QED
  BY <1>3, <1>4, <1>5, <1>6, <1>7, <1>8, <1>9, <1>10, <1>11, <1>12, <1>13

\* A write to several rows, each keeping its file state and leaving the pending
\* states, keeps the invariant.
LEMMA UpdateClaimInv ==
    ASSUME TypeOK, ClaimInv, UNCHANGED claims,
           verdicts' = verdicts \/ verdicts' = [i \in Ids |-> NoVerdict],
           \A i \in Ids :
               \/ uploads'[i] = uploads[i]
               \/ uploads'[i].start \in TrackedStates \union TerminalStates
    PROVE  ClaimInv'
BY StatesDisjoint DEF ClaimInv, ClaimOnce, Startable, Unclaimed

LEMMA ObservingClaimInv == TypeOK /\ ClaimInv /\ Observing => ClaimInv'
<1> SUFFICES ASSUME TypeOK, ClaimInv, Observing PROVE ClaimInv'
  OBVIOUS
<1> USE StatesDisjoint DEF Row
<1>0. uploads \in [Ids -> Row]
  BY DEF TypeOK
<1>1. ASSUME NEW e \in Evidence, ObserveRead(e) PROVE ClaimInv'
  <2>1. \A i \in Ids : verdicts'[i] # NoVerdict =>
            verdicts'[i].start \in TrackedStates \union TerminalStates
    BY <1>1, LifecycleTyped DEF ObserveRead
  <2> QED
    BY <1>1, <2>1 DEF ObserveRead, ClaimInv, ClaimOnce, Startable, Unclaimed
<1>2. CASE ObserveWrite
  <2>1. \A i \in Ids :
            \/ uploads'[i] = uploads[i]
            \/ uploads'[i].start \in TrackedStates \union TerminalStates
    <3> SUFFICES ASSUME NEW i \in Ids, verdicts[i] # NoVerdict, Present(i)
                 PROVE  \/ uploads'[i] = uploads[i]
                        \/ uploads'[i].start \in TrackedStates \union TerminalStates
      BY <1>2 DEF ObserveWrite
    <3>1. uploads'[i] = [uploads[i] EXCEPT !.start = verdicts[i].start,
                                           !.ack = verdicts[i].ack,
                                           !.active = verdicts[i].active]
      BY <1>2 DEF ObserveWrite
    <3>2. uploads'[i].start = verdicts[i].start
      BY <1>0, <3>1
    <3> QED
      BY <3>2 DEF ClaimInv
  <2> QED
    BY <1>2, <2>1, UpdateClaimInv DEF ObserveWrite
<1>3. CASE ExpireDispatch
  <2>1. ASSUME NEW i \in Ids
        PROVE  uploads'[i] = uploads[i] \/ uploads'[i].start = "unknown"
    <3>1. \/ uploads'[i] = uploads[i]
          \/ uploads'[i] = [uploads[i] EXCEPT !.start = "unknown", !.dismissed = FALSE]
      BY <1>3 DEF ExpireDispatch, UpdateAll
    <3>2. uploads[i] \in Row
      BY <1>0, <2>1
    <3>3. [uploads[i] EXCEPT !.start = "unknown", !.dismissed = FALSE].start = "unknown"
      BY <3>2
    <3> QED
      BY <3>1, <3>3
  <2>2. UNCHANGED <<verdicts, claims>>
    BY <1>3 DEF ExpireDispatch, UpdateAll
  <2> QED
    BY <2>1, <2>2, UpdateClaimInv DEF TrackedStates
<1>4. CASE ExpireQueued
  <2>1. \A i \in Ids : uploads'[i] = uploads[i] \/ uploads'[i].start = "blocked"
    BY <1>0, <1>4, ZenonT(40) DEF ExpireQueued, UpdateAll
  <2>2. UNCHANGED <<verdicts, claims>>
    BY <1>4 DEF ExpireQueued, UpdateAll
  <2> QED
    BY <2>1, <2>2, UpdateClaimInv DEF TerminalStates
<1>5. ASSUME NEW i \in Ids, Elapse(i) PROVE ClaimInv'
  BY <1>0, <1>5, PutClaimInv DEF Elapse, Startable
<1> QED
  BY <1>1, <1>2, <1>3, <1>4, <1>5 DEF Observing

LEMMA ManagingClaimInv == TypeOK /\ ClaimInv /\ Managing => ClaimInv'
<1> SUFFICES ASSUME TypeOK, ClaimInv, Managing PROVE ClaimInv'
  OBVIOUS
<1> USE StatesDisjoint DEF Row
<1>0. uploads \in [Ids -> Row]
  BY DEF TypeOK
<1>1. ASSUME NEW i \in Ids,
             \/ ResolveRead(i) \/ Cancel(i) \/ RetryDelivery(i) \/ Discard(i)
             \/ DeletedDiscard(i) \/ DeletedMark(i) \/ PruneLocal(i) \/ PruneReceipt(i)
      PROVE  ClaimInv'
  <2>0. uploads[i] \in Row
    BY <1>0
  <2>1. CASE ResolveRead(i)
    BY <2>1 DEF ResolveRead, ClaimInv, ClaimOnce, Startable, Unclaimed
  <2>2. CASE Cancel(i)
    BY <2>0, <2>2, PutClaimInv DEF Cancel, PutStart, TerminalStates
  <2>3. CASE RetryDelivery(i)
    BY <2>0, <2>3, PutClaimInv DEF RetryDelivery, Startable
  <2>4. CASE Discard(i)
    BY <2>0, <2>4, PutClaimInv DEF Discard, Startable
  <2>5. CASE DeletedDiscard(i)
    <3>1. \A j \in Ids : /\ uploads'[j].start = uploads[j].start
                         /\ uploads'[j].state = uploads[j].state
      BY <1>0, <2>0, <2>5 DEF DeletedDiscard
    <3> QED
      BY <2>5, <3>1 DEF DeletedDiscard, ClaimInv, ClaimOnce, Startable, Unclaimed
  <2>6. CASE DeletedMark(i)
    <3>1. \A j \in Ids : /\ uploads'[j].start = uploads[j].start
                         /\ uploads[j].state = "forgotten" => uploads'[j].state = "forgotten"
      BY <1>0, <2>0, <2>6 DEF DeletedMark
    <3> QED
      BY <2>6, <3>1 DEF DeletedMark, ClaimInv, ClaimOnce, Startable, Unclaimed
  <2>7. CASE PruneLocal(i)
    BY <2>0, <2>7, PutClaimInv DEF PruneLocal, Startable
  <2>8. CASE PruneReceipt(i)
    <3> DEFINE row == [Absent EXCEPT !.state = "forgotten", !.rowid = uploads[i].rowid]
    <3>1. row.start = None /\ row.state = "forgotten"
      BY DEF Absent
    <3>2. Put(i, row) /\ UNCHANGED claims
      BY <2>8 DEF PruneReceipt
    <3> HIDE DEF row
    <3> QED
      BY <3>1, <3>2, PutClaimInv
  <2> QED
    BY <1>1, <2>1, <2>2, <2>3, <2>4, <2>5, <2>6, <2>7, <2>8
<1>2. CASE ResolveWrite
  <2>1. \A i \in Ids : uploads'[i] = uploads[i] \/ uploads'[i].start = "resolved"
    BY <1>0, <1>2 DEF ResolveWrite
  <2>2. UNCHANGED <<verdicts, claims>>
    BY <1>2 DEF ResolveWrite
  <2> QED
    BY <2>1, <2>2, UpdateClaimInv DEF TerminalStates
<1>3. CASE CancelQueued
  <2>1. \A i \in Ids : uploads'[i] = uploads[i] \/ uploads'[i].start = "cancelled"
    BY <1>0, <1>3 DEF CancelQueued, UpdateAll
  <2>2. UNCHANGED <<verdicts, claims>>
    BY <1>3 DEF CancelQueued, UpdateAll
  <2> QED
    BY <2>1, <2>2, UpdateClaimInv DEF TerminalStates
<1>4. CASE AcknowledgePastReviews
  <2>1. \A i \in Ids : /\ uploads'[i].start = uploads[i].start
                       /\ uploads'[i].state = uploads[i].state
    BY <1>0, <1>4 DEF AcknowledgePastReviews, UpdateAll
  <2> QED
    BY <1>4, <2>1
       DEF AcknowledgePastReviews, UpdateAll, ClaimInv, ClaimOnce, Startable, Unclaimed
<1>5. CASE Restart
  <2>1. \A i \in Ids :
            /\ uploads'[i].start = uploads[i].start
               \/ uploads'[i].start \in TrackedStates \union TerminalStates
            /\ uploads[i].state = "forgotten" => uploads'[i].state = "forgotten"
    <3> SUFFICES ASSUME NEW row \in Row
                 PROVE  /\ Recovered(row).start = row.start
                           \/ Recovered(row).start \in TrackedStates \union TerminalStates
                        /\ row.state = "forgotten" => Recovered(row).state = "forgotten"
      BY <1>0, <1>5 DEF Restart
    <3> QED
      BY DEF Recovered, TrackedStates, TerminalStates
  <2> QED
    BY <1>5, <2>1 DEF Restart, ClaimInv, ClaimOnce, Startable, Unclaimed
<1> QED
  BY <1>1, <1>2, <1>3, <1>4, <1>5 DEF Managing

LEMMA ClaimInvHolds == Spec => []ClaimInv
<1>1. Init => ClaimInv
  BY DEF Init, ClaimInv, ClaimOnce, Startable, Unclaimed
<1>2. TypeOK /\ ClaimInv /\ [Next]_inboxVars => ClaimInv'
  <2>1. TypeOK /\ ClaimInv /\ Next => ClaimInv'
    BY ReceivingClaimInv, StartingClaimInv, ObservingClaimInv, ManagingClaimInv DEF Next
  <2>2. ClaimInv /\ UNCHANGED inboxVars => ClaimInv'
    BY DEF inboxVars, ClaimInv, ClaimOnce, Startable, Unclaimed
  <2> QED
    BY <2>1, <2>2
<1> QED
  BY <1>1, <1>2, TypeCorrect, PTL DEF Spec

\* No start is claimed for publication twice, in any number of restarts,
\* retries, owner decisions and late reports.
THEOREM AtMostOnce == Spec => []ClaimOnce
<1>1. ClaimInv => ClaimOnce
  BY DEF ClaimInv
<1> QED
  BY <1>1, ClaimInvHolds, PTL

-----------------------------------------------------------------------------

(***************************************************************************)
(* Who keeps the printer: the rows that fence it, from their admission to   *)
(* their end, whatever the callers are, or without the caller a theorem     *)
(* names.                                                                   *)
(***************************************************************************)

(***************************************************************************)
(* Rows that keep the printer are live, and what was started was real.     *)
(*                                                                         *)
(* Both rest on one invariant of each row taken with what is kept about it *)
(* elsewhere: its pending verdict v, its event e, its claims n, and d, that *)
(* deleted() has yet to mark it.  The verdict is why: observe() writes it   *)
(* by identity alone, so it has to fit whatever became of the row since.    *)
(***************************************************************************)
\* A row follows its kind.
KindFits(r) ==
    /\ r.kind = "upload" /\ r.state \in {"stored", "delivering", "delivered"} => r.sealed
    /\ r.kind \in {"external", "observed"} => r.state = "external"
    /\ r.kind = None => r.start = None /\ r.state \in {"absent", "forgotten"} /\ ~ r.dismissed
    /\ r.kind = "observed" => r.ack /\ r.active
    /\ r.replay => r.kind = "upload"

\* A row that keeps the printer has not failed and is in sight.
OwnerFits(r) ==
    /\ r.state = "failed" \/ r.dismissed => r.start \notin OwnerStates
    /\ r.dismissed => r.state \in {"failed", "deleted"} \/ r.start \in TerminalStates

\* What was published was whole, and an event is of a print that ran.
HistoryFits(r, v, e, n) ==
    /\ r.kind = "upload" /\ n > 0 => r.sealed /\ r.state \in {"delivered", "deleted"}
    /\ r.kind # None /\ (r.start \in TrackedStates \/ v # NoVerdict)
           => n > 0 \/ r.kind = "observed"
    /\ r.kind # None /\ e # None
           => /\ r.frozen /\ (n > 0 \/ r.kind = "observed")
              /\ e = "completed" => r.active /\ r.ack

\* A decision not yet written fits the row it will be written to.
VerdictFits(r, v) ==
    v # NoVerdict =>
        /\ r.kind # None => r.start \in TrackedStates \union {"resolved"} /\ ~ r.dismissed
        /\ r.active => v.active
        /\ r.ack => v.ack
        /\ v.start = "completed" => v.active /\ v.ack

RowFits(r, v, e, n, d) ==
    /\ KindFits(r) /\ OwnerFits(r) /\ HistoryFits(r, v, e, n) /\ VerdictFits(r, v)
    /\ r.state = "absent" => r.kind = None /\ v = NoVerdict /\ e = None /\ n = 0 /\ ~ d
    /\ d => r.kind = "upload" \/ r.state = "forgotten"

LiveInv == \A i \in Ids : RowFits(uploads[i], verdicts[i], events[i], claims[i], i \in deleting)


LEMMA NoneIsNoKind == None \notin Kinds \union OwnerStates
BY NullAssumption

LEMMA InitLive == Init => LiveInv
<1> SUFFICES ASSUME Init, NEW i \in Ids
             PROVE  RowFits(Absent, NoVerdict, None, 0, i \in {})
  BY DEF Init, LiveInv
<1> QED
  BY StatesDisjoint, NoneIsNoKind
     DEF RowFits, KindFits, OwnerFits, HistoryFits, VerdictFits, Absent, Kinds

\* Writing one row, with or without a claim, keeps the others as they fit.
LEMMA PutLive ==
    ASSUME TypeOK, LiveInv, NEW i \in Ids, NEW row, Put(i, row),
           claims' \in [Ids -> Nat], \A j \in Ids \ {i} : claims'[j] = claims[j],
           RowFits(row, verdicts[i], events[i], claims'[i], i \in deleting)
    PROVE  LiveInv'
<1> SUFFICES ASSUME NEW j \in Ids
             PROVE  RowFits(uploads'[j], verdicts'[j], events'[j], claims'[j], j \in deleting')
  BY DEF LiveInv
<1>1. UNCHANGED <<events, verdicts, deleting>> /\ uploads'[i] = row
      /\ (j # i => uploads'[j] = uploads[j])
  BY DEF Put, TypeOK
<1>2. CASE j = i
  BY <1>1, <1>2
<1>3. CASE j # i
  BY <1>1, <1>3 DEF LiveInv
<1> QED
  BY <1>2, <1>3

\* What is known of the row an action writes.
LEMMA LiveFacts ==
    ASSUME TypeOK, ClaimInv, LiveInv, NEW i \in Ids
    PROVE  /\ uploads[i] \in Row /\ claims[i] \in Nat /\ claims \in [Ids -> Nat]
           /\ RowFits(uploads[i], verdicts[i], events[i], claims[i], i \in deleting)
           /\ uploads[i].start \in PendingStates => claims[i] = 0
           /\ uploads[i].start = None /\ uploads[i].state # "forgotten" => claims[i] = 0
BY DEF TypeOK, LiveInv, ClaimInv, Startable, Unclaimed

\* Nothing is kept about a receipt that never was.
LEMMA FreshLive ==
    ASSUME LiveInv, NEW i \in Ids, Fresh(i)
    PROVE  verdicts[i] = NoVerdict /\ events[i] = None /\ claims[i] = 0 /\ i \notin deleting
BY DEF LiveInv, RowFits, Fresh, Absent

LEMMA NewFields ==
    ASSUME NEW i, NEW n, NEW p
    PROVE  LET row == NewUpload(i, n, p)
           IN  /\ row.kind = "upload" /\ row.state = "receiving" /\ row.start = None
               /\ ~ row.dismissed /\ ~ row.active /\ ~ row.ack /\ ~ row.replay
BY DEF NewUpload, Absent

LEMMA ReceivingLive == TypeOK /\ ClaimInv /\ LiveInv /\ Receiving => LiveInv'
<1> SUFFICES ASSUME TypeOK, ClaimInv, LiveInv, NEW i \in Ids,
                    \/ \E n \in Names, p \in Peers : Reserve(i, n, p)
                    \/ \E c \in Command : ReserveReplay(i, c)
                    \/ Seal(i) \/ Fail(i) \/ QueueReplay(i) \/ AbandonReplay(i)
             PROVE  LiveInv'
  BY DEF Receiving
<1> DEFINE fits(row, n) == RowFits(row, verdicts[i], events[i], n, i \in deleting)
<1>0. /\ uploads[i] \in Row /\ claims \in [Ids -> Nat]
      /\ RowFits(uploads[i], verdicts[i], events[i], claims[i], i \in deleting)
      /\ uploads[i].start \in PendingStates => claims[i] = 0
      /\ uploads[i].start = None /\ uploads[i].state # "forgotten" => claims[i] = 0
  BY LiveFacts
<1> USE StatesDisjoint, NoneIsNoKind
    DEF Row, RowFits, KindFits, OwnerFits, HistoryFits, VerdictFits, Kinds
<1>1. ASSUME NEW n \in Names, NEW p \in Peers, Reserve(i, n, p) PROVE LiveInv'
  <2>1. RowFits(NewUpload(i, n, p), verdicts[i], events[i], claims[i], i \in deleting)
    BY <1>0, <1>1, FreshLive, NewFields DEF Reserve
  <2> QED
    BY <1>0, <1>1, <2>1, PutLive DEF Reserve
<1>2. ASSUME NEW c \in Command, ReserveReplay(i, c) PROVE LiveInv'
  <2> DEFINE row == [NewUpload(i, None, None) EXCEPT
                       !.replay = TRUE, !.cmd = c, !.start = "reserved"]
  <2>1. RowFits(row, verdicts[i], events[i], claims[i], i \in deleting)
    <3>1. /\ row.kind = "upload" /\ row.state = "receiving" /\ row.start = "reserved"
          /\ ~ row.dismissed /\ ~ row.active /\ ~ row.ack
      BY DEF NewUpload, Absent
    <3>2. /\ row.replay
          /\ verdicts[i] = NoVerdict /\ events[i] = None /\ claims[i] = 0 /\ i \notin deleting
      BY <1>2, FreshLive DEF ReserveReplay, NewUpload, Absent
    <3>3. "reserved" \notin TrackedStates
      BY DEF TrackedStates
    <3> HIDE DEF row
    <3> QED
      BY <3>1, <3>2, <3>3
  <2> QED
    BY <1>0, <1>2, <2>1, PutLive DEF ReserveReplay
<1>3. CASE Seal(i)
  <2> DEFINE row == [uploads[i] EXCEPT !.state = "stored", !.sealed = TRUE]
  <2>1. RowFits(row, verdicts[i], events[i], claims[i], i \in deleting)
    BY <1>0, <1>3 DEF Seal
  <2> QED
    BY <1>0, <1>3, <2>1, PutLive DEF Seal
<1>4. CASE Fail(i)
  <2> DEFINE row == [uploads[i] EXCEPT
                 !.state = "failed", !.dismissed = FALSE,
                 !.start = IF @ \in PendingStates THEN "blocked" ELSE @]
  <2>1. RowFits(row, verdicts[i], events[i], claims[i], i \in deleting)
    BY <1>0, <1>4 DEF Fail, OwnerStates, TerminalStates
  <2> QED
    BY <1>0, <1>4, <2>1, PutLive DEF Fail
<1>5. CASE QueueReplay(i)
  <2> DEFINE row == [uploads[i] EXCEPT !.start = "queued", !.age = 0]
  <2>1. RowFits(row, verdicts[i], events[i], claims[i], i \in deleting)
    BY <1>0, <1>5 DEF QueueReplay, OwnerStates, PendingStates
  <2> QED
    BY <1>0, <1>5, <2>1, PutLive DEF QueueReplay
<1>6. CASE AbandonReplay(i)
  <2> DEFINE row == [uploads[i] EXCEPT !.state = "failed", !.start = "cancelled"]
  <2>1. RowFits(row, verdicts[i], events[i], claims[i], i \in deleting)
    BY <1>0, <1>6 DEF AbandonReplay, OwnerStates, TerminalStates
  <2> QED
    BY <1>0, <1>6, <2>1, PutLive DEF AbandonReplay
<1> QED
  BY <1>1, <1>2, <1>3, <1>4, <1>5, <1>6

\* A claim: the row is fenced, and has been published once more.
LEMMA ClaimedLive ==
    ASSUME TypeOK, LiveInv, NEW i \in Ids, NEW row \in Row, Claimed(i, row),
           \A n \in Nat \ {0} :
               RowFits([row EXCEPT !.start = "dispatching", !.dispatched = TRUE, !.age = 0],
                       verdicts[i], events[i], n, i \in deleting)
    PROVE  LiveInv'
<1>1. claims \in [Ids -> Nat] /\ claims'[i] \in Nat \ {0}
  BY DEF Claimed, TypeOK
<1>2. claims' \in [Ids -> Nat] /\ \A j \in Ids \ {i} : claims'[j] = claims[j]
  BY <1>1 DEF Claimed
<1> QED
  BY <1>1, <1>2, PutLive DEF Claimed

LEMMA ExternalFields ==
    ASSUME NEW c
    PROVE  LET row == NewExternal(c)
           IN  /\ row.kind = "external" /\ row.state = "external" /\ row.start = None
               /\ ~ row.dismissed /\ ~ row.active /\ ~ row.ack /\ ~ row.replay
BY DEF NewExternal, Absent

LEMMA HoldLive ==
    ASSUME TypeOK, ClaimInv, LiveInv, NEW p \in Peers, NEW c \in Command, HoldStart(p, c)
    PROVE  LiveInv'
<1> DEFINE i == Newest(Candidates(c.name, p))
<1>1. /\ Put(i, Held(i, c)) /\ claims' = claims
      /\ uploads[i].state \in {"stored", "delivering", "delivered"}
  BY DEF HoldStart
<1>2. CASE i \in Ids
  <2>1. /\ uploads[i] \in Row /\ claims \in [Ids -> Nat]
        /\ RowFits(uploads[i], verdicts[i], events[i], claims[i], i \in deleting)
        /\ uploads[i].start = None /\ uploads[i].state # "forgotten" => claims[i] = 0
    BY <1>2, LiveFacts
  <2> HIDE DEF i
  <2>2. RowFits(Held(i, c), verdicts[i], events[i], claims[i], i \in deleting)
    BY <1>1, <2>1, StatesDisjoint, NoneIsNoKind
       DEF Held, Row, Kinds, RowFits, KindFits, OwnerFits, HistoryFits, VerdictFits,
           OwnerStates, TrackedStates
  <2> QED
    BY <1>1, <1>2, <2>1, <2>2, PutLive
<1>3. CASE i \notin Ids
  <2> HIDE DEF i
  <2>1. uploads' = uploads /\ UNCHANGED <<events, verdicts, deleting, claims>>
    BY <1>1, <1>3 DEF Put, TypeOK
  <2> QED
    BY <2>1 DEF LiveInv
<1> QED
  BY <1>2, <1>3

LEMMA StartingLive == TypeOK /\ ClaimInv /\ LiveInv /\ Starting => LiveInv'
<1> SUFFICES ASSUME TypeOK, ClaimInv, LiveInv, NEW i \in Ids,
                    \/ BeginDelivery(i) \/ Delivered(i) \/ FreezeAccounting(i)
                    \/ BlockStart(i) \/ ClaimStart(i)
                    \/ \E outcome \in {"sent", "unknown"} : Dispatched(i, outcome)
                    \/ ReserveExternal(i) \/ AbandonReserved(i)
                    \/ \E c \in Command : \/ ClaimExternal(i, c)
                                          \/ ActivateReserved(i, c)
                                          \/ AdoptRunningPrint(i, c)
             PROVE  LiveInv'
  BY HoldLive DEF Starting
<1>0. /\ uploads[i] \in Row /\ claims \in [Ids -> Nat] /\ claims[i] \in Nat
      /\ RowFits(uploads[i], verdicts[i], events[i], claims[i], i \in deleting)
      /\ uploads[i].start \in PendingStates => claims[i] = 0
      /\ uploads[i].start = None /\ uploads[i].state # "forgotten" => claims[i] = 0
  BY LiveFacts
<1> USE StatesDisjoint, NoneIsNoKind
    DEF RowFits, KindFits, OwnerFits, HistoryFits, VerdictFits, Kinds
<1>1. CASE BeginDelivery(i)
  <2> DEFINE row == [uploads[i] EXCEPT !.state = "delivering"]
  <2>1. RowFits(row, verdicts[i], events[i], claims[i], i \in deleting)
    BY <1>0, <1>1 DEF BeginDelivery, Row
  <2> QED
    BY <1>0, <1>1, <2>1, PutLive DEF BeginDelivery
<1>2. CASE Delivered(i)
  <2> DEFINE row == [uploads[i] EXCEPT !.state = "delivered"]
  <2>1. RowFits(row, verdicts[i], events[i], claims[i], i \in deleting)
    BY <1>0, <1>2 DEF Delivered, Row
  <2> QED
    BY <1>0, <1>2, <2>1, PutLive DEF Delivered
<1>3. CASE FreezeAccounting(i)
  <2> DEFINE row == [uploads[i] EXCEPT !.frozen = TRUE]
  <2>1. RowFits(row, verdicts[i], events[i], claims[i], i \in deleting)
    BY <1>0, <1>3 DEF FreezeAccounting, Row
  <2> QED
    BY <1>0, <1>3, <2>1, PutLive DEF FreezeAccounting
<1>4. CASE BlockStart(i)
  <2> DEFINE row == [uploads[i] EXCEPT !.start = "blocked", !.dismissed = FALSE]
  <2>1. RowFits(row, verdicts[i], events[i], claims[i], i \in deleting)
    BY <1>0, <1>4 DEF BlockStart, Row, OwnerStates, PendingStates, TerminalStates
  <2> QED
    BY <1>0, <1>4, <2>1, PutLive DEF BlockStart
<1>5. CASE ClaimStart(i)
  <2> DEFINE row == [uploads[i] EXCEPT !.start = "dispatching", !.dispatched = TRUE, !.age = 0]
  <2>1. ASSUME NEW n \in Nat \ {0}
        PROVE  RowFits(row, verdicts[i], events[i], n, i \in deleting)
    BY <1>0, <1>5 DEF ClaimStart, Row, OwnerStates, PendingStates, TrackedStates
  <2> QED
    BY <1>0, <1>5, <2>1, ClaimedLive DEF ClaimStart
<1>6. ASSUME NEW outcome \in {"sent", "unknown"}, Dispatched(i, outcome) PROVE LiveInv'
  <2> DEFINE row == [uploads[i] EXCEPT !.start = outcome]
  <2>1. RowFits(row, verdicts[i], events[i], claims[i], i \in deleting)
    BY <1>0, <1>6 DEF Dispatched, Row, OwnerStates, TrackedStates
  <2> QED
    BY <1>0, <1>6, <2>1, PutLive DEF Dispatched, PutStart
<1>7. CASE ReserveExternal(i)
  <2> DEFINE row == [NewExternal(None) EXCEPT !.start = "reserved", !.dispatched = TRUE]
  <2>1. /\ row.kind = "external" /\ row.state = "external" /\ row.start = "reserved"
        /\ ~ row.dismissed /\ ~ row.active /\ ~ row.ack /\ ~ row.replay
    BY DEF NewExternal, Absent
  <2>2. Put(i, row) /\ claims' = claims /\ Fresh(i)
    BY <1>7 DEF ReserveExternal
  <2>3. "reserved" \notin TrackedStates
    BY DEF TrackedStates
  <2> HIDE DEF row
  <2>4. RowFits(row, verdicts[i], events[i], claims[i], i \in deleting)
    BY <2>1, <2>2, <2>3, FreshLive
  <2> QED
    BY <1>0, <2>2, <2>4, PutLive
<1>8. CASE AbandonReserved(i)
  <2> DEFINE row == [uploads[i] EXCEPT !.start = "cancelled"]
  <2>1. RowFits(row, verdicts[i], events[i], claims[i], i \in deleting)
    BY <1>0, <1>8 DEF AbandonReserved, Row, OwnerStates, PendingStates, TerminalStates
  <2> QED
    BY <1>0, <1>8, <2>1, PutLive DEF AbandonReserved, PutStart
<1>9. ASSUME NEW c \in Command, ClaimExternal(i, c) PROVE LiveInv'
  <2> DEFINE row == [NewExternal(c) EXCEPT !.start = "dispatching", !.dispatched = TRUE, !.age = 0]
  <2>1. /\ row.kind = "external" /\ row.state = "external" /\ row.start = "dispatching"
        /\ ~ row.dismissed /\ ~ row.active /\ ~ row.ack /\ ~ row.replay
    BY DEF NewExternal, Absent
  <2>2. Claimed(i, NewExternal(c)) /\ Fresh(i) /\ NewExternal(c) \in Row
    BY <1>9, NewRowsTyped DEF ClaimExternal
  <2> HIDE DEF row
  <2>3. ASSUME NEW n \in Nat \ {0}
        PROVE  RowFits(row, verdicts[i], events[i], n, i \in deleting)
    BY <2>1, <2>2, FreshLive
  <2> USE DEF row
  <2> QED
    BY <2>2, <2>3, ClaimedLive
<1>10. ASSUME NEW c \in Command, ActivateReserved(i, c) PROVE LiveInv'
  <2> DEFINE named == [uploads[i] EXCEPT !.cmd = c, !.name = c.name]
             row == [named EXCEPT !.start = "dispatching", !.dispatched = TRUE, !.age = 0]
  <2>0. c.name \in Names /\ named \in Row
    BY <1>0 DEF Command, Row
  <2>1. /\ row.kind = "external" /\ row.state = uploads[i].state /\ row.start = "dispatching"
        /\ row.dismissed = uploads[i].dismissed /\ row.replay = uploads[i].replay
        /\ row.active = uploads[i].active /\ row.ack = uploads[i].ack
        /\ row.frozen = uploads[i].frozen
    BY <1>0, <1>10 DEF ActivateReserved, Row
  <2>2. Claimed(i, named) /\ uploads[i].kind = "external" /\ uploads[i].start = "reserved"
    BY <1>10 DEF ActivateReserved
  <2>3. "reserved" \in PendingStates /\ "reserved" # "resolved"
    BY DEF PendingStates
  <2> HIDE DEF row, named
  <2>4. ASSUME NEW n \in Nat \ {0}
        PROVE  RowFits(row, verdicts[i], events[i], n, i \in deleting)
    BY <1>0, <2>1, <2>2, <2>3 DEF OwnerStates, TerminalStates
  <2> USE DEF row
  <2> QED
    BY <2>0, <2>2, <2>4, ClaimedLive
<1>11. ASSUME NEW c \in Command, AdoptRunningPrint(i, c) PROVE LiveInv'
  <2> DEFINE row == [NewExternal(c) EXCEPT
                       !.kind = "observed", !.start = "running", !.sealed = TRUE,
                       !.frozen = TRUE, !.ack = TRUE, !.active = TRUE,
                       !.dispatched = TRUE]
  <2>1. /\ row.kind = "observed" /\ row.state = "external" /\ row.start = "running"
        /\ ~ row.dismissed /\ row.active /\ row.ack /\ ~ row.replay
    BY DEF NewExternal, Absent
  <2>2. Put(i, row) /\ claims' = claims /\ Fresh(i)
    BY <1>11 DEF AdoptRunningPrint
  <2> HIDE DEF row
  <2>4. RowFits(row, verdicts[i], events[i], claims[i], i \in deleting)
    BY <2>1, <2>2, FreshLive
  <2> QED
    BY <1>0, <2>2, <2>4, PutLive
<1> QED
  BY <1>1, <1>2, <1>3, <1>4, <1>5, <1>6, <1>7, <1>8, <1>9, <1>10, <1>11

\* What observe() decides for a tracked row fits it.
LEMMA LifecycleFits ==
    ASSUME TypeOK, LiveInv, NEW i \in Ids, NEW e \in Evidence,
           uploads[i].start \in TrackedStates
    PROVE  /\ VerdictFits(uploads[i], Lifecycle(i, e))
           /\ HistoryFits(uploads[i], Lifecycle(i, e), events[i], claims[i])
<1>0. uploads[i] \in Row /\ RowFits(uploads[i], verdicts[i], events[i], claims[i], i \in deleting)
  BY DEF TypeOK, LiveInv
<1>1. /\ uploads[i].active => Lifecycle(i, e).active
      /\ uploads[i].ack => Lifecycle(i, e).ack
  BY DEF Lifecycle
<1>2. Lifecycle(i, e).start = "completed" => Lifecycle(i, e).active /\ Lifecycle(i, e).ack
  <2>1. uploads[i].start # "completed"
    BY DEF TrackedStates
  <2>2. uploads[i].kind = "observed" => uploads[i].ack /\ uploads[i].active
    BY <1>0 DEF RowFits, KindFits
  <2> QED
    BY <2>1, <2>2 DEF Lifecycle, Over
<1>3. uploads[i].kind # None => ~ uploads[i].dismissed
  BY <1>0 DEF RowFits, OwnerFits, OwnerStates
<1> HIDE DEF Lifecycle
<1> QED
  BY <1>0, <1>1, <1>2, <1>3 DEF RowFits, VerdictFits, HistoryFits

\* Writing a decision that fits leaves a row that fits.
LEMMA WrittenFits ==
    ASSUME NEW r \in Row, NEW v \in Verdict, NEW e, NEW n \in Nat, NEW i, NEW e2,
           RowFits(r, v, e, n, i \in deleting), r.kind # None, v # NoVerdict,
           v.start \in TrackedStates \union TerminalStates,
           \/ e2 = e
           \/ r.frozen /\ e2 = IF v.start = "completed" THEN "completed" ELSE "interrupted"
    PROVE  RowFits([r EXCEPT !.start = v.start, !.ack = v.ack, !.active = v.active],
                   NoVerdict, e2, n, i \in deleting)
<1> DEFINE w == [r EXCEPT !.start = v.start, !.ack = v.ack, !.active = v.active]
<1>1. /\ w.kind = r.kind /\ w.state = r.state /\ w.sealed = r.sealed /\ w.replay = r.replay
      /\ w.dismissed = r.dismissed /\ w.frozen = r.frozen
      /\ w.start = v.start /\ w.ack = v.ack /\ w.active = v.active
  BY DEF Row
<1>2. /\ KindFits(r) /\ HistoryFits(r, v, e, n) /\ VerdictFits(r, v)
      /\ r.state # "absent" /\ (i \in deleting => r.kind = "upload" \/ r.state = "forgotten")
  BY DEF RowFits
<1>3. ~ r.dismissed /\ (n > 0 \/ r.kind = "observed") /\ r.kind \in Kinds
  BY <1>2 DEF VerdictFits, HistoryFits, Row
<1>4. r.state # "failed"
  BY <1>2, <1>3 DEF KindFits, HistoryFits, Kinds
<1> HIDE DEF w
<1>5. KindFits(w) /\ OwnerFits(w)
  BY <1>1, <1>2, <1>3, <1>4 DEF KindFits, OwnerFits, VerdictFits
<1>6. HistoryFits(w, NoVerdict, e2, n)
  BY <1>1, <1>2, <1>3 DEF HistoryFits, VerdictFits
<1>7. VerdictFits(w, NoVerdict)
  BY DEF VerdictFits
<1> QED
  BY <1>1, <1>2, <1>5, <1>6, <1>7 DEF RowFits, w

LEMMA ObservingLive == TypeOK /\ ClaimInv /\ LiveInv /\ Observing => LiveInv'
<1> SUFFICES ASSUME TypeOK, ClaimInv, LiveInv, Observing PROVE LiveInv'
  OBVIOUS
<1>0. \A i \in Ids :
        /\ uploads[i] \in Row /\ claims[i] \in Nat /\ claims \in [Ids -> Nat]
        /\ RowFits(uploads[i], verdicts[i], events[i], claims[i], i \in deleting)
  BY LiveFacts
<1>1. ASSUME NEW e \in Evidence, ObserveRead(e) PROVE LiveInv'
  <2> SUFFICES ASSUME NEW i \in Ids
               PROVE  RowFits(uploads[i], verdicts'[i], events[i], claims[i], i \in deleting)
    BY <1>1 DEF ObserveRead, LiveInv
  <2>1. verdicts'[i] = NoVerdict \/ (/\ uploads[i].start \in TrackedStates
                                     /\ verdicts'[i] = Lifecycle(i, e))
    BY <1>1 DEF ObserveRead
  <2>2. verdicts[i] = NoVerdict
    BY <1>1 DEF ObserveRead
  <2>3. CASE verdicts'[i] = NoVerdict
    BY <1>0, <2>2, <2>3
  <2>4. CASE uploads[i].start \in TrackedStates /\ verdicts'[i] = Lifecycle(i, e)
    <3>1. uploads[i].state # "absent"
      BY <1>0, <2>4, StatesDisjoint DEF RowFits, KindFits
    <3> QED
      BY <1>0, <2>4, <3>1, LifecycleFits DEF RowFits
  <2> QED
    BY <2>1, <2>3, <2>4
<1>2. CASE ObserveWrite
  <2> SUFFICES ASSUME NEW i \in Ids
               PROVE  RowFits(uploads'[i], NoVerdict, events'[i], claims[i], i \in deleting)
    BY <1>2 DEF ObserveWrite, LiveInv
  <2>1. CASE verdicts[i] # NoVerdict /\ Present(i)
    <3>1. /\ uploads'[i] = [uploads[i] EXCEPT !.start = verdicts[i].start,
                                              !.ack = verdicts[i].ack,
                                              !.active = verdicts[i].active]
          /\ events'[i] = Recorded(i, verdicts[i].start, verdicts[i].ended)
      BY <1>2, <2>1 DEF ObserveWrite
    <3>2. \/ events'[i] = events[i]
          \/ /\ uploads[i].frozen
             /\ events'[i] = IF verdicts[i].start = "completed" THEN "completed"
                                                                ELSE "interrupted"
      BY <3>1 DEF Recorded
    <3>3. verdicts[i] \in Verdict /\ verdicts[i].start \in TrackedStates \union TerminalStates
      BY <2>1 DEF TypeOK, ClaimInv
    <3>4. RowFits([uploads[i] EXCEPT !.start = verdicts[i].start, !.ack = verdicts[i].ack,
                                     !.active = verdicts[i].active],
                  NoVerdict, events'[i], claims[i], i \in deleting)
      BY <1>0, <2>1, <3>2, <3>3, WrittenFits DEF Present
    <3> QED
      BY <3>1, <3>4
  <2>2. CASE ~ (verdicts[i] # NoVerdict /\ Present(i))
    <3>1. uploads'[i] = uploads[i] /\ events'[i] = events[i]
      BY <1>2, <2>2 DEF ObserveWrite
    <3> QED
      BY <1>0, <2>2, <3>1 DEF Present, RowFits, VerdictFits, HistoryFits
  <2> QED
    BY <2>1, <2>2
<1> USE StatesDisjoint, NoneIsNoKind
<1>3. CASE ExpireDispatch
  <2> SUFFICES ASSUME NEW i \in Ids
               PROVE  RowFits(uploads'[i], verdicts[i], events[i], claims[i], i \in deleting)
    BY <1>3 DEF ExpireDispatch, UpdateAll, LiveInv
  <2>1. \/ uploads'[i] = uploads[i]
        \/ /\ uploads[i].start \in {"dispatching", "sent", "accepted"}
           /\ uploads'[i] = [uploads[i] EXCEPT !.start = "unknown", !.dismissed = FALSE]
    BY <1>3 DEF ExpireDispatch, UpdateAll
  <2>2. ASSUME uploads[i].start \in {"dispatching", "sent", "accepted"}
        PROVE  RowFits([uploads[i] EXCEPT !.start = "unknown", !.dismissed = FALSE],
                       verdicts[i], events[i], claims[i], i \in deleting)
    <3> DEFINE w == [uploads[i] EXCEPT !.start = "unknown", !.dismissed = FALSE]
    <3>1. /\ w.kind = uploads[i].kind /\ w.state = uploads[i].state /\ w.start = "unknown"
          /\ w.sealed = uploads[i].sealed /\ w.replay = uploads[i].replay
          /\ w.frozen = uploads[i].frozen /\ ~ w.dismissed
          /\ w.ack = uploads[i].ack /\ w.active = uploads[i].active
      BY <1>0 DEF Row
    <3> HIDE DEF w
    <3> QED
      BY <1>0, <2>2, <3>1 DEF RowFits, KindFits, OwnerFits, HistoryFits, VerdictFits,
                              OwnerStates, PendingStates, TrackedStates, TerminalStates
  <2> QED
    BY <1>0, <2>1, <2>2
<1>4. CASE ExpireQueued
  <2> SUFFICES ASSUME NEW i \in Ids
               PROVE  RowFits(uploads'[i], verdicts[i], events[i], claims[i], i \in deleting)
    BY <1>4 DEF ExpireQueued, UpdateAll, LiveInv
  <2>1. \/ uploads'[i] = uploads[i]
        \/ /\ uploads[i].start \in PendingStates
           /\ uploads'[i] = [uploads[i] EXCEPT !.start = "blocked", !.dismissed = FALSE]
    BY <1>4 DEF ExpireQueued, UpdateAll
  <2>2. ASSUME uploads[i].start \in PendingStates
        PROVE  RowFits([uploads[i] EXCEPT !.start = "blocked", !.dismissed = FALSE],
                       verdicts[i], events[i], claims[i], i \in deleting)
    <3> DEFINE w == [uploads[i] EXCEPT !.start = "blocked", !.dismissed = FALSE]
    <3>1. /\ w.kind = uploads[i].kind /\ w.state = uploads[i].state /\ w.start = "blocked"
          /\ w.sealed = uploads[i].sealed /\ w.replay = uploads[i].replay
          /\ w.frozen = uploads[i].frozen /\ ~ w.dismissed
          /\ w.ack = uploads[i].ack /\ w.active = uploads[i].active
      BY <1>0 DEF Row
    <3> HIDE DEF w
    <3> QED
      BY <1>0, <2>2, <3>1 DEF RowFits, KindFits, OwnerFits, HistoryFits, VerdictFits,
                              OwnerStates, PendingStates, TrackedStates, TerminalStates
  <2> QED
    BY <1>0, <2>1, <2>2
<1>5. ASSUME NEW i \in Ids, Elapse(i) PROVE LiveInv'
  <2> DEFINE row == [uploads[i] EXCEPT !.age = @ + 1]
  <2>1. RowFits(row, verdicts[i], events[i], claims[i], i \in deleting)
    BY <1>0 DEF Row, RowFits, KindFits, OwnerFits, HistoryFits, VerdictFits
  <2> QED
    BY <1>0, <1>5, <2>1, PutLive DEF Elapse
<1> QED
  BY <1>1, <1>2, <1>3, <1>4, <1>5 DEF Observing

LEMMA ManagingLive == TypeOK /\ ClaimInv /\ LiveInv /\ Managing => LiveInv'
<1> SUFFICES ASSUME TypeOK, ClaimInv, LiveInv, Managing PROVE LiveInv'
  OBVIOUS
<1>0. \A i \in Ids :
        /\ uploads[i] \in Row /\ claims[i] \in Nat /\ claims \in [Ids -> Nat]
        /\ RowFits(uploads[i], verdicts[i], events[i], claims[i], i \in deleting)
  BY LiveFacts
<1> USE StatesDisjoint, NoneIsNoKind
    DEF RowFits, KindFits, OwnerFits, HistoryFits, VerdictFits, Kinds
<1>1. ASSUME NEW i \in Ids,
             \/ ResolveRead(i) \/ Cancel(i) \/ RetryDelivery(i) \/ Discard(i)
             \/ DeletedDiscard(i) \/ DeletedMark(i) \/ PruneLocal(i) \/ PruneReceipt(i)
      PROVE  LiveInv'
  <2>1. CASE ResolveRead(i)
    BY <2>1 DEF ResolveRead, LiveInv
  <2>2. CASE Cancel(i)
    <3> DEFINE row == [uploads[i] EXCEPT !.start = "cancelled"]
    <3>1. RowFits(row, verdicts[i], events[i], claims[i], i \in deleting)
      BY <1>0, <2>2 DEF Cancel, Row, OwnerStates, PendingStates, TerminalStates
    <3> QED
      BY <1>0, <2>2, <3>1, PutLive DEF Cancel, PutStart
  <2>3. CASE RetryDelivery(i)
    <3> DEFINE row == [uploads[i] EXCEPT !.state = "stored", !.dismissed = FALSE]
    <3>1. RowFits(row, verdicts[i], events[i], claims[i], i \in deleting)
      BY <1>0, <2>3 DEF RetryDelivery, Row, TrackedStates
    <3> QED
      BY <1>0, <2>3, <3>1, PutLive DEF RetryDelivery
  <2>4. CASE Discard(i)
    <3> DEFINE row == [uploads[i] EXCEPT !.retained = FALSE]
    <3>1. RowFits(row, verdicts[i], events[i], claims[i], i \in deleting)
      BY <1>0 DEF Row
    <3> QED
      BY <1>0, <2>4, <3>1, PutLive DEF Discard
  <2>5. CASE DeletedDiscard(i)
    <3> SUFFICES ASSUME NEW j \in Ids
                 PROVE  RowFits(uploads'[j], verdicts[j], events[j], claims[j], j \in deleting')
      BY <2>5 DEF DeletedDiscard, LiveInv
    <3>1. /\ \/ uploads'[j] = uploads[j]
             \/ uploads'[j] = [uploads[j] EXCEPT !.retained = FALSE]
          /\ j \in deleting' => j \in deleting \/ uploads[j].kind = "upload"
      BY <2>5 DEF DeletedDiscard, TypeOK
    <3>2. j \in deleting' <=> j \in deleting' /\ TRUE
      OBVIOUS
    <3> QED
      BY <1>0, <3>1 DEF Row
  <2>6. CASE DeletedMark(i)
    <3> SUFFICES ASSUME NEW j \in Ids
                 PROVE  RowFits(uploads'[j], verdicts[j], events[j], claims[j], j \in deleting')
      BY <2>6 DEF DeletedMark, LiveInv
    <3>1. CASE j # i
      <4>1. uploads'[j] = uploads[j] /\ (j \in deleting' <=> j \in deleting)
        BY <2>6, <3>1 DEF DeletedMark, TypeOK
      <4> QED
        BY <1>0, <4>1
    <3>2. CASE j = i
      <4>1. /\ j \in deleting /\ j \notin deleting'
            /\ uploads'[j] = [uploads[j] EXCEPT !.state = IF @ = "forgotten" THEN @ ELSE "deleted"]
        BY <2>6, <3>2 DEF DeletedMark, TypeOK
      <4> QED
        BY <1>0, <4>1 DEF Row
    <3> QED
      BY <3>1, <3>2
  <2>7. CASE PruneLocal(i)
    <3> DEFINE row == [uploads[i] EXCEPT !.retained = FALSE]
    <3>1. RowFits(row, verdicts[i], events[i], claims[i], i \in deleting)
      BY <1>0 DEF Row
    <3> QED
      BY <1>0, <2>7, <3>1, PutLive DEF PruneLocal
  <2>8. CASE PruneReceipt(i)
    <3> DEFINE row == [Absent EXCEPT !.state = "forgotten", !.rowid = uploads[i].rowid]
    <3>1. /\ row.kind = None /\ row.state = "forgotten" /\ row.start = None /\ ~ row.replay
          /\ ~ row.dismissed /\ ~ row.active /\ ~ row.ack
      BY DEF Absent
    <3>2. Put(i, row) /\ claims' = claims
      BY <2>8 DEF PruneReceipt
    <3> HIDE DEF row
    <3>3. RowFits(row, verdicts[i], events[i], claims[i], i \in deleting)
      BY <1>0, <3>1
    <3> QED
      BY <1>0, <3>2, <3>3, PutLive
  <2> QED
    BY <1>1, <2>1, <2>2, <2>3, <2>4, <2>5, <2>6, <2>7, <2>8
<1>2. CASE ResolveWrite
  <2> SUFFICES ASSUME NEW i \in Ids
               PROVE  RowFits(uploads'[i], verdicts[i], events[i], claims[i], i \in deleting)
    BY <1>2 DEF ResolveWrite, LiveInv
  <2>1. \/ uploads'[i] = uploads[i]
        \/ uploads[i].kind # None /\ uploads'[i] = [uploads[i] EXCEPT !.start = "resolved"]
    BY <1>2 DEF ResolveWrite, Present, TypeOK
  <2>2. "resolved" \in TerminalStates
    BY DEF TerminalStates
  <2> QED
    BY <1>0, <2>1, <2>2 DEF Row, OwnerStates
<1>3. CASE CancelQueued
  <2> SUFFICES ASSUME NEW i \in Ids
               PROVE  RowFits(uploads'[i], verdicts[i], events[i], claims[i], i \in deleting)
    BY <1>3 DEF CancelQueued, UpdateAll, LiveInv
  <2>1. \/ uploads'[i] = uploads[i]
        \/ /\ uploads[i].start = "queued"
           /\ uploads'[i] = [uploads[i] EXCEPT !.start = "cancelled"]
    BY <1>3 DEF CancelQueued, UpdateAll
  <2> QED
    BY <1>0, <2>1 DEF Row, OwnerStates, PendingStates, TerminalStates
<1>4. CASE AcknowledgePastReviews
  <2> SUFFICES ASSUME NEW i \in Ids
               PROVE  RowFits(uploads'[i], verdicts[i], events[i], claims[i], i \in deleting)
    BY <1>4 DEF AcknowledgePastReviews, UpdateAll, LiveInv
  <2>1. \/ uploads'[i] = uploads[i]
        \/ /\ uploads[i].kind # None /\ NeedsReview(i) /\ ~ Owns(i)
           /\ uploads'[i] = [uploads[i] EXCEPT !.dismissed = TRUE]
    BY <1>4 DEF AcknowledgePastReviews, UpdateAll, Present
  <2>2. CASE uploads'[i] = uploads[i]
    BY <1>0, <2>2
  <2>3. CASE /\ uploads[i].kind # None /\ NeedsReview(i) /\ ~ Owns(i)
             /\ uploads'[i] = [uploads[i] EXCEPT !.dismissed = TRUE]
    <3>1. uploads[i].state = "failed" \/ uploads[i].start = "blocked"
      BY <2>3 DEF NeedsReview, Owns, OwnerStates, TrackedStates
    <3>2. uploads[i].start \notin TrackedStates /\ uploads[i].start \notin OwnerStates
      BY <2>3 DEF Owns, OwnerStates
    <3>3. verdicts[i] = NoVerdict
      BY <1>0, <2>3, <3>1, <3>2 DEF Row
    <3> QED
      BY <1>0, <2>3, <3>1, <3>2, <3>3 DEF Row, TerminalStates
  <2> QED
    BY <2>1, <2>2, <2>3
<1>5. CASE Restart
  <2> SUFFICES ASSUME NEW i \in Ids
               PROVE  RowFits(Recovered(uploads[i]), NoVerdict, events[i], claims[i], i \in {})
    BY <1>5 DEF Restart, LiveInv
  <2> DEFINE r == uploads[i]
             w == Recovered(uploads[i])
  <2>1. /\ w.kind = r.kind /\ w.sealed = r.sealed /\ w.replay = r.replay
        /\ w.dismissed = r.dismissed /\ w.frozen = r.frozen
        /\ w.ack = r.ack /\ w.active = r.active
        /\ w.state = IF r.state \in {"receiving", "delivering"} THEN "failed" ELSE r.state
        /\ w.start = CASE r.start = "dispatching" -> "unknown"
                       [] w.state = "failed" /\ r.start \in PendingStates -> "blocked"
                       [] w.state # "failed" /\ r.start = "reserved" -> "cancelled"
                       [] OTHER -> r.start
    BY <1>0 DEF Row, Recovered
  <2> HIDE DEF w
  <2>2. r.kind \in {None} \union Kinds
    BY <1>0 DEF Row
  <2>3. KindFits(w)
    BY <1>0, <2>1, <2>2 DEF OwnerStates, TrackedStates, PendingStates
  <2>4. OwnerFits(w)
    BY <1>0, <2>1, <2>2 DEF OwnerStates, TrackedStates, PendingStates, TerminalStates
  <2>5. HistoryFits(w, NoVerdict, events[i], claims[i])
    BY <1>0, <2>1, <2>2 DEF TrackedStates, PendingStates
  <2>6. w.state = "absent" => w.kind = None /\ events[i] = None /\ claims[i] = 0
    BY <1>0, <2>1
  <2>7. RowFits(w, NoVerdict, events[i], claims[i], i \in {})
    BY <2>3, <2>4, <2>5, <2>6
  <2> QED
    BY <2>7 DEF w
<1> QED
  BY <1>1, <1>2, <1>3, <1>4, <1>5 DEF Managing

LEMMA LiveInvHolds == Spec => []LiveInv
<1>1. TypeOK /\ ClaimInv /\ LiveInv /\ [Next]_inboxVars => LiveInv'
  <2>1. TypeOK /\ ClaimInv /\ LiveInv /\ Next => LiveInv'
    BY ReceivingLive, StartingLive, ObservingLive, ManagingLive DEF Next
  <2>2. LiveInv /\ UNCHANGED inboxVars => LiveInv'
    BY DEF inboxVars, LiveInv
  <2> QED
    BY <2>1, <2>2
<1> QED
  BY InitLive, <1>1, TypeCorrect, ClaimInvHolds, PTL DEF Spec

\* Whatever callers there are: no row keeps the printer after its transfer failed, and no
\* dismissed warning belongs to a row that keeps it (fail(), recover(), retry_delivery(),
\* acknowledge_past_reviews()).
THEOREM OwnersStayLive == Spec => []OwnersAreLive
<1>1. TypeOK /\ LiveInv => OwnersAreLive
  BY DEF LiveInv, RowFits, OwnerFits, OwnersAreLive, FailedNeverOwns, NoHiddenOwner, Owns
<1> QED
  BY <1>1, LiveInvHolds, TypeCorrect, PTL

\* Whatever callers there are: a start was published only for a file received whole and
\* delivered, and an accounting event belongs to a print that was published or adopted, a
\* completed one to a print that was seen to work (claim_start(), observe(), the trigger).
THEOREM OnlyRealStarts == Spec => []StartsWereReal
<1>1. TypeOK /\ LiveInv => StartsWereReal
  <2> SUFFICES ASSUME TypeOK, LiveInv, NEW i \in Ids
               PROVE  /\ uploads[i].kind = "upload" /\ claims[i] > 0
                         => uploads[i].sealed /\ uploads[i].state \in {"delivered", "deleted"}
                      /\ events[i] # None /\ Present(i) =>
                            /\ uploads[i].frozen
                            /\ claims[i] > 0 \/ uploads[i].kind = "observed"
                            /\ events[i] = "completed" => uploads[i].active /\ uploads[i].ack
    BY DEF StartsWereReal, DispatchedWasDelivered, ChargedPrintRan
  <2> QED
    BY DEF LiveInv, RowFits, HistoryFits, Present
<1> QED
  BY <1>1, LiveInvHolds, TypeCorrect, PTL

(***************************************************************************)
(* A queued start can be claimed, as long as no file is deleted under it.  *)
(***************************************************************************)
QueuedInv == deleting = {} /\ QueuedCanBeClaimed

\* A write to one row that queues only what has its file on the way.
LEMMA PutQueued ==
    ASSUME TypeOK, QueuedInv, NEW i \in Ids, NEW row, Put(i, row),
           row.start = "queued" => row.state \in {"stored", "delivering", "delivered"}
    PROVE  QueuedInv'
BY DEF QueuedInv, QueuedCanBeClaimed, Put, TypeOK

LEMMA QueuedStep ==
    ASSUME "ftp_delete" \notin Callers, TypeOK, ClaimInv, QueuedInv, Next
    PROVE  QueuedInv'
<1> USE StatesDisjoint DEF QueuedInv, QueuedCanBeClaimed
<1>0. uploads \in [Ids -> Row]
  BY DEF TypeOK
<1>1. CASE Receiving
  <2> SUFFICES ASSUME NEW i \in Ids,
                    \/ \E n \in Names, p \in Peers : Reserve(i, n, p)
                    \/ \E c \in Command : ReserveReplay(i, c)
                    \/ Seal(i) \/ Fail(i) \/ QueueReplay(i) \/ AbandonReplay(i)
               PROVE  QueuedInv'
    BY <1>1 DEF Receiving
  <2>0. uploads[i] \in Row /\ None # "queued"
    BY <1>0 DEF PendingStates
  <2>1. ASSUME NEW n \in Names, NEW p \in Peers, Reserve(i, n, p) PROVE QueuedInv'
    BY <2>0, <2>1, NewFields, PutQueued DEF Reserve
  <2>2. ASSUME NEW c \in Command, ReserveReplay(i, c) PROVE QueuedInv'
    <3> DEFINE row == [NewUpload(i, None, None) EXCEPT
                         !.replay = TRUE, !.cmd = c, !.start = "reserved"]
    <3>1. row.start = "reserved"
      BY DEF NewUpload, Absent
    <3>2. Put(i, row)
      BY <2>2 DEF ReserveReplay
    <3> HIDE DEF row
    <3> QED
      BY <3>1, <3>2, PutQueued
  <2>3. CASE Seal(i)
    BY <2>0, <2>3, PutQueued DEF Seal, Row
  <2>4. CASE Fail(i)
    BY <2>0, <2>4, PutQueued DEF Fail, Row, PendingStates
  <2>5. CASE QueueReplay(i)
    BY <2>0, <2>5, PutQueued DEF QueueReplay, Row
  <2>6. CASE AbandonReplay(i)
    BY <2>0, <2>6, PutQueued DEF AbandonReplay, Row
  <2> QED
    BY <2>1, <2>2, <2>3, <2>4, <2>5, <2>6
<1>2. CASE Starting
  <2>1. ASSUME NEW p \in Peers, NEW c \in Command, HoldStart(p, c) PROVE QueuedInv'
    <3> DEFINE i == Newest(Candidates(c.name, p))
    <3>1. /\ Put(i, Held(i, c))
          /\ uploads[i].state \in {"stored", "delivering", "delivered"}
      BY <2>1 DEF HoldStart
    <3>2. CASE i \in Ids
      <4>1. uploads[i] \in Row
        BY <1>0, <3>2
      <4>2. Held(i, c).state = uploads[i].state
        BY <4>1 DEF Held, Row
      <4> HIDE DEF i
      <4> QED
        BY <3>1, <3>2, <4>2, PutQueued
    <3>3. CASE i \notin Ids
      <4> HIDE DEF i
      <4> QED
        BY <1>0, <3>1, <3>3 DEF Put
    <3> QED
      BY <3>2, <3>3
  <2> SUFFICES ASSUME NEW i \in Ids,
                    \/ BeginDelivery(i) \/ Delivered(i) \/ FreezeAccounting(i)
                    \/ BlockStart(i) \/ ClaimStart(i)
                    \/ \E outcome \in {"sent", "unknown"} : Dispatched(i, outcome)
                    \/ ReserveExternal(i) \/ AbandonReserved(i)
                    \/ \E c \in Command : \/ ClaimExternal(i, c)
                                          \/ ActivateReserved(i, c)
                                          \/ AdoptRunningPrint(i, c)
               PROVE  QueuedInv'
    BY <1>2, <2>1 DEF Starting
  <2>0. uploads[i] \in Row
    BY <1>0
  <2>2. CASE BeginDelivery(i) \/ Delivered(i) \/ FreezeAccounting(i)
    BY <2>0, <2>2, PutQueued DEF BeginDelivery, Delivered, FreezeAccounting, Row
  <2>3. CASE BlockStart(i) \/ AbandonReserved(i)
    BY <2>0, <2>3, PutQueued DEF BlockStart, AbandonReserved, PutStart, Row
  <2>4. CASE \E outcome \in {"sent", "unknown"} : Dispatched(i, outcome)
    BY <2>0, <2>4, PutQueued DEF Dispatched, PutStart, Row
  <2>5. CASE ClaimStart(i)
    BY <2>0, <2>5, PutQueued DEF ClaimStart, Claimed, Row
  <2>6. CASE ReserveExternal(i)
    BY <2>6, PutQueued DEF ReserveExternal, NewExternal, Absent
  <2>7. ASSUME NEW c \in Command, ClaimExternal(i, c) PROVE QueuedInv'
    BY <2>7, PutQueued DEF ClaimExternal, Claimed, NewExternal, Absent
  <2>8. ASSUME NEW c \in Command, ActivateReserved(i, c) PROVE QueuedInv'
    BY <2>0, <2>8, PutQueued DEF ActivateReserved, Claimed, Row
  <2>9. ASSUME NEW c \in Command, AdoptRunningPrint(i, c) PROVE QueuedInv'
    BY <2>9, PutQueued, ZenonT(40) DEF AdoptRunningPrint, NewExternal, Absent
  <2> QED
    BY <2>2, <2>3, <2>4, <2>5, <2>6, <2>7, <2>8, <2>9
<1>3. CASE Observing
  <2>1. CASE \E e \in Evidence : ObserveRead(e)
    BY <2>1 DEF ObserveRead
  <2>2. CASE ObserveWrite
    <3> SUFFICES ASSUME NEW i \in Ids, uploads'[i].start = "queued"
                 PROVE  uploads'[i].state \in {"stored", "delivering", "delivered"}
      BY <2>2 DEF ObserveWrite
    <3>1. \/ uploads'[i] = uploads[i]
          \/ /\ verdicts[i] # NoVerdict
             /\ uploads'[i] = [uploads[i] EXCEPT !.start = verdicts[i].start,
                                         !.ack = verdicts[i].ack, !.active = verdicts[i].active]
      BY <2>2 DEF ObserveWrite
    <3>2. verdicts[i] # NoVerdict => verdicts[i].start # "queued"
      BY DEF ClaimInv, PendingStates
    <3> DEFINE seen == [uploads[i] EXCEPT !.start = verdicts[i].start,
                              !.ack = verdicts[i].ack, !.active = verdicts[i].active]
    <3>5. uploads[i] \in Row
      BY <1>0
    <3>6. seen.start = verdicts[i].start
      BY <3>5 DEF Row
    <3>3. uploads'[i] # uploads[i] => uploads'[i].start = verdicts[i].start
      BY <3>1, <3>6
    <3>4. uploads'[i] = uploads[i]
      BY <3>1, <3>2, <3>3
    <3> QED
      BY <3>4
  <2>3. CASE ExpireDispatch
    <3>1. \A i \in Ids : uploads'[i] = uploads[i] \/ uploads'[i].start = "unknown"
      <4> TAKE i \in Ids
      <4>1. \/ uploads'[i] = uploads[i]
            \/ uploads'[i] = [uploads[i] EXCEPT !.start = "unknown", !.dismissed = FALSE]
        BY <2>3 DEF ExpireDispatch, UpdateAll
      <4>2. [uploads[i] EXCEPT !.start = "unknown", !.dismissed = FALSE].start = "unknown"
        BY <1>0 DEF Row
      <4> QED
        BY <4>1, <4>2
    <3> QED
      BY <2>3, <3>1 DEF ExpireDispatch, UpdateAll
  <2>4. CASE ExpireQueued
    <3>1. \A i \in Ids : uploads'[i] = uploads[i] \/ uploads'[i].start = "blocked"
      <4> TAKE i \in Ids
      <4>1. \/ uploads'[i] = uploads[i]
            \/ uploads'[i] = [uploads[i] EXCEPT !.start = "blocked", !.dismissed = FALSE]
        BY <2>4 DEF ExpireQueued, UpdateAll
      <4>2. [uploads[i] EXCEPT !.start = "blocked", !.dismissed = FALSE].start = "blocked"
        BY <1>0 DEF Row
      <4> QED
        BY <4>1, <4>2
    <3> QED
      BY <2>4, <3>1 DEF ExpireQueued, UpdateAll
  <2>5. ASSUME NEW i \in Ids, Elapse(i) PROVE QueuedInv'
    BY <1>0, <2>5, PutQueued DEF Elapse, Row
  <2> QED
    BY <1>3, <2>1, <2>2, <2>3, <2>4, <2>5 DEF Observing
<1>4. CASE Managing
  <2>1. ASSUME NEW i \in Ids,
               \/ ResolveRead(i) \/ Cancel(i) \/ RetryDelivery(i) \/ Discard(i)
               \/ DeletedDiscard(i) \/ DeletedMark(i) \/ PruneLocal(i) \/ PruneReceipt(i)
        PROVE  QueuedInv'
    <3>0. uploads[i] \in Row
      BY <1>0
    <3>1. CASE ResolveRead(i)
      BY <3>1 DEF ResolveRead
    <3>2. CASE Cancel(i)
      BY <3>0, <3>2, PutQueued DEF Cancel, PutStart, Row
    <3>3. CASE RetryDelivery(i) \/ Discard(i) \/ PruneLocal(i)
      BY <3>0, <3>3, PutQueued DEF RetryDelivery, Discard, PruneLocal, Row
    <3>4. CASE DeletedDiscard(i) \/ DeletedMark(i)
      BY <3>4 DEF DeletedDiscard, DeletedMark
    <3>5. CASE PruneReceipt(i)
      BY <3>5, PutQueued DEF PruneReceipt, Absent, PendingStates
    <3> QED
      BY <2>1, <3>1, <3>2, <3>3, <3>4, <3>5
  <2>2. CASE ResolveWrite
    <3>1. \A i \in Ids : uploads'[i] = uploads[i] \/ uploads'[i].start = "resolved"
      BY <1>0, <2>2 DEF ResolveWrite, Row
    <3> QED
      BY <2>2, <3>1 DEF ResolveWrite
  <2>3. CASE CancelQueued
    <3>1. \A i \in Ids : uploads'[i] = uploads[i] \/ uploads'[i].start = "cancelled"
      BY <1>0, <2>3 DEF CancelQueued, UpdateAll, Row
    <3> QED
      BY <2>3, <3>1 DEF CancelQueued, UpdateAll
  <2>4. CASE AcknowledgePastReviews
    <3>1. \A i \in Ids : /\ uploads'[i].start = uploads[i].start
                         /\ uploads'[i].state = uploads[i].state
      BY <1>0, <2>4 DEF AcknowledgePastReviews, UpdateAll, Row
    <3> QED
      BY <2>4, <3>1 DEF AcknowledgePastReviews, UpdateAll
  <2>5. CASE Restart
    <3> SUFFICES ASSUME NEW i \in Ids, Recovered(uploads[i]).start = "queued"
                 PROVE  Recovered(uploads[i]).state \in {"stored", "delivering", "delivered"}
      BY <2>5 DEF Restart
    <3> QED
      BY <1>0 DEF Recovered, Row, PendingStates
  <2> QED
    BY <1>4, <2>1, <2>2, <2>3, <2>4, <2>5 DEF Managing
<1> QED
  BY <1>1, <1>2, <1>3, <1>4 DEF Next

\* As long as no FTP client deletes uploads, the file of a queued start is on its way to
\* the printer or there: every failure of a transfer blocks the start (fail(), recover()).
\* With deletions the code breaks this (native_inbox.py:1183).
THEOREM QueuedStartsHaveFiles ==
    ASSUME "ftp_delete" \notin Callers
    PROVE  Spec => []QueuedCanBeClaimed
<1>1. Init => QueuedInv
  BY StatesDisjoint DEF Init, QueuedInv, QueuedCanBeClaimed, Absent, PendingStates
<1>2. TypeOK /\ ClaimInv /\ QueuedInv /\ [Next]_inboxVars => QueuedInv'
  <2>1. TypeOK /\ ClaimInv /\ QueuedInv /\ Next => QueuedInv'
    BY QueuedStep
  <2>2. QueuedInv /\ UNCHANGED inboxVars => QueuedInv'
    BY DEF inboxVars, QueuedInv, QueuedCanBeClaimed
  <2> QED
    BY <2>1, <2>2
<1>3. QueuedInv => QueuedCanBeClaimed
  BY DEF QueuedInv
<1> QED
  BY <1>1, <1>2, <1>3, TypeCorrect, ClaimInvHolds, PTL DEF Spec

(***************************************************************************)
(* One owner of the printer, and settled starts that stay settled, as long  *)
(* as the owner resolves nothing.                                          *)
(*                                                                         *)
(* Without resolve() a row that observe() has decided on is still tracked   *)
(* when the decision is written, so that no late decision brings a row back *)
(* that others have since stopped waiting for.                             *)
(***************************************************************************)
DecidedInv == /\ resolving = None
              /\ \A i \in Ids : verdicts[i] # NoVerdict => uploads[i].start \in TrackedStates

\* A row that takes the printer had no start before; unless it is a replay's, it found the
\* printer free; and it is the only row written.
OwnerComes ==
    \A i \in Ids : Owns(i)' /\ ~ Owns(i) =>
        /\ uploads[i].start = None
        /\ "replay" \notin Callers => FreeFor(i)
        /\ \A j \in Ids \ {i} : uploads'[j] = uploads[j]

LEMMA PutSettled ==
    ASSUME TypeOK, DecidedInv, NEW i \in Ids, NEW row, Put(i, row),
           uploads[i].start \in TrackedStates => row.start \in TrackedStates,
           row.start \in OwnerStates =>
               \/ uploads[i].start \in OwnerStates
               \/ uploads[i].start = None /\ ("replay" \notin Callers => FreeFor(i))
    PROVE  DecidedInv' /\ OwnerComes
<1>1. /\ UNCHANGED <<verdicts, resolving>> /\ uploads'[i] = row
      /\ \A j \in Ids \ {i} : uploads'[j] = uploads[j]
  BY DEF Put, TypeOK
<1>2. DecidedInv'
  BY <1>1 DEF DecidedInv
<1>3. OwnerComes
  BY <1>1 DEF OwnerComes, Owns
<1> QED
  BY <1>2, <1>3

\* A write to several rows that makes no owner.
LEMMA UpdateSettled ==
    ASSUME DecidedInv, UNCHANGED resolving,
           \A i \in Ids : /\ uploads'[i].start \in OwnerStates => uploads[i].start \in OwnerStates
                          /\ \/ verdicts'[i] = NoVerdict
                             \/ /\ verdicts'[i] = verdicts[i]
                                /\ uploads[i].start \in TrackedStates
                                       => uploads'[i].start \in TrackedStates
    PROVE  DecidedInv' /\ OwnerComes
BY DEF DecidedInv, OwnerComes, Owns

\* A receipt that never was takes the printer only when no row has it.
LEMMA FreshFree ==
    ASSUME NEW i \in Ids, Fresh(i)
    PROVE  /\ uploads[i].start = None /\ None \notin TrackedStates
           /\ Owner = {} => FreeFor(i)
BY StatesDisjoint DEF Fresh, Absent, FreeFor

LEMMA ReceivingSettled ==
    ASSUME TypeOK, DecidedInv, Receiving
    PROVE  DecidedInv' /\ OwnerComes
<1> SUFFICES ASSUME NEW i \in Ids,
                    \/ \E n \in Names, p \in Peers : Reserve(i, n, p)
                    \/ \E c \in Command : ReserveReplay(i, c)
                    \/ Seal(i) \/ Fail(i) \/ QueueReplay(i) \/ AbandonReplay(i)
             PROVE  DecidedInv' /\ OwnerComes
  BY DEF Receiving
<1> USE StatesDisjoint DEF OwnerStates
<1>0. uploads[i] \in Row
  BY DEF TypeOK
<1>1. ASSUME NEW n \in Names, NEW p \in Peers, Reserve(i, n, p) PROVE DecidedInv' /\ OwnerComes
  BY <1>1, FreshFree, NewFields, PutSettled DEF Reserve
<1>2. ASSUME NEW c \in Command, ReserveReplay(i, c) PROVE DecidedInv' /\ OwnerComes
  BY <1>2, FreshFree, PutSettled DEF ReserveReplay
<1>3. CASE Seal(i)
  BY <1>0, <1>3, PutSettled DEF Seal, Row
<1>4. CASE Fail(i)
  <2> DEFINE row == [uploads[i] EXCEPT
                 !.state = "failed", !.dismissed = FALSE,
                 !.start = IF @ \in PendingStates THEN "blocked" ELSE @]
  <2>1. /\ row.start = IF uploads[i].start \in PendingStates THEN "blocked" ELSE uploads[i].start
        /\ Put(i, row) /\ "blocked" \in TerminalStates
    BY <1>0, <1>4 DEF Fail, Row, TerminalStates
  <2> HIDE DEF row
  <2> QED
    BY <2>1, PutSettled
<1>5. CASE QueueReplay(i)
  BY <1>0, <1>5, PutSettled DEF QueueReplay, Row, PendingStates
<1>6. CASE AbandonReplay(i)
  BY <1>0, <1>6, PutSettled DEF AbandonReplay, Row, TerminalStates
<1> QED
  BY <1>1, <1>2, <1>3, <1>4, <1>5, <1>6

LEMMA StartingSettled ==
    ASSUME TypeOK, DecidedInv, Starting
    PROVE  DecidedInv' /\ OwnerComes
<1> USE StatesDisjoint DEF OwnerStates
<1>1. ASSUME NEW p \in Peers, NEW c \in Command, HoldStart(p, c) PROVE DecidedInv' /\ OwnerComes
  <2> DEFINE i == Newest(Candidates(c.name, p))
  <2>1. Put(i, Held(i, c)) /\ FreeFor(i)
    BY <1>1 DEF HoldStart
  <2>2. CASE i \in Ids
    <3>1. uploads[i] \in Row
      BY <2>2 DEF TypeOK
    <3>2. Held(i, c).start = IF uploads[i].start = None THEN "queued" ELSE uploads[i].start
      BY <3>1 DEF Held, Row
    <3> HIDE DEF i
    <3> QED
      BY <2>1, <2>2, <3>2, PutSettled
  <2>3. CASE i \notin Ids
    <3> HIDE DEF i
    <3>1. uploads' = uploads /\ UNCHANGED <<verdicts, resolving>>
      BY <2>1, <2>3 DEF Put, TypeOK
    <3> QED
      BY <3>1, UpdateSettled
  <2> QED
    BY <2>2, <2>3
<1> SUFFICES ASSUME NEW i \in Ids,
                    \/ BeginDelivery(i) \/ Delivered(i) \/ FreezeAccounting(i)
                    \/ BlockStart(i) \/ ClaimStart(i)
                    \/ \E outcome \in {"sent", "unknown"} : Dispatched(i, outcome)
                    \/ ReserveExternal(i) \/ AbandonReserved(i)
                    \/ \E c \in Command : \/ ClaimExternal(i, c)
                                          \/ ActivateReserved(i, c)
                                          \/ AdoptRunningPrint(i, c)
             PROVE  DecidedInv' /\ OwnerComes
  BY <1>1 DEF Starting
<1>0. uploads[i] \in Row
  BY DEF TypeOK
<1>2. CASE BeginDelivery(i) \/ Delivered(i) \/ FreezeAccounting(i)
  BY <1>0, <1>2, PutSettled DEF BeginDelivery, Delivered, FreezeAccounting, Row
<1>3. CASE BlockStart(i)
  BY <1>0, <1>3, PutSettled DEF BlockStart, Row, PendingStates, TerminalStates
<1>4. CASE AbandonReserved(i)
  BY <1>0, <1>4, PutSettled DEF AbandonReserved, PutStart, Row, PendingStates, TerminalStates
<1>5. CASE \E outcome \in {"sent", "unknown"} : Dispatched(i, outcome)
  BY <1>0, <1>5, PutSettled DEF Dispatched, PutStart, Row, TrackedStates
<1>6. CASE ClaimStart(i)
  BY <1>0, <1>6, PutSettled DEF ClaimStart, Claimed, Row, PendingStates, TrackedStates
<1>7. CASE ReserveExternal(i)
  BY <1>7, FreshFree, PutSettled DEF ReserveExternal
<1>8. ASSUME NEW c \in Command, ClaimExternal(i, c) PROVE DecidedInv' /\ OwnerComes
  BY <1>8, FreshFree, PutSettled DEF ClaimExternal, Claimed
<1>9. ASSUME NEW c \in Command, ActivateReserved(i, c) PROVE DecidedInv' /\ OwnerComes
  <2> DEFINE named == [uploads[i] EXCEPT !.cmd = c, !.name = c.name]
             row == [named EXCEPT !.start = "dispatching", !.dispatched = TRUE, !.age = 0]
  <2>1. Put(i, row) /\ uploads[i].start = "reserved"
    BY <1>9 DEF ActivateReserved, Claimed
  <2>2. "reserved" \in PendingStates
    BY DEF PendingStates
  <2> HIDE DEF row
  <2> QED
    BY <2>1, <2>2, PutSettled
<1>10. ASSUME NEW c \in Command, AdoptRunningPrint(i, c) PROVE DecidedInv' /\ OwnerComes
  BY <1>10, FreshFree, PutSettled DEF AdoptRunningPrint
<1> QED
  BY <1>2, <1>3, <1>4, <1>5, <1>6, <1>7, <1>8, <1>9, <1>10

LEMMA ObservingSettled ==
    ASSUME TypeOK, ClaimInv, DecidedInv, Observing
    PROVE  DecidedInv' /\ OwnerComes
<1> USE StatesDisjoint
<1>0. uploads \in [Ids -> Row]
  BY DEF TypeOK
<1>1. ASSUME NEW e \in Evidence, ObserveRead(e) PROVE DecidedInv' /\ OwnerComes
  BY <1>1 DEF ObserveRead, DecidedInv, OwnerComes, Owns
<1>2. CASE ObserveWrite
  <2>1. ASSUME NEW i \in Ids, uploads'[i].start \in OwnerStates
        PROVE  uploads[i].start \in OwnerStates
    BY <1>2, <2>1 DEF ObserveWrite, DecidedInv, OwnerStates
  <2> QED
    BY <1>2, <2>1, UpdateSettled DEF ObserveWrite
<1>3. CASE ExpireDispatch
  <2>1. ASSUME NEW i \in Ids
        PROVE  \/ uploads'[i] = uploads[i]
               \/ uploads[i].start \in TrackedStates /\ uploads'[i].start = "unknown"
    <3>1. \/ uploads'[i] = uploads[i]
          \/ /\ uploads[i].start \in TrackedStates
             /\ uploads'[i] = [uploads[i] EXCEPT !.start = "unknown", !.dismissed = FALSE]
      BY <1>3 DEF ExpireDispatch, UpdateAll, TrackedStates
    <3>2. [uploads[i] EXCEPT !.start = "unknown", !.dismissed = FALSE].start = "unknown"
      BY <1>0 DEF Row
    <3> QED
      BY <3>1, <3>2
  <2>2. "unknown" \in TrackedStates /\ UNCHANGED <<verdicts, resolving>>
    BY <1>3 DEF ExpireDispatch, UpdateAll, TrackedStates
  <2> QED
    BY <2>1, <2>2, UpdateSettled DEF OwnerStates
<1>4. CASE ExpireQueued
  <2>1. ASSUME NEW i \in Ids
        PROVE  \/ uploads'[i] = uploads[i]
               \/ uploads[i].start \in PendingStates /\ uploads'[i].start = "blocked"
    <3>1. \/ uploads'[i] = uploads[i]
          \/ /\ uploads[i].start \in PendingStates
             /\ uploads'[i] = [uploads[i] EXCEPT !.start = "blocked", !.dismissed = FALSE]
      BY <1>4 DEF ExpireQueued, UpdateAll
    <3>2. [uploads[i] EXCEPT !.start = "blocked", !.dismissed = FALSE].start = "blocked"
      BY <1>0 DEF Row
    <3> QED
      BY <3>1, <3>2
  <2>2. UNCHANGED <<verdicts, resolving>>
    BY <1>4 DEF ExpireQueued, UpdateAll
  <2> QED
    BY <2>1, <2>2, UpdateSettled DEF OwnerStates
<1>5. ASSUME NEW i \in Ids, Elapse(i) PROVE DecidedInv' /\ OwnerComes
  BY <1>0, <1>5, PutSettled DEF Elapse, Row
<1> QED
  BY <1>1, <1>2, <1>3, <1>4, <1>5 DEF Observing

LEMMA ManagingSettled ==
    ASSUME "owner" \notin Callers, TypeOK, DecidedInv, Managing
    PROVE  DecidedInv' /\ OwnerComes
<1> USE StatesDisjoint
<1>0. uploads \in [Ids -> Row]
  BY DEF TypeOK
<1>1. ASSUME NEW i \in Ids,
             \/ ResolveRead(i) \/ Cancel(i) \/ RetryDelivery(i) \/ Discard(i)
             \/ DeletedDiscard(i) \/ DeletedMark(i) \/ PruneLocal(i) \/ PruneReceipt(i)
      PROVE  DecidedInv' /\ OwnerComes
  <2>0. uploads[i] \in Row
    BY <1>0
  <2>1. ~ (ResolveRead(i) \/ Cancel(i) \/ RetryDelivery(i) \/ Discard(i))
    BY DEF ResolveRead, Cancel, RetryDelivery, Discard
  <2>2. CASE DeletedDiscard(i)
    <3>1. \A j \in Ids : uploads'[j].start = uploads[j].start
      BY <1>0, <2>2 DEF DeletedDiscard, Row
    <3> QED
      BY <2>2, <3>1, UpdateSettled DEF DeletedDiscard
  <2>3. CASE DeletedMark(i)
    <3>1. \A j \in Ids : uploads'[j].start = uploads[j].start
      BY <1>0, <2>3 DEF DeletedMark, Row
    <3> QED
      BY <2>3, <3>1, UpdateSettled DEF DeletedMark
  <2>4. CASE PruneLocal(i)
    BY <2>0, <2>4, PutSettled DEF PruneLocal, Row
  <2>5. CASE PruneReceipt(i)
    <3> DEFINE row == [Absent EXCEPT !.state = "forgotten", !.rowid = uploads[i].rowid]
    <3>1. row.start = None /\ None \notin OwnerStates
      BY NoneIsNoKind DEF Absent
    <3>2. Put(i, row) /\ uploads[i].start \notin TrackedStates
      BY <2>5 DEF PruneReceipt, Settled
    <3> HIDE DEF row
    <3> QED
      BY <3>1, <3>2, PutSettled
  <2> QED
    BY <1>1, <2>1, <2>2, <2>3, <2>4, <2>5
<1>2. ~ ResolveWrite
  BY DEF ResolveWrite, DecidedInv
<1>3. CASE CancelQueued
  <2>1. \A i \in Ids : \/ uploads'[i] = uploads[i]
                       \/ uploads[i].start = "queued" /\ uploads'[i].start = "cancelled"
    BY <1>0, <1>3 DEF CancelQueued, UpdateAll, Row
  <2>2. /\ "queued" \notin TrackedStates /\ "cancelled" \notin OwnerStates
        /\ UNCHANGED <<verdicts, resolving>>
    BY <1>3 DEF CancelQueued, UpdateAll, TrackedStates, OwnerStates, PendingStates
  <2> QED
    BY <2>1, <2>2, UpdateSettled
<1>4. ~ AcknowledgePastReviews
  BY DEF AcknowledgePastReviews
<1>5. CASE Restart
  <2>1. \A i \in Ids : uploads'[i].start \in OwnerStates => uploads[i].start \in OwnerStates
    <3> SUFFICES ASSUME NEW row \in Row, Recovered(row).start \in OwnerStates
                 PROVE  row.start \in OwnerStates
      BY <1>0, <1>5 DEF Restart
    <3>1. Recovered(row).start \in {row.start, "blocked", "cancelled"} \/ row.start = "dispatching"
      BY DEF Recovered, Row
    <3> QED
      BY <3>1 DEF OwnerStates, TrackedStates, PendingStates
  <2>2. DecidedInv'
    BY <1>5 DEF Restart, DecidedInv
  <2> QED
    BY <2>1, <2>2 DEF OwnerComes, Owns
<1> QED
  BY <1>1, <1>2, <1>3, <1>4, <1>5 DEF Managing

LEMMA SettledStep ==
    ASSUME "owner" \notin Callers, TypeOK, ClaimInv, DecidedInv, [Next]_inboxVars
    PROVE  DecidedInv' /\ OwnerComes
<1>1. CASE Next
  BY <1>1, ReceivingSettled, StartingSettled, ObservingSettled, ManagingSettled DEF Next
<1>2. CASE UNCHANGED inboxVars
  BY <1>2 DEF inboxVars, DecidedInv, OwnerComes, Owns
<1> QED
  BY <1>1, <1>2

LEMMA DecidedInvHolds ==
    ASSUME "owner" \notin Callers
    PROVE  Spec => []DecidedInv
<1>1. Init => DecidedInv
  BY DEF Init, DecidedInv
<1>2. TypeOK /\ ClaimInv /\ DecidedInv /\ [Next]_inboxVars => DecidedInv'
  BY SettledStep
<1> QED
  BY <1>1, <1>2, TypeCorrect, ClaimInvHolds, PTL DEF Spec

\* As long as the owner resolves nothing by hand, no late report, retry, repeated start
\* command or restart makes the row of a settled start an owner of the printer again
\* (observe(), hold_start(), recover()).
THEOREM SettledForGood ==
    ASSUME "owner" \notin Callers
    PROVE  Spec => SettledStaysSettled
<1>1. TypeOK /\ ClaimInv /\ DecidedInv /\ [Next]_inboxVars => [SettledStays]_inboxVars
  <2> SUFFICES ASSUME TypeOK, ClaimInv, DecidedInv, [Next]_inboxVars, NEW i \in Ids,
                      uploads[i].start \in TerminalStates, Owns(i)'
               PROVE  FALSE
    BY DEF SettledStays
  <2>1. ~ Owns(i) /\ uploads[i].start # None
    BY StatesDisjoint DEF Owns, OwnerStates
  <2> QED
    BY <2>1, SettledStep DEF OwnerComes
<1> QED
  BY <1>1, TypeCorrect, ClaimInvHolds, DecidedInvHolds, PTL DEF Spec, SettledStaysSettled

\* Without replays and resolutions at most one row owns the printer: every other door
\* looks for an owner in the transaction that makes one (hold_start(), claim_external(),
\* adopt_running_print()).  The replay does not (native_inbox.py reserve()), and a
\* resolution can be overtaken by a late report (native_inbox.py:943).
THEOREM PrinterHasOneOwner ==
    ASSUME "owner" \notin Callers, "replay" \notin Callers
    PROVE  Spec => []OneOwner
<1>1. Init => OneOwner
  BY NoneIsNoKind DEF Init, OneOwner, Owner, Owns, Absent
<1>2. TypeOK /\ ClaimInv /\ DecidedInv /\ OneOwner /\ [Next]_inboxVars => OneOwner'
  <2> SUFFICES ASSUME TypeOK, ClaimInv, DecidedInv, OneOwner, [Next]_inboxVars,
                      NEW i \in Ids, NEW j \in Ids, Owns(i)', Owns(j)', i # j
               PROVE  FALSE
    BY DEF OneOwner, Owner
  <2>1. OwnerComes
    BY SettledStep
  <2>2. \A k \in Ids : FreeFor(k) => \A l \in Ids : Owns(l) => l = k
    BY DEF FreeFor, Owner
  <2>3. CASE ~ Owns(i)
    <3>1. FreeFor(i) /\ uploads'[j] = uploads[j]
      BY <2>1, <2>3 DEF OwnerComes
    <3> QED
      BY <2>2, <3>1 DEF Owns
  <2>4. CASE ~ Owns(j)
    <3>1. FreeFor(j) /\ uploads'[i] = uploads[i]
      BY <2>1, <2>4 DEF OwnerComes
    <3> QED
      BY <2>2, <3>1 DEF Owns
  <2>5. CASE Owns(i) /\ Owns(j)
    BY <2>5 DEF OneOwner, Owner
  <2> QED
    BY <2>3, <2>4, <2>5
<1> QED
  BY <1>1, <1>2, TypeCorrect, ClaimInvHolds, DecidedInvHolds, PTL DEF Spec
=============================================================================
