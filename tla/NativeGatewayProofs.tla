------------------------- MODULE NativeGatewayProofs -------------------------
(***************************************************************************)
(* The gateway for every set of receipts, names, peers and callers and      *)
(* everything the printer's side may do: its types, that it is one of the   *)
(* inbox's clients, that no pending row is without its task, that a running *)
(* print keeps its owner, and that starts come one by one.                  *)
(***************************************************************************)
EXTENDS NativeGateway, NativeInboxProofs, SequenceTheorems

(***************************************************************************)
(* Where the tasks stand.                                                  *)
(***************************************************************************)
\* From the claim of a row until its command's fate is recorded.
Publishing == {"publish", "sent", "unknown"}

\* The lock, and in each holder's code the places with and without a row in hand.
Seats ==
    UNION {{NoSession},
           [who : {"raw", "managed"}, pc : {"recover", "await", "ready", "claim"}, row : {None}],
           [who : {"raw"}, pc : Publishing, row : Ids],
           [who : {"job"}, pc : {"ready", "freeze", "claim"} \union Publishing, row : Ids],
           [who : {"worker", "slicer"}, pc : {"recover", "await"}, row : {None}],
           [who : {"worker"}, row : Ids,
            pc : {"check", "ready", "freeze", "recheck", "claim"} \union Publishing],
           [who : {"replay"}, pc : {"ready", "check", "checked"}, row : {None}],
           [who : {"replay"}, pc : {"receive", "queue"}, row : Ids],
           [who : {"owner"}, pc : {"resolve"}, row : Ids]}

\* The worker is at the lock while it holds it, and has a row left to go on from.
WorkerPlace ==
    /\ worker \in [pc : {"wait", "expire", "lock", "locked", "prune", "storage", "sweep",
                         "pending", "rows", "upload", "dispatch"},
                   todo : Seq(Ids)]
    /\ Len(worker.todo) <= Cardinality(Ids)
    /\ session.who = "worker" =>
          worker.pc = "locked" /\ (session.row # None => worker.todo # <<>>)
    /\ worker.pc \in {"upload", "dispatch"} => worker.todo # <<>>

\* A managed job holds its row from the reservation until it leaves.
ManagedPlace ==
    /\ managed \in {NoManaged} \union [row : Ids, pc : {"job", "leave"}]
    /\ session.who = "managed" => managed = NoManaged
    /\ session.who = "job" => managed = [row |-> session.row, pc |-> "leave"]

TasksInv ==
    /\ session \in Seats /\ WorkerPlace /\ ManagedPlace
    /\ slicer \in BOOLEAN /\ sweep \subseteq Ids /\ card \subseteq Ids

Printer == [state : PrinterState, job : Job]
Starts == {job \in Job : job.id # None}

\* What is on its way: reports this printer makes, and starts of rows.
DeviceInv ==
    /\ seen \in Merged \union {None} /\ inflight \in PrinterEvidence \union {None}
    /\ reports \in Seq(PrinterEvidence) /\ asked \in BOOLEAN
    /\ wire \in Seq(Starts)
    /\ printer \in Printer

GatewayInv == TypeOK /\ TasksInv /\ DeviceInv

-----------------------------------------------------------------------------
(***************************************************************************)
(* The printer's side.                                                     *)
(***************************************************************************)
LEMMA EvidenceTyped ==
    /\ PrinterEvidence \subseteq Evidence /\ PrinterEvidence \subseteq Evidences
    /\ \A p \in Printer : /\ Status(p) \in PrinterEvidence
                          /\ \A i \in Ids, ok \in BOOLEAN : Answer(p, i, ok) \in PrinterEvidence
    /\ \A e \in PrinterEvidence : e.merged \in Merged
<1>1. PrinterEvidence \subseteq Evidence /\ Evidence \subseteq Evidences
  BY EvidenceIsExpected, EvidenceAssumption DEF Evidences
<1>2. \A e \in Evidences : e.merged \in Merged
  BY DEF Evidences
<1> QED
  BY <1>1, <1>2 DEF PrinterEvidence, Printer

\* What the printer says is appended to what is on its way.
LEMMA ReportTyped ==
    ASSUME DeviceInv, NEW new \in Seq(PrinterEvidence), Report2(new)
    PROVE  reports' \in Seq(PrinterEvidence)
BY ConcatProperties DEF DeviceInv, Report2

LEMMA PrinterDevice ==
    ASSUME DeviceInv, PrinterWorks
    PROVE  DeviceInv'
<1> USE DEF DeviceInv
<1>1. ASSUME NEW p \in Printer
      PROVE  <<Status(p)>> \in Seq(PrinterEvidence)
  BY EvidenceTyped
<1>2. ASSUME NEW p \in Printer, BecomesPrinting(p)
      PROVE  DeviceInv'
  BY <1>1, <1>2, ReportTyped DEF BecomesPrinting, Alone, bridge
<1>3. ASSUME NEW plate \in BOOLEAN, TakeStart(plate)
      PROVE  DeviceInv'
  <2> DEFINE s == [Head(wire) EXCEPT !.plate = plate]
             begun == [state |-> "RUNNING", job |-> s]
  <2>1. Head(wire) \in Starts /\ wire' \in Seq(Starts)
    BY <1>3, HeadTailProperties DEF TakeStart
  <2>2. s \in Job /\ s.id \in Ids
    BY <2>1 DEF Starts, Job
  <2>3. begun \in Printer
    BY <2>2 DEF Printer, PrinterState
  <2> HIDE DEF begun
  <2>4. /\ <<Answer(printer, s.id, TRUE), Status(begun)>> \in Seq(PrinterEvidence)
        /\ <<Answer(printer, s.id, FALSE)>> \in Seq(PrinterEvidence)
    <3>1. /\ Answer(printer, s.id, TRUE) \in PrinterEvidence
          /\ Answer(printer, s.id, FALSE) \in PrinterEvidence
      BY <2>2, EvidenceTyped
    <3>2. Status(begun) \in PrinterEvidence
      BY <2>3, EvidenceTyped
    <3>3. \A a, b \in PrinterEvidence : /\ <<a, b>> \in Seq(PrinterEvidence)
                                         /\ <<b>> \in Seq(PrinterEvidence)
      OBVIOUS
    <3> HIDE DEF s
    <3> QED
      BY <3>1, <3>2, <3>3
  <2> DEFINE taken == <<Answer(printer, s.id, TRUE), Status(begun)>>
             refused == <<Answer(printer, s.id, FALSE)>>
  <2>5. \/ printer' = begun /\ Report2(taken)
        \/ printer' = printer /\ Report2(refused)
        \/ UNCHANGED <<printer, reports>>
    BY <1>3 DEF TakeStart, begun
  <2>6. UNCHANGED <<seen, inflight, asked>>
    BY <1>3 DEF TakeStart, Alone, bridge
  <2> HIDE DEF taken, refused
  <2>7. taken \in Seq(PrinterEvidence) /\ refused \in Seq(PrinterEvidence)
    BY <2>4 DEF taken, refused
  <2>8. printer' \in Printer /\ reports' \in Seq(PrinterEvidence)
    BY <2>3, <2>5, <2>7, ReportTyped
  <2> QED
    BY <2>1, <2>6, <2>8
<1>4. CASE EndPrint
  <2>1. PICK s \in {"FINISH", "FAILED"} : BecomesPrinting([printer EXCEPT !.state = s])
    BY <1>4 DEF EndPrint
  <2>2. [printer EXCEPT !.state = s] \in Printer
    BY DEF Printer, PrinterState
  <2> QED
    BY <2>1, <2>2, <1>2
<1>5. CASE PowerCycle
  <2>1. [state |-> "IDLE", job |-> NoJob] \in Printer
    BY DEF Printer, PrinterState, NoJob, Job, Target
  <2> QED
    BY <1>5, <2>1, <1>2 DEF PowerCycle
<1>6. CASE PanelStart
  <2>1. PICK n \in Names : BecomesPrinting(
            [state |-> "RUNNING",
             job |-> [id |-> None, target |-> n, task |-> n, plate |-> TRUE]])
    BY <1>6 DEF PanelStart
  <2>2. [state |-> "RUNNING",
         job |-> [id |-> None, target |-> n, task |-> n, plate |-> TRUE]] \in Printer
    BY DEF Printer, PrinterState, Job, Target
  <2> QED
    BY <2>1, <2>2, <1>2
<1>7. CASE AnswerPushall
  BY <1>7, <1>1, ReportTyped DEF AnswerPushall, Alone, bridge
<1>8. CASE Reconnect
  BY <1>8 DEF Reconnect, Alone, bridge
<1> QED
  BY <1>3, <1>4, <1>5, <1>6, <1>7, <1>8 DEF PrinterWorks

\* Every other step of the gateway that touches the bridge's view or the device's side.
LEMMA OthersDevice ==
    ASSUME TypeOK, TasksInv, DeviceInv, [GatewayNext]_vars, ~ PrinterWorks
    PROVE  DeviceInv'
<1> DEFINE Quiet == UNCHANGED <<seen, inflight, reports, asked, wire, printer>>
<1>0. Quiet => DeviceInv'
  BY DEF DeviceInv
<1> USE DEF Locked, WorkerOnly, bridge, device, tasks
<1>1. CASE TakeReport
  <2>1. Head(reports) \in PrinterEvidence /\ reports' \in Seq(PrinterEvidence)
    BY <1>1, HeadTailProperties DEF TakeReport, DeviceInv
  <2>2. inflight' = Head(reports) /\ UNCHANGED <<asked, wire, printer>>
    BY <1>1 DEF TakeReport
  <2>3. seen' \in Merged \union {None}
    BY <1>1, <2>1, <2>2, EvidenceTyped DEF TakeReport, DeviceInv
  <2> QED
    BY <2>1, <2>2, <2>3 DEF DeviceInv
<1>2. CASE Observe
  BY <1>2 DEF Observe, DeviceInv
<1>3. CASE AsksStatus
  BY <1>3 DEF AsksStatus, DeviceInv
<1>4. CASE Publish
  <2>1. session.row \in Ids
    BY <1>4 DEF Publish, TasksInv, Seats, Publishing, NoSession
  <2>2. uploads[session.row].cmd \in Command \union {None} /\ Remote(session.row) \in Target
    BY <2>1 DEF TypeOK, Row, Remote, Target
  <2> DEFINE cmd == uploads[session.row].cmd
             start == [id |-> session.row, target |-> Remote(session.row),
                       task |-> IF cmd = None THEN None ELSE cmd.name, plate |-> FALSE]
  <2>3. start \in Starts
    BY <2>1, <2>2, IdentitiesAssumption DEF Starts, Job, Command
  <2>4. wire' \in {wire, Append(wire, start)} /\ UNCHANGED <<seen, inflight, reports, asked, printer>>
    BY <1>4 DEF Publish
  <2> HIDE DEF start
  <2>5. wire' \in Seq(Starts)
    BY <2>3, <2>4 DEF DeviceInv
  <2> QED
    BY <2>4, <2>5 DEF DeviceInv
<1>5. CASE GatewayRestart
  BY <1>5 DEF GatewayRestart, DeviceInv
<1>6. CASE UNCHANGED vars
  BY <1>6, <1>0 DEF vars
<1>7. CASE BridgeListens /\ ~ TakeReport /\ ~ Observe
  <2>1. CASE WriteObserved
    BY <2>1, <1>0 DEF WriteObserved
  <2>2. CASE \E i \in Ids : Time(i)
    BY <2>2, <1>0 DEF Time
  <2>3. CASE \E i \in Ids, c \in Command : Adopt(i, c)
    BY <2>3, <1>0 DEF Adopt
  <2> QED
    BY <1>7, <2>1, <2>2, <2>3 DEF BridgeListens
<1>8. CASE ClientsAct
  <2>1. CASE RawEnters \/ RawCancelled \/ ManagedEnters \/ JobEnters \/ JobLeaves \/ StopCommand
    BY <2>1, <1>0 DEF RawEnters, RawCancelled, ManagedEnters, JobEnters, JobLeaves, StopCommand,
                      Acquire
  <2>2. CASE OrcaUpload \/ OrcaStarts \/ OrcaHeld \/ ReplayEnters \/ OwnerActs
    BY <2>2, <1>0 DEF OrcaUpload, OrcaStarts, OrcaHeld, ReplayEnters, OwnerActs, Acquire
  <2>3. CASE \E i \in Ids : OwnerResolves(i)
    BY <2>3, <1>0 DEF OwnerResolves
  <2> QED
    BY <1>8, <2>1, <2>2, <2>3 DEF ClientsAct
<1>9. CASE LockHolderMoves /\ ~ AsksStatus /\ ~ Publish
  <2>1. CASE EnsureIdle \/ Refused \/ RecoverLostStart \/ Freeze \/ RecordDispatch
    BY <2>1, <1>0 DEF EnsureIdle, Refused, RecoverLostStart, Freeze, RecordDispatch
  <2>2. CASE ReplayChecks \/ ReplaySeals \/ ReplayEnds \/ OwnerResolved
    BY <2>2, <1>0 DEF ReplayChecks, ReplaySeals, ReplayEnds, OwnerResolved
  <2>3. CASE WorkerChecks \/ WorkerBlocks \/ WorkerClaims
    BY <2>3, <1>0 DEF WorkerChecks, WorkerBlocks, WorkerClaims
  <2>4. CASE \E i \in Ids : ManagedReserves(i) \/ \E c \in Command : RawClaims(i, c) \/ ReplayReserves(i, c)
    BY <2>4, <1>0 DEF ManagedReserves, RawClaims, ReplayReserves
  <2>5. CASE \E c \in Command : JobClaims(c)
    BY <2>5, <1>0 DEF JobClaims
  <2> QED
    BY <1>9, <2>1, <2>2, <2>3, <2>4, <2>5 DEF LockHolderMoves
<1>10. CASE WorkerLocks
  BY <1>10, <1>0 DEF WorkerLocks
<1>11. CASE WorkerMoves
  <2>1. CASE WorkerExpires \/ WorkerPrunes \/ WorkerSelects
    BY <2>1, <1>0 DEF WorkerExpires, WorkerPrunes, WorkerSelects
  <2>2. CASE WorkerSweeps \/ WorkerLists \/ WorkerTakesRow \/ WorkerUploads
    BY <2>2, <1>0 DEF WorkerSweeps, WorkerLists, WorkerTakesRow, WorkerUploads
  <2> QED
    BY <1>11, <2>1, <2>2 DEF WorkerMoves
<1> QED
  BY <1>1, <1>2, <1>3, <1>4, <1>5, <1>6, <1>7, <1>8, <1>9, <1>10, <1>11 DEF GatewayNext

(***************************************************************************)
(* The gateway is a client of the inbox: whatever a step of it does to the  *)
(* table, one call of the inbox does.                                       *)
(***************************************************************************)
LEMMA InboxStep ==
    ASSUME TasksInv, DeviceInv, [GatewayNext]_vars
    PROVE  [Next]_inboxVars
<1> DEFINE Goal == Next \/ UNCHANGED inboxVars
<1>1. CASE PrinterWorks
  BY <1>1 DEF PrinterWorks, TakeStart, EndPrint, PowerCycle, PanelStart, AnswerPushall, Reconnect,
              BecomesPrinting, Alone
<1>2. CASE BridgeListens
  <2>1. CASE TakeReport
    BY <2>1 DEF TakeReport
  <2>2. CASE Observe
    <3>1. inflight \in Evidence /\ ObserveRead(inflight)
      BY <2>2, EvidenceTyped DEF Observe, DeviceInv
    <3> QED
      BY <3>1 DEF Next, Observing
  <2>3. CASE WriteObserved
    BY <2>3 DEF WriteObserved, Next, Observing
  <2>4. CASE \E i \in Ids : Time(i)
    BY <2>4 DEF Time, Next, Observing
  <2>5. CASE \E i \in Ids, c \in Command : Adopt(i, c)
    BY <2>5 DEF Adopt, Next, Starting
  <2> QED
    BY <1>2, <2>1, <2>2, <2>3, <2>4, <2>5 DEF BridgeListens
<1>3. CASE ClientsAct
  <2>1. CASE RawEnters \/ RawCancelled \/ ManagedEnters \/ JobEnters \/ OrcaStarts \/ ReplayEnters
    BY <2>1 DEF RawEnters, RawCancelled, ManagedEnters, JobEnters, OrcaStarts, ReplayEnters, Acquire
  <2>2. CASE JobLeaves
    <3>1. managed.row \in Ids
      BY <2>2 DEF JobLeaves, TasksInv, ManagedPlace
    <3> QED
      BY <2>2, <3>1 DEF JobLeaves, Next, Starting
  <2>3. CASE StopCommand
    BY <2>3 DEF StopCommand, Next, Managing
  <2>4. CASE OrcaUpload
    <3>1. PICK i \in Ids : \/ \E n \in Names, p \in Peers : Reserve(i, n, p)
                           \/ Seal(i) \/ Fail(i)
      BY <2>4 DEF OrcaUpload
    <3> QED
      BY <3>1 DEF Next, Receiving
  <2>5. CASE OrcaHeld
    BY <2>5 DEF OrcaHeld, Next, Starting
  <2>6. CASE OwnerActs
    BY <2>6 DEF OwnerActs, Next, Managing
  <2>7. CASE \E i \in Ids : OwnerResolves(i)
    BY <2>7 DEF OwnerResolves, Next, Managing
  <2> QED
    BY <1>3, <2>1, <2>2, <2>3, <2>4, <2>5, <2>6, <2>7 DEF ClientsAct
<1>4. CASE LockHolderMoves
  <2>1. CASE EnsureIdle \/ Refused \/ AsksStatus \/ RecoverLostStart \/ Publish \/ ReplayChecks \/ WorkerChecks
    BY <2>1 DEF EnsureIdle, Refused, AsksStatus, RecoverLostStart, Publish, ReplayChecks, WorkerChecks
  <2>2. session.pc \notin {"free", "recover", "await", "ready", "recheck", "check", "checked", "claim"}
            => session.row \in Ids
    BY DEF TasksInv, Seats, NoSession, Publishing
  <2>3. session.who \in {"job", "worker"} /\ session.pc \in {"ready", "recheck", "claim"} => session.row \in Ids
    BY HolderAssumption DEF TasksInv, Seats, NoSession, Publishing, Holders
  <2>4. CASE Freeze
    BY <2>2, <2>4 DEF Freeze, Next, Starting
  <2>5. CASE RecordDispatch
    BY <2>2, <2>5 DEF RecordDispatch, Next, Starting
  <2>6. CASE ReplaySeals
    BY <2>2, <2>6 DEF ReplaySeals, At, Next, Receiving
  <2>7. CASE ReplayEnds
    BY <2>2, <2>7 DEF ReplayEnds, Next, Receiving
  <2>8. CASE OwnerResolved
    BY <2>8 DEF OwnerResolved, Next, Managing
  <2>9. CASE WorkerBlocks
    BY <2>3, <2>9 DEF WorkerBlocks, At, Next, Starting
  <2>10. CASE WorkerClaims
    BY <2>3, <2>10 DEF WorkerClaims, At, Next, Starting
  <2>11. CASE \E i \in Ids : ManagedReserves(i) \/ \E c \in Command : RawClaims(i, c) \/ ReplayReserves(i, c)
    BY <2>11 DEF ManagedReserves, RawClaims, ReplayReserves, Next, Starting, Receiving
  <2>12. CASE \E c \in Command : JobClaims(c)
    BY <2>3, <2>12 DEF JobClaims, At, Next, Starting
  <2> QED
    BY <1>4, <2>1, <2>4, <2>5, <2>6, <2>7, <2>8, <2>9, <2>10, <2>11, <2>12 DEF LockHolderMoves
<1>5. CASE WorkerLocks
  BY <1>5 DEF WorkerLocks
<1>6. CASE WorkerMoves
  <2>1. worker.pc = "upload" => Head(worker.todo) \in Ids
    BY HeadTailProperties DEF TasksInv, WorkerPlace
  <2>2. worker.todo # <<>> => Head(worker.todo) \in Ids
    BY HeadTailProperties DEF TasksInv, WorkerPlace
  <2>3. CASE WorkerExpires
    BY <2>3 DEF WorkerExpires, Next, Observing
  <2>4. CASE WorkerPrunes
    BY <2>4 DEF WorkerPrunes, Next, Managing
  <2>5. CASE WorkerSelects \/ WorkerSweeps \/ WorkerLists
    BY <2>5 DEF WorkerSelects, WorkerSweeps, WorkerLists
  <2>6. CASE WorkerTakesRow
    BY <2>2, <2>6 DEF WorkerTakesRow, Next, Starting
  <2>7. CASE WorkerUploads
    BY <2>1, <2>7 DEF WorkerUploads, Next, Starting, Receiving
  <2> QED
    BY <1>6, <2>3, <2>4, <2>5, <2>6, <2>7 DEF WorkerMoves
<1>7. CASE GatewayRestart
  BY <1>7 DEF GatewayRestart, Next, Managing
<1>8. CASE UNCHANGED vars
  BY <1>8 DEF vars
<1> QED
  BY <1>1, <1>2, <1>3, <1>4, <1>5, <1>6, <1>7, <1>8 DEF GatewayNext

(***************************************************************************)
(* Every task stays in a place of its own code.                             *)
(***************************************************************************)
LEMMA HoldersDiffer == \A w \in Holders : w # None
BY HolderAssumption

\* The lock is taken, given back, or its holder goes on; nothing else moves.
LEMMA SessionTasks ==
    ASSUME TasksInv, UNCHANGED <<worker, managed, slicer, sweep, card>>, session' \in Seats,
           session'.who = "worker" =>
               session.who = "worker" /\ (session'.row # None => session.row # None),
           session'.who = "managed" => managed = NoManaged,
           session'.who = "job" => session.who = "job" /\ session'.row = session.row
    PROVE  TasksInv'
BY DEF TasksInv, WorkerPlace, ManagedPlace

LEMMA LeaveTasks ==
    ASSUME TasksInv, UNCHANGED <<worker, managed, slicer, sweep, card>>, session' = NoSession
    PROVE  TasksInv'
<1>1. session' \in Seats
  BY DEF Seats
<1> QED
  BY <1>1, SessionTasks, HoldersDiffer DEF NoSession, Holders

LEMMA EnterTasks ==
    ASSUME TasksInv, NEW who \in {"raw", "managed", "slicer", "replay"},
           NEW pc, Acquire(who, pc, None),
           pc = IF who = "replay" THEN "ready" ELSE "recover",
           who = "managed" => managed = NoManaged
    PROVE  TasksInv'
<1>1. session' = [who |-> who, pc |-> pc, row |-> None]
  BY DEF Acquire, Session
<1>2. session' \in Seats
  BY <1>1 DEF Seats
<1> QED
  BY <1>1, <1>2, SessionTasks DEF Acquire, Locked, device

LEMMA StillTasks ==
    ASSUME TasksInv, UNCHANGED <<tasks, card>>
    PROVE  TasksInv'
BY DEF TasksInv, WorkerPlace, ManagedPlace, tasks

LEMMA ClientsTasks ==
    ASSUME TasksInv, ClientsAct
    PROVE  TasksInv'
<1>1. CASE RawEnters \/ ManagedEnters \/ OrcaStarts \/ ReplayEnters
  BY <1>1, EnterTasks DEF RawEnters, ManagedEnters, OrcaStarts, ReplayEnters
<1>2. CASE RawCancelled
  BY <1>2, LeaveTasks DEF RawCancelled, Locked, device
<1>3. CASE JobEnters
  <2>1. session' = [who |-> "job", pc |-> "ready", row |-> managed.row] /\ managed.row \in Ids
    BY <1>3 DEF JobEnters, Session, TasksInv, ManagedPlace, NoManaged
  <2>2. session' \in Seats
    BY <2>1 DEF Seats
  <2>3. managed' = [row |-> session'.row, pc |-> "leave"] /\ UNCHANGED <<worker, slicer, sweep, card>>
    BY <1>3, <2>1 DEF JobEnters, TasksInv, ManagedPlace, NoManaged, device
  <2> QED
    BY <2>1, <2>2, <2>3 DEF TasksInv, WorkerPlace, ManagedPlace
<1>4. CASE JobLeaves
  <2>1. managed' = NoManaged /\ session.who # "job" /\ UNCHANGED <<session, worker, slicer, sweep, card>>
    BY <1>4 DEF JobLeaves, device
  <2> QED
    BY <2>1 DEF TasksInv, WorkerPlace, ManagedPlace
<1>5. CASE StopCommand \/ OrcaUpload \/ OwnerActs
  BY <1>5, StillTasks DEF StopCommand, OrcaUpload, OwnerActs, device
<1>6. CASE OrcaHeld
  BY <1>6 DEF OrcaHeld, TasksInv, WorkerPlace, ManagedPlace, device
<1>7. CASE \E i \in Ids : OwnerResolves(i)
  <2>1. PICK i \in Ids : session' = [who |-> "owner", pc |-> "resolve", row |-> i] /\ Locked
    BY <1>7 DEF OwnerResolves, Session
  <2>2. session' \in Seats
    BY <2>1 DEF Seats
  <2> QED
    BY <2>1, <2>2, SessionTasks DEF Locked, device
<1> QED
  BY <1>1, <1>2, <1>3, <1>4, <1>5, <1>6, <1>7 DEF ClientsAct

\* The worker gives the lock back and goes on with its next row, or at pc.
LEMMA WorkerLeaves ==
    ASSUME TasksInv, session.who = "worker", session' = NoSession,
           UNCHANGED <<managed, slicer, sweep, card>>,
           \/ worker' = NextRow /\ session.row # None
           \/ worker' = [worker EXCEPT !.pc = "prune"]
    PROVE  TasksInv'
<1>1. session' \in Seats
  BY DEF Seats
<1>2. session.row # None => Tail(worker.todo) \in Seq(Ids) /\ Len(Tail(worker.todo)) = Len(worker.todo) - 1
  BY HeadTailProperties DEF TasksInv, WorkerPlace
<1>3. Cardinality(Ids) \in Nat
  BY FS_CardinalityType, IdentitiesAssumption
<1>4. WorkerPlace'
  <2>1. session'.who # "worker"
    BY HoldersDiffer DEF NoSession, Holders
  <2>2. Len(worker.todo) \in Nat /\ Len(worker.todo) <= Cardinality(Ids)
    BY LenProperties DEF TasksInv, WorkerPlace
  <2>3. CASE worker' = NextRow /\ session.row # None
    BY <1>2, <1>3, <2>1, <2>2, <2>3 DEF WorkerPlace, NextRow
  <2>4. CASE worker' = [worker EXCEPT !.pc = "prune"]
    BY <2>1, <2>2, <2>4 DEF TasksInv, WorkerPlace
  <2> QED
    BY <2>3, <2>4
<1>5. ManagedPlace'
  BY HoldersDiffer DEF TasksInv, ManagedPlace, NoSession, Holders
<1> QED
  BY <1>1, <1>4, <1>5 DEF TasksInv

LEMMA HolderTasks ==
    ASSUME TasksInv, LockHolderMoves
    PROVE  TasksInv'
<1> USE DEF Locked, device, Goto, At
<1>1. CASE EnsureIdle
  <2>1. session' \in Seats /\ session'.who = session.who /\ session'.row = session.row
    BY <1>1, HoldersDiffer DEF EnsureIdle, AfterReady, TasksInv, Seats, NoSession, Publishing, Holders
  <2> QED
    BY <1>1, <2>1, SessionTasks DEF EnsureIdle, TasksInv, ManagedPlace
<1>2. CASE Refused
  BY <1>2, LeaveTasks DEF Refused
<1>3. CASE AsksStatus
  <2>1. session' \in Seats /\ session'.who = session.who /\ session'.row = session.row
    BY <1>3 DEF AsksStatus, TasksInv, Seats, NoSession, Publishing
  <2> QED
    BY <1>3, <2>1, SessionTasks DEF AsksStatus, TasksInv, ManagedPlace
<1>4. CASE RecoverLostStart
  <2>1. CASE session.who = "worker"
    BY <1>4, <2>1, WorkerLeaves DEF RecoverLostStart, TasksInv
  <2>2. CASE session.who = "slicer"
    <3>1. session' = NoSession /\ slicer' = TRUE /\ UNCHANGED <<worker, managed, sweep, card>>
      BY <1>4, <2>2 DEF RecoverLostStart, TasksInv
    <3>2. session' \in Seats
      BY <3>1 DEF Seats
    <3> QED
      BY <3>1, <3>2, HoldersDiffer DEF TasksInv, WorkerPlace, ManagedPlace, NoSession, Holders
  <2>3. CASE session.who \notin {"worker", "slicer"}
    <3>1. session' = [session EXCEPT !.pc = "ready"] /\ UNCHANGED <<worker, managed, slicer, sweep, card>>
      BY <1>4, <2>3 DEF RecoverLostStart, TasksInv
    <3>2. session' \in Seats /\ session'.who = session.who /\ session'.row = session.row
      BY <1>4, <2>3, <3>1 DEF RecoverLostStart, TasksInv, Seats, NoSession, Publishing
    <3> QED
      BY <3>1, <3>2, SessionTasks DEF TasksInv, ManagedPlace
  <2> QED
    BY <2>1, <2>2, <2>3
<1>5. CASE Freeze
  <2>1. session' \in Seats /\ session'.who = session.who /\ session'.row = session.row
    BY <1>5 DEF Freeze, TasksInv, Seats, NoSession, Publishing
  <2> QED
    BY <1>5, <2>1, SessionTasks DEF Freeze, TasksInv, ManagedPlace
<1>6. CASE Publish
  <2>1. session' \in Seats /\ session'.who = session.who /\ session'.row = session.row
    BY <1>6 DEF Publish, TasksInv, Seats, NoSession, Publishing
  <2> QED
    BY <1>6, <2>1, SessionTasks DEF Publish, TasksInv, ManagedPlace
<1>7. CASE RecordDispatch
  <2>1. session.row # None
    BY <1>7, IdentitiesAssumption DEF RecordDispatch, TasksInv, Seats, NoSession, Publishing
  <2> QED
    BY <1>7, <2>1, WorkerLeaves, LeaveTasks DEF RecordDispatch
<1>8. CASE ReplayChecks \/ ReplaySeals
  <2>1. session' \in Seats /\ session'.who = session.who /\ session'.row = session.row
    BY <1>8, HoldersDiffer DEF ReplayChecks, ReplaySeals, TasksInv, Seats, NoSession, Publishing, Holders
  <2> QED
    BY <1>8, <2>1, SessionTasks DEF ReplayChecks, ReplaySeals, TasksInv, ManagedPlace
<1>9. CASE ReplayEnds \/ OwnerResolved
  BY <1>9, LeaveTasks DEF ReplayEnds, OwnerResolved
<1>10. CASE WorkerChecks
  <2>1. session.row # None /\ session.who = "worker"
    BY <1>10, HoldersDiffer, IdentitiesAssumption DEF WorkerChecks, TasksInv, Seats, NoSession, Publishing, Holders
  <2>2. CASE Goto("ready") /\ worker' = worker
    <3>1. session' \in Seats /\ session'.who = session.who /\ session'.row = session.row
      BY <1>10, <2>2, HoldersDiffer DEF WorkerChecks, TasksInv, Seats, NoSession, Publishing, Holders
    <3> QED
      BY <1>10, <2>1, <2>2, <3>1, SessionTasks DEF WorkerChecks
  <2>3. CASE session' = NoSession /\ worker' = NextRow
    BY <1>10, <2>1, <2>3, WorkerLeaves DEF WorkerChecks
  <2> QED
    BY <1>10, <2>2, <2>3 DEF WorkerChecks
<1>11. CASE WorkerBlocks
  <2>1. session.row # None /\ session.who = "worker"
    BY <1>11, HoldersDiffer, IdentitiesAssumption DEF WorkerBlocks, TasksInv, Seats, NoSession, Publishing, Holders
  <2> QED
    BY <1>11, <2>1, WorkerLeaves DEF WorkerBlocks
<1>12. CASE WorkerClaims
  <2>1. session' \in Seats /\ session'.who = session.who /\ session'.row = session.row
    BY <1>12, HoldersDiffer DEF WorkerClaims, TasksInv, Seats, NoSession, Publishing, Holders
  <2> QED
    BY <1>12, <2>1, SessionTasks DEF WorkerClaims, TasksInv, ManagedPlace
<1>13. ASSUME NEW i \in Ids, ManagedReserves(i)
       PROVE  TasksInv'
  <2>1. session' = NoSession /\ managed' = [row |-> i, pc |-> "job"]
        /\ session.who = "managed" /\ UNCHANGED <<worker, slicer, sweep, card>>
    BY <1>13 DEF ManagedReserves
  <2>2. session' \in Seats
    BY <2>1 DEF Seats
  <2> QED
    BY <2>1, <2>2, HoldersDiffer DEF TasksInv, WorkerPlace, ManagedPlace, NoSession, Holders
<1>14. ASSUME NEW i \in Ids, NEW c \in Command, RawClaims(i, c) \/ ReplayReserves(i, c)
       PROVE  TasksInv'
  <2>1. session' \in {[who |-> "raw", pc |-> "publish", row |-> i], [who |-> "replay", pc |-> "receive", row |-> i]}
        /\ UNCHANGED <<worker, managed, slicer, sweep, card>>
    BY <1>14 DEF RawClaims, ReplayReserves, Session
  <2>2. session' \in Seats
    BY <2>1 DEF Seats, Publishing
  <2> QED
    BY <2>1, <2>2, SessionTasks
<1>15. ASSUME NEW c \in Command, JobClaims(c)
       PROVE  TasksInv'
  <2>1. session' \in Seats /\ session'.who = session.who /\ session'.row = session.row
    BY <1>15, HoldersDiffer DEF JobClaims, TasksInv, Seats, NoSession, Publishing, Holders
  <2> QED
    BY <1>15, <2>1, SessionTasks DEF JobClaims, TasksInv, ManagedPlace
<1> QED
  BY <1>1, <1>2, <1>3, <1>4, <1>5, <1>6, <1>7, <1>8, <1>9, <1>10, <1>11, <1>12, <1>13, <1>14, <1>15
     DEF LockHolderMoves

\* A pass over the pending rows is a sequence of receipts, each at most once.
LEMMA PassTyped ==
    ASSUME NEW todo \in [1 .. Cardinality(Pending) -> Pending]
    PROVE  todo \in Seq(Ids) /\ Len(todo) <= Cardinality(Ids)
<1>1. Pending \subseteq Ids
  BY DEF Pending
<1>2. Cardinality(Pending) \in Nat /\ Cardinality(Pending) <= Cardinality(Ids)
  BY <1>1, FS_Subset, FS_CardinalityType, IdentitiesAssumption
<1> DEFINE n == Cardinality(Pending)
<1> HIDE DEF n
<1>3. n \in Nat /\ todo \in [1 .. n -> Ids]
  BY <1>1, <1>2 DEF n
<1>4. todo \in Seq(Ids) /\ Len(todo) = n
  BY <1>3, SeqDef, LenProperties
<1> QED
  BY <1>2, <1>4 DEF n

\* Outside the lock the worker goes from one place to the next.
LEMMA WorkerSteps ==
    ASSUME TasksInv, session.who # "worker", UNCHANGED <<session, managed, slicer>>,
           sweep' \subseteq Ids, card' \subseteq Ids,
           worker' = worker \/ \E pc \in {"expire", "lock", "storage", "sweep", "pending", "rows"} :
                                   worker' = [worker EXCEPT !.pc = pc]
    PROVE  TasksInv'
BY DEF TasksInv, WorkerPlace, ManagedPlace

LEMMA WaitingPlace ==
    /\ Waiting \in [pc : {"wait"}, todo : Seq(Ids)] /\ Len(Waiting.todo) <= Cardinality(Ids)
    /\ Waiting.pc = "wait"
<1>1. Cardinality(Ids) \in Nat /\ <<>> \in Seq(Ids) /\ Len(<<>>) = 0
  BY FS_CardinalityType, IdentitiesAssumption
<1>2. Waiting.todo = <<>> /\ Waiting.pc = "wait"
  BY DEF Waiting
<1>3. Len(Waiting.todo) <= Cardinality(Ids)
  BY <1>1, <1>2
<1>4. Waiting \in [pc : {"wait"}, todo : Seq(Ids)]
  BY <1>1 DEF Waiting
<1> QED
  BY <1>2, <1>3, <1>4

LEMMA WorkerTasks ==
    ASSUME TasksInv, WorkerMoves
    PROVE  TasksInv'
<1> USE DEF WorkerOnly, Step, device
<1>0. sweep \subseteq Ids /\ card \subseteq Ids /\ Prunable \subseteq Ids
  BY DEF TasksInv, Prunable
<1>1. worker.pc # "locked" => session.who # "worker"
  BY DEF TasksInv, WorkerPlace
<1>2. CASE WorkerExpires
  BY <1>0, <1>1, <1>2, WorkerSteps DEF WorkerExpires
<1>3. CASE WorkerPrunes
  BY <1>0, <1>1, <1>3, WorkerSteps DEF WorkerPrunes
<1>4. CASE WorkerSelects
  <2>1. sweep' \subseteq Ids
    BY <1>0, <1>4 DEF WorkerSelects
  <2> QED
    BY <1>0, <1>1, <1>4, <2>1, WorkerSteps DEF WorkerSelects
<1>5. CASE WorkerSweeps
  <2>1. sweep' \subseteq Ids /\ card' \subseteq Ids
    BY <1>0, <1>5 DEF WorkerSweeps
  <2> QED
    BY <1>1, <1>5, <2>1, WorkerSteps DEF WorkerSweeps
<1>6. CASE WorkerLists
  <2>1. PICK todo \in [1 .. Cardinality(Pending) -> Pending] : worker' = [pc |-> "rows", todo |-> todo]
    BY <1>6 DEF WorkerLists
  <2>2. todo \in Seq(Ids) /\ Len(todo) <= Cardinality(Ids)
    BY PassTyped
  <2>3. WorkerPlace'
    BY <1>1, <1>6, <2>1, <2>2 DEF WorkerLists, WorkerPlace
  <2> QED
    BY <1>6, <2>3 DEF WorkerLists, TasksInv, ManagedPlace
<1>7. CASE WorkerTakesRow
  <2>1. session.who # "worker" /\ UNCHANGED <<session, managed, slicer, sweep, card>>
    BY <1>1, <1>7 DEF WorkerTakesRow
  <2>2. worker' = Waiting \/ (worker.todo # <<>> /\ \E pc \in {"upload", "dispatch"} : worker' = [worker EXCEPT !.pc = pc])
    BY <1>7 DEF WorkerTakesRow
  <2>3. ASSUME worker' = Waiting
        PROVE  WorkerPlace'
    BY <2>1, <2>3, WaitingPlace DEF WorkerPlace
  <2>4. WorkerPlace'
    BY <2>1, <2>2, <2>3 DEF TasksInv, WorkerPlace
  <2> QED
    BY <2>1, <2>4 DEF TasksInv, ManagedPlace
<1>8. CASE WorkerUploads
  <2>1. session.who # "worker" /\ UNCHANGED <<session, managed, slicer, sweep>> /\ worker.todo # <<>>
    BY <1>1, <1>8 DEF WorkerUploads, TasksInv, WorkerPlace
  <2>2. Head(worker.todo) \in Ids
    BY <2>1, HeadTailProperties DEF TasksInv, WorkerPlace
  <2>3. worker' = worker \/ worker' = [worker EXCEPT !.pc = "dispatch"]
    BY <1>8 DEF WorkerUploads
  <2>4. card' \subseteq Ids
    BY <1>0, <1>8, <2>2 DEF WorkerUploads
  <2>5. WorkerPlace'
    BY <2>1, <2>3 DEF TasksInv, WorkerPlace
  <2> QED
    BY <2>1, <2>4, <2>5 DEF TasksInv, ManagedPlace
<1> QED
  BY <1>2, <1>3, <1>4, <1>5, <1>6, <1>7, <1>8 DEF WorkerMoves

LEMMA TasksStep ==
    ASSUME TasksInv, [GatewayNext]_vars
    PROVE  TasksInv'
<1>1. CASE PrinterWorks
  BY <1>1, StillTasks DEF PrinterWorks, TakeStart, EndPrint, PowerCycle, PanelStart, AnswerPushall,
                          Reconnect, BecomesPrinting, Alone, device
<1>2. CASE BridgeListens
  BY <1>2, StillTasks DEF BridgeListens, TakeReport, Observe, WriteObserved, Time, Adopt, device
<1>3. CASE WorkerLocks
  <2>1. session' \in {[who |-> "worker", pc |-> "recover", row |-> None],
                      [who |-> "worker", pc |-> "check", row |-> Head(worker.todo)]}
    BY <1>3 DEF WorkerLocks, Session
  <2>2. session' = [who |-> "worker", pc |-> "recover", row |-> None] \/ worker.todo # <<>>
    BY <1>3 DEF WorkerLocks, Session, TasksInv, WorkerPlace
  <2>3. worker.todo # <<>> => Head(worker.todo) \in Ids
    BY HeadTailProperties DEF TasksInv, WorkerPlace
  <2>4. session' \in Seats
    BY <2>1, <2>2, <2>3 DEF Seats
  <2>5. worker' = [worker EXCEPT !.pc = "locked"] /\ UNCHANGED <<managed, slicer, sweep, card>>
    BY <1>3 DEF WorkerLocks, device
  <2> QED
    BY <2>1, <2>2, <2>4, <2>5 DEF TasksInv, WorkerPlace, ManagedPlace
<1>4. CASE GatewayRestart
  <2>1. /\ session' = NoSession /\ worker' = Waiting /\ managed' = NoManaged
        /\ slicer' = FALSE /\ sweep' = {} /\ UNCHANGED card
    BY <1>4 DEF GatewayRestart
  <2>2. session' \in Seats
    BY <2>1 DEF Seats
  <2>3. session'.who \notin Holders
    BY <2>1, HolderAssumption DEF NoSession
  <2>4. WorkerPlace'
    BY <2>1, <2>3, WaitingPlace DEF WorkerPlace, Holders
  <2>5. ManagedPlace'
    BY <2>1, <2>3 DEF ManagedPlace, Holders
  <2> QED
    BY <2>1, <2>2, <2>4, <2>5 DEF TasksInv
<1>5. CASE UNCHANGED vars
  BY <1>5, StillTasks DEF vars, device
<1> QED
  BY <1>1, <1>2, <1>3, <1>4, <1>5, ClientsTasks, HolderTasks, WorkerTasks DEF GatewayNext

-----------------------------------------------------------------------------
LEMMA InboxTyped ==
    ASSUME TypeOK, [Next]_inboxVars
    PROVE  TypeOK'
<1>1. CASE Next
  BY <1>1, ReceivingTyped, StartingTyped, ObservingTyped, ManagingTyped DEF Next
<1>2. CASE UNCHANGED inboxVars
  BY <1>2 DEF inboxVars, TypeOK
<1> QED
  BY <1>1, <1>2

LEMMA GatewayInitially == GatewayInit => Init /\ GatewayInv
<1> SUFFICES ASSUME GatewayInit
             PROVE  Init /\ GatewayInv
  OBVIOUS
<1>1. Init /\ TypeOK
  BY InitTyped DEF GatewayInit
<1>2. /\ session = NoSession /\ worker = Waiting /\ managed = NoManaged
      /\ slicer = FALSE /\ sweep = {} /\ card = {}
      /\ seen = None /\ inflight = None /\ reports = <<>> /\ asked = TRUE
      /\ wire = <<>> /\ printer = [state |-> "IDLE", job |-> NoJob]
  BY DEF GatewayInit, TasksInit
<1>3. session \in Seats /\ session.who \notin Holders
  BY <1>2, HolderAssumption DEF Seats, NoSession
<1>4. WorkerPlace /\ ManagedPlace
  BY <1>2, <1>3, WaitingPlace DEF WorkerPlace, ManagedPlace, Holders
<1>5. printer \in Printer
  BY <1>2 DEF Printer, PrinterState, NoJob, Job, Target
<1>6. DeviceInv
  BY <1>2, <1>5 DEF DeviceInv
<1> QED
  BY <1>1, <1>2, <1>3, <1>4, <1>6 DEF GatewayInv, TasksInv

LEMMA GatewayStep ==
    ASSUME GatewayInv, [GatewayNext]_vars
    PROVE  GatewayInv' /\ [Next]_inboxVars
<1>1. [Next]_inboxVars
  BY InboxStep DEF GatewayInv
<1>2. TypeOK'
  BY <1>1, InboxTyped DEF GatewayInv
<1>3. DeviceInv'
  BY PrinterDevice, OthersDevice DEF GatewayInv
<1> QED
  BY <1>1, <1>2, <1>3, TasksStep DEF GatewayInv

LEMMA GatewayInvHolds == GatewaySpec => []GatewayInv
<1>1. GatewayInit => GatewayInv
  BY GatewayInitially
<1>2. GatewayInv /\ [GatewayNext]_vars => GatewayInv'
  BY GatewayStep
<1> QED
  BY <1>1, <1>2, PTL DEF GatewaySpec

\* The variables of the tasks, the bridge and the printer's side keep their types, and a
\* task that holds the dispatch lock is at a place of its own code, with the row it is about.
THEOREM GatewayTyped == GatewaySpec => []GatewayTypeOK
<1>1. GatewayInv => GatewayTypeOK
  <2> SUFFICES ASSUME GatewayInv
               PROVE  GatewayTypeOK
    OBVIOUS
  <2> USE DEF GatewayInv
  <2>1. session \in [who : Holders \union {None},
                     pc : {"free", "recover", "await", "ready", "recheck", "freeze", "claim",
                           "publish", "sent", "unknown", "check", "checked", "receive",
                           "queue", "resolve"},
                     row : Ids \union {None}]
    BY DEF TasksInv, Seats, NoSession, Publishing, Holders
  <2>2. worker.todo \in UNION {[1 .. k -> Ids] : k \in 0 .. Cardinality(Ids)}
    <3>1. worker.todo \in Seq(Ids) /\ Len(worker.todo) <= Cardinality(Ids)
      BY DEF TasksInv, WorkerPlace
    <3>2. Len(worker.todo) \in Nat /\ worker.todo \in [1 .. Len(worker.todo) -> Ids]
      BY <3>1, LenProperties
    <3>3. Len(worker.todo) \in 0 .. Cardinality(Ids)
      BY <3>1, <3>2, FS_CardinalityType, IdentitiesAssumption
    <3> QED
      BY <3>2, <3>3
  <2>3. worker \in [pc : {"wait", "expire", "lock", "locked", "prune", "storage", "sweep",
                          "pending", "rows", "upload", "dispatch"},
                    todo : UNION {[1 .. k -> Ids] : k \in 0 .. Cardinality(Ids)}]
    BY <2>2 DEF TasksInv, WorkerPlace
  <2>4. managed \in [row : Ids \union {None}, pc : {"none", "job", "leave"}]
    BY DEF TasksInv, ManagedPlace, NoManaged
  <2>5. reports \in Seq(Evidences) /\ wire \in Seq(Job) /\ inflight \in Evidences \union {None}
    BY EvidenceTyped DEF DeviceInv, Starts
  <2> QED
    BY <2>1, <2>3, <2>4, <2>5 DEF GatewayTypeOK, TasksInv, DeviceInv, Printer
<1> QED
  BY <1>1, GatewayInvHolds, PTL

\* The gateway's tasks, in whatever order they run, only ever do what the inbox offers: the
\* gateway implements the inbox's own specification, so what is proved of the inbox for
\* every client holds here.
THEOREM GatewayImplementsInbox == GatewaySpec => Spec
<1>1. GatewayInit => Init
  BY GatewayInitially
<1>2. GatewayInv /\ [GatewayNext]_vars => [Next]_inboxVars
  BY GatewayStep
<1> QED
  BY <1>1, <1>2, GatewayInvHolds, PTL DEF GatewaySpec, Spec

(***************************************************************************)
(* No pending row is without its task.                                     *)
(*                                                                         *)
(* Two things the code allows are outside the theorem.  A raw client's task *)
(* may be cancelled after its claim, which strands the row until it        *)
(* expires; and where gcode_file names the file started, observe() may read *)
(* a row before its dispatch is recorded and write that state after it.    *)
(***************************************************************************)
\* The starts of rows some task has yet to take further or back.
InHand == {"reserved", "dispatching"}

\* A reservation is a managed job's or the replay's; a row being dispatched is the lock
\* holder's.  Observe() never decides that a row is being dispatched, and no raw client is here.
TakenInv ==
    /\ \A i \in Ids :
          /\ uploads[i].start = "reserved"
                => managed.row = i \/ (session.who = "replay" /\ session.row = i)
          /\ uploads[i].start = "dispatching" => session.row = i /\ session.pc \in Publishing
    /\ \A i \in Ids : verdicts[i].start # "dispatching"
    /\ session.who # "raw"

\* The printer names the inner plate of whatever it prints, never the file.
PlateEvidence == {e \in PrinterEvidence : e.merged.gcode = None}
PlateInv ==
    /\ MergedOf(printer).gcode = None
    /\ reports \in Seq(PlateEvidence)
    /\ inflight \in PlateEvidence \union {None}

(***************************************************************************)
(* What the printer names.                                                 *)
(***************************************************************************)
LEMMA PlateTyped ==
    /\ \A p \in Printer, i \in Ids, ok \in BOOLEAN :
          /\ Status(p).merged = MergedOf(p) /\ Answer(p, i, ok).merged = MergedOf(p)
          /\ MergedOf(p).gcode = None => Status(p) \in PlateEvidence /\ Answer(p, i, ok) \in PlateEvidence
    /\ \A p \in Printer : p.job.plate \/ p.job.target = None => MergedOf(p).gcode = None
<1>1. \A p \in Printer, i \in Ids, ok \in BOOLEAN :
         Status(p).merged = MergedOf(p) /\ Answer(p, i, ok).merged = MergedOf(p)
  BY DEF Status, Answer
<1>2. \A p \in Printer, i \in Ids, ok \in BOOLEAN :
         MergedOf(p).gcode = None => Status(p) \in PlateEvidence /\ Answer(p, i, ok) \in PlateEvidence
  BY <1>1, EvidenceTyped DEF PlateEvidence
<1>3. \A p \in Printer : p.job.plate \/ p.job.target = None => MergedOf(p).gcode = None
  BY DEF MergedOf
<1> QED
  BY <1>1, <1>2, <1>3

LEMMA PlateReports ==
    ASSUME PlateInv, NEW new \in Seq(PlateEvidence), Report2(new)
    PROVE  reports' \in Seq(PlateEvidence)
BY ConcatProperties DEF PlateInv, Report2

LEMMA PlateInit == GatewayInit => PlateInv
<1> SUFFICES ASSUME GatewayInit
             PROVE  PlateInv
  OBVIOUS
<1>1. printer = [state |-> "IDLE", job |-> NoJob] /\ reports = <<>> /\ inflight = None
  BY DEF GatewayInit, TasksInit
<1>2. MergedOf(printer).gcode = None
  BY <1>1 DEF MergedOf, NoJob
<1> QED
  BY <1>1, <1>2 DEF PlateInv

LEMMA PlatePrinter ==
    ASSUME "archive" \notin World, DeviceInv, PlateInv, PrinterWorks
    PROVE  PlateInv'
<1>0. /\ printer \in Printer /\ MergedOf(printer).gcode = None
      /\ reports \in Seq(PlateEvidence) /\ inflight \in PlateEvidence \union {None}
  BY DEF DeviceInv, PlateInv
<1>1. ASSUME NEW p \in Printer, p.job.plate \/ p.job.target = None
      PROVE  MergedOf(p).gcode = None /\ <<Status(p)>> \in Seq(PlateEvidence)
  <2>1. MergedOf(p).gcode = None
    BY <1>1, PlateTyped
  <2>2. Status(p) \in PlateEvidence
    BY <2>1, PlateTyped, EvidenceTyped DEF PlateEvidence, Status
  <2> QED
    BY <2>1, <2>2
<1>2. ASSUME NEW p \in Printer, MergedOf(p).gcode = None, BecomesPrinting(p)
      PROVE  PlateInv'
  <2>1. Status(p) \in PlateEvidence
    BY <1>2, EvidenceTyped DEF PlateEvidence, Status
  <2>2. <<Status(p)>> \in Seq(PlateEvidence)
    BY <2>1
  <2>3. printer' = p /\ Report2(<<Status(p)>>) /\ UNCHANGED inflight
    BY <1>2 DEF BecomesPrinting, Alone, bridge
  <2>4. reports' \in Seq(PlateEvidence)
    BY <2>2, <2>3, PlateReports
  <2>5. MergedOf(printer)'.gcode = None
    BY <1>2, <2>3 DEF MergedOf
  <2> QED
    BY <1>0, <2>3, <2>4, <2>5 DEF PlateInv
<1>3. ASSUME NEW plate \in BOOLEAN, TakeStart(plate)
      PROVE  PlateInv'
  <2> DEFINE s == [Head(wire) EXCEPT !.plate = plate]
             begun == [state |-> "RUNNING", job |-> s]
             taken == <<Answer(printer, s.id, TRUE), Status(begun)>>
             refused == <<Answer(printer, s.id, FALSE)>>
  <2>1. Head(wire) \in Starts /\ plate = TRUE
    BY <1>3, HeadTailProperties DEF TakeStart, DeviceInv
  <2>2. s \in Job /\ s.id \in Ids /\ s.plate
    BY <2>1 DEF Starts, Job
  <2>3. begun \in Printer /\ begun.job.plate
    BY <2>2 DEF Printer, PrinterState
  <2>4. \/ printer' = begun /\ Report2(taken)
        \/ printer' = printer /\ Report2(refused)
        \/ UNCHANGED <<printer, reports>>
    BY <1>3 DEF TakeStart
  <2>5. UNCHANGED inflight
    BY <1>3 DEF TakeStart, Alone, bridge
  <2> HIDE DEF begun
  <2>6. MergedOf(begun).gcode = None /\ Status(begun) \in PlateEvidence
    <3>1. MergedOf(begun).gcode = None
      BY <2>3, PlateTyped
    <3>2. Status(begun) \in PrinterEvidence
      BY <2>3, EvidenceTyped
    <3>3. Status(begun).merged = MergedOf(begun)
      BY DEF Status
    <3> QED
      BY <3>1, <3>2, <3>3 DEF PlateEvidence
  <2>7. Answer(printer, s.id, TRUE) \in PlateEvidence /\ Answer(printer, s.id, FALSE) \in PlateEvidence
    BY <1>0, <2>2, PlateTyped
  <2>8. \A a, b \in PlateEvidence : <<a, b>> \in Seq(PlateEvidence) /\ <<b>> \in Seq(PlateEvidence)
    OBVIOUS
  <2> HIDE DEF s
  <2>9. taken \in Seq(PlateEvidence) /\ refused \in Seq(PlateEvidence)
    BY <2>6, <2>7, <2>8
  <2> HIDE DEF taken, refused
  <2>10. reports' \in Seq(PlateEvidence)
    BY <1>0, <2>4, <2>9, PlateReports
  <2>11. MergedOf(printer)'.gcode = None
    BY <1>0, <2>4, <2>6 DEF MergedOf
  <2> QED
    BY <1>0, <2>5, <2>10, <2>11 DEF PlateInv
<1>4. CASE EndPrint
  <2>1. PICK s \in {"FINISH", "FAILED"} : BecomesPrinting([printer EXCEPT !.state = s])
    BY <1>4 DEF EndPrint
  <2>2. [printer EXCEPT !.state = s] \in Printer
    BY <1>0 DEF Printer, PrinterState
  <2>3. MergedOf([printer EXCEPT !.state = s]).gcode = None
    BY <1>0 DEF MergedOf, Printer
  <2> QED
    BY <2>1, <2>2, <2>3, <1>2
<1>5. CASE PowerCycle
  <2> DEFINE p == [state |-> "IDLE", job |-> NoJob]
  <2>1. p \in Printer /\ p.job.target = None
    BY DEF Printer, PrinterState, NoJob, Job, Target
  <2> QED
    BY <1>5, <2>1, <1>1, <1>2 DEF PowerCycle
<1>6. CASE PanelStart
  <2>1. PICK n \in Names : BecomesPrinting(
            [state |-> "RUNNING",
             job |-> [id |-> None, target |-> n, task |-> n, plate |-> TRUE]])
    BY <1>6 DEF PanelStart
  <2> DEFINE p == [state |-> "RUNNING",
                   job |-> [id |-> None, target |-> n, task |-> n, plate |-> TRUE]]
  <2>2. p \in Printer /\ p.job.plate
    BY DEF Printer, PrinterState, Job, Target
  <2> QED
    BY <2>1, <2>2, <1>1, <1>2
<1>7. CASE AnswerPushall
  <2>1. Report2(<<Status(printer)>>) /\ UNCHANGED <<printer, inflight>>
    BY <1>7 DEF AnswerPushall, Alone, bridge
  <2>2. Status(printer) \in PlateEvidence
    BY <1>0, EvidenceTyped DEF PlateEvidence, Status
  <2>3. <<Status(printer)>> \in Seq(PlateEvidence)
    BY <2>2
  <2>4. reports' \in Seq(PlateEvidence)
    BY <2>1, <2>3, PlateReports
  <2> QED
    BY <1>0, <2>1, <2>4 DEF PlateInv, MergedOf
<1>8. CASE Reconnect
  BY <1>0, <1>8 DEF Reconnect, Alone, bridge, PlateInv, MergedOf
<1> QED
  BY <1>3, <1>4, <1>5, <1>6, <1>7, <1>8 DEF PrinterWorks

LEMMA PlateOthers ==
    ASSUME DeviceInv, PlateInv, [GatewayNext]_vars, ~ PrinterWorks
    PROVE  PlateInv'
<1> DEFINE Quiet == UNCHANGED <<inflight, reports, printer>>
<1>0. Quiet => PlateInv'
  BY DEF PlateInv, MergedOf
<1> USE DEF Locked, WorkerOnly, bridge, device, tasks
<1>1. CASE TakeReport
  <2>1. Head(reports) \in PlateEvidence /\ Tail(reports) \in Seq(PlateEvidence)
    BY <1>1, HeadTailProperties DEF TakeReport, PlateInv
  <2>2. inflight' = Head(reports) /\ reports' = Tail(reports) /\ UNCHANGED printer
    BY <1>1 DEF TakeReport
  <2> QED
    BY <2>1, <2>2 DEF PlateInv, MergedOf
<1>2. CASE Observe
  BY <1>2 DEF Observe, PlateInv, MergedOf
<1>3. CASE GatewayRestart
  BY <1>3 DEF GatewayRestart, PlateInv, MergedOf
<1>4. CASE UNCHANGED vars
  BY <1>4, <1>0 DEF vars
<1>5. CASE WriteObserved \/ \E i \in Ids : Time(i) \/ \E c \in Command : Adopt(i, c)
  BY <1>5, <1>0 DEF WriteObserved, Time, Adopt
<1>6. CASE ClientsAct
  BY <1>6, <1>0 DEF ClientsAct, RawEnters, RawCancelled, ManagedEnters, JobEnters, JobLeaves,
                    StopCommand, OrcaUpload, OrcaStarts, OrcaHeld, ReplayEnters, OwnerActs,
                    OwnerResolves, Acquire
<1>7. CASE LockHolderMoves
  <2>1. CASE EnsureIdle \/ Refused \/ AsksStatus \/ RecoverLostStart \/ Freeze \/ Publish \/ RecordDispatch
    BY <2>1, <1>0 DEF EnsureIdle, Refused, AsksStatus, RecoverLostStart, Freeze, Publish, RecordDispatch
  <2>2. CASE ReplayChecks \/ ReplaySeals \/ ReplayEnds \/ OwnerResolved \/ WorkerChecks \/ WorkerBlocks
             \/ WorkerClaims
    BY <2>2, <1>0 DEF ReplayChecks, ReplaySeals, ReplayEnds, OwnerResolved, WorkerChecks, WorkerBlocks,
                      WorkerClaims
  <2>3. ASSUME NEW i \in Ids, NEW c, ManagedReserves(i) \/ RawClaims(i, c) \/ ReplayReserves(i, c)
        PROVE  PlateInv'
    BY <2>3, <1>0 DEF ManagedReserves, RawClaims, ReplayReserves
  <2>4. ASSUME NEW c, JobClaims(c)
        PROVE  PlateInv'
    BY <2>4, <1>0 DEF JobClaims
  <2> QED
    BY <1>7, <2>1, <2>2, <2>3, <2>4 DEF LockHolderMoves
<1>8. CASE WorkerLocks \/ WorkerMoves
  BY <1>8, <1>0 DEF WorkerLocks, WorkerMoves, WorkerExpires, WorkerPrunes, WorkerSelects, WorkerSweeps,
                    WorkerLists, WorkerTakesRow, WorkerUploads
<1> QED
  BY <1>1, <1>2, <1>3, <1>4, <1>5, <1>6, <1>7, <1>8 DEF GatewayNext, BridgeListens

LEMMA PlateInvHolds ==
    ASSUME "archive" \notin World
    PROVE  GatewaySpec => []PlateInv
<1>1. GatewayInv /\ PlateInv /\ [GatewayNext]_vars => PlateInv'
  BY PlatePrinter, PlateOthers DEF GatewayInv
<1> QED
  BY <1>1, PlateInit, GatewayInvHolds, PTL DEF GatewaySpec

\* A report that names no file changes a row still being dispatched only to another state.
LEMMA DispatchingDecided ==
    ASSUME TypeOK, LiveInv, NEW i \in Ids, NEW e \in PlateEvidence,
           Changed(i, Lifecycle(i, e))
    PROVE  Lifecycle(i, e).start # "dispatching"
<1> DEFINE row == uploads[i]
           answered == e.report.ack = i /\ row.kind # "observed"
           acked == row.ack \/ (answered /\ e.report.ok)
           matches == Matches(i, e, acked)
           printing == matches /\ e.report.state \in ActiveStates
           ack == acked \/ (printing /\ row.kind = "upload")
           active == row.active \/ printing
<1> SUFFICES ASSUME Lifecycle(i, e).start = "dispatching"
             PROVE  FALSE
  OBVIOUS
<1>1. /\ row.start = "dispatching" /\ ~ (answered /\ e.report.ok) /\ ~ (printing /\ ack)
      /\ Lifecycle(i, e).ack = ack /\ Lifecycle(i, e).active = active
  BY DEF Lifecycle
<1>2. row.kind = "observed" => row.ack
  BY DEF LiveInv, RowFits, KindFits
<1>3. e.merged.gcode = None
  BY DEF PlateEvidence
<1>4. acked = row.ack /\ row.ack \in BOOLEAN /\ row.active \in BOOLEAN
  BY <1>1 DEF TypeOK, Row
<1>5. ~ printing
  BY <1>1, <1>2, <1>3, <1>4 DEF Matches
<1>6. Lifecycle(i, e).ack = row.ack /\ Lifecycle(i, e).active = row.active
  BY <1>1, <1>4, <1>5
<1> QED
  BY <1>1, <1>6 DEF Changed

(***************************************************************************)
(* Calls of the inbox that put no row into a task's hands.                 *)
(***************************************************************************)
Kept ==
    /\ \A i \in Ids : uploads'[i].start \in InHand => uploads'[i].start = uploads[i].start
    /\ \A i \in Ids : verdicts'[i] \in {verdicts[i], NoVerdict}

LEMMA InHandStates ==
    /\ InHand \intersect ({None, "queued", "sent", "unknown"} \union TerminalStates) = {}
    /\ InHand \subseteq OwnerStates /\ "reserved" \in PendingStates /\ "dispatching" \in TrackedStates
    /\ NoVerdict.start = None
BY StatesDisjoint, NullAssumption
   DEF InHand, PendingStates, TrackedStates, OwnerStates, TerminalStates, NoVerdict

LEMMA PutKept ==
    ASSUME TypeOK, NEW i, NEW row, Put(i, row),
           i \in Ids /\ row.start \in InHand => row.start = uploads[i].start
    PROVE  Kept
BY DEF TypeOK, Put, Kept

LEMMA UpdateKept ==
    ASSUME TypeOK, UNCHANGED verdicts, \A i \in Ids : uploads'[i] = uploads[i] \/ uploads'[i].start \notin InHand
                                                  \/ uploads'[i].start = uploads[i].start
    PROVE  Kept
BY DEF Kept

LEMMA StillKept == UNCHANGED inboxVars => Kept
BY DEF inboxVars, Kept

LEMMA ReceivingKept ==
    ASSUME TypeOK, NEW i \in Ids,
           \/ \E n \in Names, p \in Peers : Reserve(i, n, p)
           \/ Seal(i) \/ Fail(i) \/ QueueReplay(i) \/ AbandonReplay(i)
    PROVE  Kept
<1>0. uploads[i] \in Row
  BY DEF TypeOK
<1>1. ASSUME NEW n \in Names, NEW p \in Peers, Reserve(i, n, p)
      PROVE  Kept
  <2>1. NewUpload(i, n, p).start = None
    BY DEF NewUpload, Absent
  <2> QED
    BY <1>1, <2>1, PutKept, InHandStates DEF Reserve
<1>2. CASE Seal(i)
  BY <1>0, <1>2, PutKept DEF Seal, Row
<1>3. CASE Fail(i)
  <2> DEFINE row == [uploads[i] EXCEPT
                       !.state = "failed", !.dismissed = FALSE,
                       !.start = IF @ \in PendingStates THEN "blocked" ELSE @]
  <2>1. Put(i, row)
    BY <1>3 DEF Fail
  <2>2. row.start \in {uploads[i].start, "blocked"}
    BY <1>0 DEF Row
  <2> HIDE DEF row
  <2> QED
    BY <2>1, <2>2, PutKept DEF InHand
<1>4. CASE QueueReplay(i)
  <2> DEFINE row == [uploads[i] EXCEPT !.start = "queued", !.age = 0]
  <2>1. Put(i, row) /\ row.start = "queued"
    BY <1>0, <1>4 DEF QueueReplay, Row
  <2> HIDE DEF row
  <2> QED
    BY <2>1, PutKept DEF InHand
<1>5. CASE AbandonReplay(i)
  <2> DEFINE row == [uploads[i] EXCEPT !.state = "failed", !.start = "cancelled"]
  <2>1. Put(i, row) /\ row.start = "cancelled"
    BY <1>0, <1>5 DEF AbandonReplay, Row
  <2> HIDE DEF row
  <2> QED
    BY <2>1, PutKept DEF InHand
<1> QED
  BY <1>1, <1>2, <1>3, <1>4, <1>5

LEMMA HoldKept ==
    ASSUME TypeOK, NEW p \in Peers, NEW c \in Command, HoldStart(p, c)
    PROVE  Kept
<1> DEFINE i == Newest(Candidates(c.name, p))
<1>1. Put(i, Held(i, c))
  BY DEF HoldStart
<1> HIDE DEF i
<1>2. i \in Ids => Held(i, c).start \in {uploads[i].start, "queued"}
  BY DEF Held, TypeOK, Row
<1> QED
  BY <1>1, <1>2, PutKept DEF InHand

LEMMA StartingKept ==
    ASSUME TypeOK, NEW i \in Ids,
           \/ BeginDelivery(i) \/ Delivered(i) \/ FreezeAccounting(i) \/ BlockStart(i)
           \/ \E outcome \in {"sent", "unknown"} : Dispatched(i, outcome)
           \/ AbandonReserved(i)
           \/ \E c \in Command : AdoptRunningPrint(i, c)
    PROVE  Kept
<1>0. uploads[i] \in Row
  BY DEF TypeOK
<1>1. CASE BeginDelivery(i) \/ Delivered(i) \/ FreezeAccounting(i)
  BY <1>0, <1>1, PutKept DEF BeginDelivery, Delivered, FreezeAccounting, Row
<1>2. CASE BlockStart(i)
  <2> DEFINE row == [uploads[i] EXCEPT !.start = "blocked", !.dismissed = FALSE]
  <2>1. Put(i, row) /\ row.start = "blocked"
    BY <1>0, <1>2 DEF BlockStart, Row
  <2> HIDE DEF row
  <2> QED
    BY <2>1, PutKept DEF InHand
<1>3. ASSUME NEW start \in {"sent", "unknown", "cancelled"}, PutStart(i, start)
      PROVE  Kept
  <2> DEFINE row == [uploads[i] EXCEPT !.start = start]
  <2>1. Put(i, row) /\ row.start = start
    BY <1>0, <1>3 DEF PutStart, Row
  <2> HIDE DEF row
  <2> QED
    BY <2>1, PutKept DEF InHand
<1>4. ASSUME NEW c \in Command, AdoptRunningPrint(i, c)
      PROVE  Kept
  <2> DEFINE row == [NewExternal(c) EXCEPT
                       !.kind = "observed", !.start = "running", !.sealed = TRUE,
                       !.frozen = TRUE, !.ack = TRUE, !.active = TRUE,
                       !.dispatched = TRUE]
  <2>1. Put(i, row) /\ row.start = "running"
    BY <1>4 DEF AdoptRunningPrint, NewExternal, Absent
  <2> HIDE DEF row
  <2> QED
    BY <2>1, PutKept DEF InHand
<1> QED
  BY <1>1, <1>2, <1>3, <1>4 DEF Dispatched, AbandonReserved

LEMMA ObservingKept ==
    ASSUME TypeOK, ClaimInv, TakenInv,
           ObserveWrite \/ ExpireDispatch \/ ExpireQueued \/ \E i \in Ids : Elapse(i)
    PROVE  Kept
<1>0. \A i \in Ids : uploads[i] \in Row
  BY DEF TypeOK
<1>1. CASE ObserveWrite
  <2>1. \A i \in Ids : verdicts[i] # NoVerdict => verdicts[i].start \notin InHand
    BY StatesDisjoint, InHandStates DEF ClaimInv, TakenInv, InHand, PendingStates
  <2>2. \A i \in Ids : \/ uploads'[i] = uploads[i]
                       \/ verdicts[i] # NoVerdict /\ uploads'[i].start = verdicts[i].start
    BY <1>0, <1>1 DEF ObserveWrite, Row
  <2>3. \A i \in Ids : verdicts'[i] = NoVerdict
    BY <1>1 DEF ObserveWrite
  <2> QED
    BY <2>1, <2>2, <2>3 DEF Kept
<1>2. CASE ExpireDispatch
  <2>1. \A i \in Ids : uploads'[i] = uploads[i] \/ uploads'[i].start = "unknown"
    BY <1>0, <1>2 DEF ExpireDispatch, UpdateAll, Row
  <2> QED
    BY <1>2, <2>1, UpdateKept DEF ExpireDispatch, UpdateAll, InHand
<1>3. CASE ExpireQueued
  <2>1. \A i \in Ids : uploads'[i] = uploads[i] \/ uploads'[i].start = "blocked"
    BY <1>0, <1>3 DEF ExpireQueued, UpdateAll, Row
  <2> QED
    BY <1>3, <2>1, UpdateKept DEF ExpireQueued, UpdateAll, InHand
<1>4. ASSUME NEW i \in Ids, Elapse(i)
      PROVE  Kept
  BY <1>0, <1>4, PutKept DEF Elapse, Row
<1> QED
  BY <1>1, <1>2, <1>3, <1>4

LEMMA ManagingKept ==
    ASSUME TypeOK,
           \/ \E i \in Ids : \/ ResolveRead(i) \/ Cancel(i) \/ RetryDelivery(i) \/ Discard(i)
                             \/ PruneLocal(i) \/ PruneReceipt(i)
           \/ ResolveWrite \/ CancelQueued \/ AcknowledgePastReviews
    PROVE  Kept
<1>0. \A i \in Ids : uploads[i] \in Row
  BY DEF TypeOK
<1>1. ASSUME NEW i \in Ids, ResolveRead(i)
      PROVE  Kept
  BY <1>1 DEF ResolveRead, Kept
<1>2. ASSUME NEW i \in Ids, Cancel(i)
      PROVE  Kept
  <2> DEFINE row == [uploads[i] EXCEPT !.start = "cancelled"]
  <2>1. Put(i, row) /\ row.start = "cancelled"
    BY <1>0, <1>2 DEF Cancel, PutStart, Row
  <2> HIDE DEF row
  <2> QED
    BY <2>1, PutKept DEF InHand
<1>3. ASSUME NEW i \in Ids, RetryDelivery(i) \/ Discard(i) \/ PruneLocal(i)
      PROVE  Kept
  BY <1>0, <1>3, PutKept DEF RetryDelivery, Discard, PruneLocal, Row
<1>4. ASSUME NEW i \in Ids, PruneReceipt(i)
      PROVE  Kept
  <2> DEFINE row == [Absent EXCEPT !.state = "forgotten", !.rowid = uploads[i].rowid]
  <2>1. Put(i, row) /\ row.start = None
    BY <1>4 DEF PruneReceipt, Absent
  <2> HIDE DEF row
  <2> QED
    BY <2>1, PutKept, InHandStates
<1>5. CASE ResolveWrite
  <2>1. \A i \in Ids : uploads'[i] = uploads[i] \/ uploads'[i].start = "resolved"
    BY <1>0, <1>5 DEF ResolveWrite, TypeOK, Row
  <2> QED
    BY <1>5, <2>1, UpdateKept DEF ResolveWrite, InHand
<1>6. CASE CancelQueued
  <2>1. \A i \in Ids : uploads'[i] = uploads[i] \/ uploads'[i].start = "cancelled"
    BY <1>0, <1>6 DEF CancelQueued, UpdateAll, Row
  <2> QED
    BY <1>6, <2>1, UpdateKept DEF CancelQueued, UpdateAll, InHand
<1>7. CASE AcknowledgePastReviews
  <2>1. \A i \in Ids : uploads'[i].start = uploads[i].start
    BY <1>0, <1>7 DEF AcknowledgePastReviews, UpdateAll, Row
  <2> QED
    BY <1>7, <2>1, UpdateKept DEF AcknowledgePastReviews, UpdateAll
<1> QED
  BY <1>1, <1>2, <1>3, <1>4, <1>5, <1>6, <1>7

(***************************************************************************)
(* Every step leaves what is in hand in a task's hands.                    *)
(***************************************************************************)
\* A call that puts no row in hand, while the tasks keep what they hold, or hand it over.
LEMMA KeptTaken ==
    ASSUME TakenInv, Kept, session'.who # "raw",
           \A i \in Ids :
              /\ uploads'[i].start = "reserved" /\ uploads[i].start = "reserved" =>
                    /\ managed.row = i => managed'.row = i
                    /\ session.who = "replay" /\ session.row = i
                          => session'.who = "replay" /\ session'.row = i
              /\ uploads'[i].start = "dispatching" /\ uploads[i].start = "dispatching"
                    => /\ session.row = i /\ session.pc \in Publishing
                          => session'.row = i /\ session'.pc \in Publishing
    PROVE  TakenInv'
<1>1. \A i \in Ids : verdicts'[i].start # "dispatching"
  BY InHandStates DEF Kept, TakenInv, InHand
<1>2. \A i \in Ids : uploads'[i].start = "reserved" => uploads[i].start = "reserved"
  BY DEF Kept, InHand
<1>3. \A i \in Ids : uploads'[i].start = "dispatching" => uploads[i].start = "dispatching"
  BY DEF Kept, InHand
<1> QED
  BY <1>1, <1>2, <1>3 DEF TakenInv

LEMMA StillTaken ==
    ASSUME TakenInv, Kept, UNCHANGED <<session, managed>>
    PROVE  TakenInv'
BY KeptTaken DEF TakenInv

\* The lock's holder goes on with the same row.
LEMMA GoTaken ==
    ASSUME TakenInv, Kept, UNCHANGED managed, session'.who = session.who, session'.row = session.row,
           session.pc \in Publishing => session'.pc \in Publishing
    PROVE  TakenInv'
BY KeptTaken DEF TakenInv

\* The lock's holder has no row in its hands any more, and another may follow it.
LEMMA PassTaken ==
    ASSUME TakenInv, Kept, UNCHANGED managed, session'.who # "raw",
           session.pc \in Publishing /\ session.row \in Ids
              => uploads'[session.row].start # "dispatching",
           session.who = "replay" /\ session.row \in Ids
              => uploads'[session.row].start # "reserved"
    PROVE  TakenInv'
BY KeptTaken DEF TakenInv

\* A claim by the lock's holder, which had not published anything.
LEMMA ClaimTaken ==
    ASSUME TypeOK, TakenInv, NEW i \in Ids, NEW row, row = uploads[i] \/ row \in Row, Claimed(i, row),
           session.pc \notin Publishing, session.who # "replay", UNCHANGED managed,
           session'.who = session.who, session'.row = i, session'.pc = "publish"
    PROVE  TakenInv'
<1>0. row \in Row
  BY DEF TypeOK
<1> DEFINE new == [row EXCEPT !.start = "dispatching", !.dispatched = TRUE, !.age = 0]
<1>1. Put(i, new) /\ new.start = "dispatching"
  BY <1>0 DEF Claimed, Row
<1> HIDE DEF new
<1>2. /\ uploads'[i].start = "dispatching" /\ verdicts' = verdicts
      /\ \A j \in Ids \ {i} : uploads'[j] = uploads[j]
  BY <1>1 DEF Put, TypeOK
<1> QED
  BY <1>2 DEF TakenInv, Publishing

\* Where a task without a row, or with one that is not yet in its hands, gives the lock back.
LEMMA SeatsWithoutRow ==
    ASSUME TasksInv
    PROVE  /\ session.pc \in {"recover", "await", "free"} => session.row = None
           /\ session.who = "replay" => session.pc \notin Publishing
           /\ session.who = "replay" /\ session.pc \in {"ready", "check", "checked", "recheck", "claim"}
                 => session.row = None
           /\ None \notin Ids
           /\ session.pc = "free" => session.who # "replay"
           /\ session.who = None => session = NoSession
<1>1. \A w \in Holders : w # None
  BY HoldersDiffer
<1> QED
  BY <1>1, IdentitiesAssumption DEF TasksInv, Seats, NoSession, Publishing, Holders

LEMMA ClientsTaken ==
    ASSUME "raw" \notin Callers, TypeOK, TasksInv, TakenInv, ClientsAct
    PROVE  TakenInv'
<1>1. ASSUME NEW who \in {"managed", "slicer", "replay"}, NEW pc, Acquire(who, pc, None)
      PROVE  TakenInv'
  <2>1. session = NoSession /\ session'.who = who /\ UNCHANGED <<inboxVars, managed>>
    BY <1>1 DEF Acquire, Free, Session, Locked
  <2>2. session.pc \notin Publishing /\ session.row \notin Ids
    BY <2>1, SeatsWithoutRow DEF NoSession, Publishing
  <2> QED
    BY <2>1, <2>2, StillKept, PassTaken
<1>2. CASE RawEnters \/ ManagedEnters \/ OrcaStarts \/ ReplayEnters
  BY <1>1, <1>2 DEF RawEnters, ManagedEnters, OrcaStarts, ReplayEnters
<1>3. CASE RawCancelled
  BY <1>3 DEF RawCancelled, At, TakenInv
<1>4. CASE JobEnters
  <2>1. session = NoSession /\ session'.who = "job" /\ managed'.row = managed.row /\ UNCHANGED inboxVars
    BY <1>4 DEF JobEnters, Free, Session, TasksInv, ManagedPlace, NoManaged
  <2>2. session.pc \notin Publishing /\ session.row \notin Ids
    BY <2>1, SeatsWithoutRow DEF NoSession, Publishing
  <2>3. Kept
    BY <2>1, StillKept
  <2> QED
    BY <2>1, <2>2, <2>3, KeptTaken
<1>5. CASE JobLeaves
  <2>1. managed.row \in Ids /\ uploads[managed.row] \in Row
    BY <1>5 DEF JobLeaves, TasksInv, ManagedPlace, TypeOK
  <2>2. AbandonReserved(managed.row) \/ (uploads[managed.row].start # "reserved" /\ UNCHANGED inboxVars)
    BY <1>5 DEF JobLeaves
  <2>3. Kept
    BY <2>1, <2>2, StartingKept, StillKept
  <2>4. uploads'[managed.row].start # "reserved"
    BY <2>1, <2>2 DEF AbandonReserved, PutStart, Put, TypeOK, Row, inboxVars
  <2>5. UNCHANGED session /\ session'.who # "raw"
    BY <1>5 DEF JobLeaves, TakenInv
  <2> QED
    BY <2>3, <2>4, <2>5, KeptTaken
<1>6. CASE StopCommand
  BY <1>6, ManagingKept, StillTaken DEF StopCommand, tasks
<1>7. CASE OrcaUpload
  <2>1. PICK i \in Ids : \/ \E n \in Names, p \in Peers : Reserve(i, n, p)
                         \/ Seal(i) \/ Fail(i)
    BY <1>7 DEF OrcaUpload
  <2> QED
    BY <1>7, <2>1, ReceivingKept, StillTaken DEF OrcaUpload, tasks
<1>8. CASE OrcaHeld
  BY <1>8, HoldKept, StillKept, StillTaken DEF OrcaHeld
<1>9. CASE OwnerActs
  BY <1>9, ManagingKept, StillTaken DEF OwnerActs, tasks
<1>10. CASE \E i \in Ids : OwnerResolves(i)
  <2>1. PICK i \in Ids : OwnerResolves(i)
    BY <1>10
  <2>2. session = NoSession /\ session'.who = "owner" /\ UNCHANGED managed /\ ResolveRead(i)
    BY <2>1 DEF OwnerResolves, Free, Session, Locked
  <2>3. session.pc \notin Publishing /\ session.row \notin Ids
    BY <2>2, SeatsWithoutRow DEF NoSession, Publishing
  <2> QED
    BY <2>2, <2>3, ManagingKept, PassTaken
<1> QED
  BY <1>2, <1>3, <1>4, <1>5, <1>6, <1>7, <1>8, <1>9, <1>10 DEF ClientsAct

LEMMA HolderTaken ==
    ASSUME "raw" \notin Callers, TypeOK, TasksInv, TakenInv, LockHolderMoves
    PROVE  TakenInv'
<1> USE DEF Locked, Goto, At
<1>0. \A w \in Holders : w # None
  BY HoldersDiffer
<1>1. CASE EnsureIdle
  <2>1. session.pc \notin Publishing
    BY <1>1 DEF EnsureIdle, Publishing
  <2>2. session'.who = session.who /\ session'.row = session.row
    BY <1>1 DEF EnsureIdle, TasksInv, Seats, NoSession
  <2> QED
    BY <1>1, <2>1, <2>2, StillKept, GoTaken DEF EnsureIdle
<1>2. CASE Refused
  <2>1. session.pc \notin Publishing /\ (session.who = "replay" => session.row \notin Ids)
    BY <1>2, SeatsWithoutRow DEF Refused, Publishing
  <2>2. session'.who # "raw" /\ UNCHANGED <<inboxVars, managed>>
    BY <1>0, <1>2 DEF Refused, NoSession, Holders
  <2> QED
    BY <2>1, <2>2, StillKept, PassTaken
<1>3. CASE AsksStatus \/ Freeze \/ Publish \/ ReplayChecks
  <2>1. session'.who = session.who /\ session'.row = session.row /\ UNCHANGED managed
        /\ (session.pc \in Publishing => session'.pc \in Publishing)
    BY <1>3 DEF AsksStatus, Freeze, Publish, ReplayChecks, Publishing, TasksInv, Seats, NoSession
  <2>2. Kept
    <3>1. CASE Freeze
      <4>1. session.row \in Ids
        BY <3>1 DEF Freeze, TasksInv, Seats, NoSession, Publishing
      <4> QED
        BY <3>1, <4>1, StartingKept, StillKept DEF Freeze
    <3>2. CASE AsksStatus \/ Publish \/ ReplayChecks
      BY <3>2, StillKept DEF AsksStatus, Publish, ReplayChecks
    <3> QED
      BY <1>3, <3>1, <3>2
  <2> QED
    BY <2>1, <2>2, GoTaken
<1>4. CASE RecoverLostStart
  <2>1. session.row \notin Ids
    BY <1>4, SeatsWithoutRow DEF RecoverLostStart
  <2>2. session'.who # "raw" /\ UNCHANGED <<inboxVars, managed>>
    BY <1>0, <1>4 DEF RecoverLostStart, NoSession, Holders, TakenInv, TasksInv, Seats
  <2> QED
    BY <2>1, <2>2, StillKept, PassTaken
<1>5. CASE RecordDispatch
  <2>1. session.row \in Ids /\ session.pc \in {"sent", "unknown"} /\ session.who # "replay"
    BY <1>5, SeatsWithoutRow DEF RecordDispatch, Publishing, TasksInv, Seats, NoSession
  <2>2. Kept /\ uploads'[session.row].start # "dispatching"
    <3>1. CASE uploads[session.row].start = "dispatching"
      <4>1. Dispatched(session.row, session.pc)
        BY <1>5, <3>1 DEF RecordDispatch
      <4>2. uploads'[session.row].start = session.pc
        BY <2>1, <4>1 DEF Dispatched, PutStart, Put, TypeOK, Row
      <4>3. Kept
        BY <2>1, <4>1, StartingKept
      <4> QED
        BY <2>1, <4>2, <4>3
    <3>2. CASE uploads[session.row].start # "dispatching"
      BY <1>5, <3>2, StillKept DEF RecordDispatch, inboxVars
    <3> QED
      BY <3>1, <3>2
  <2>3. session'.who # "raw" /\ UNCHANGED managed
    BY <1>0, <1>5 DEF RecordDispatch, NoSession, Holders
  <2> QED
    BY <2>1, <2>2, <2>3, PassTaken
<1>6. CASE ReplaySeals
  <2>1. session.row \in Ids /\ session.pc \notin Publishing
    BY <1>6 DEF ReplaySeals, Publishing, TasksInv, Seats, NoSession
  <2>2. Kept
    BY <1>6, <2>1, ReceivingKept DEF ReplaySeals
  <2>3. session'.who = session.who /\ session'.row = session.row /\ UNCHANGED managed
    BY <1>6 DEF ReplaySeals, TasksInv, Seats, NoSession
  <2> QED
    BY <2>1, <2>2, <2>3, GoTaken
<1>7. CASE ReplayEnds
  <2>1. session.row \in Ids /\ session.pc \notin Publishing /\ uploads[session.row] \in Row
    BY <1>7 DEF ReplayEnds, Publishing, TasksInv, Seats, NoSession, TypeOK
  <2>2. QueueReplay(session.row) \/ AbandonReplay(session.row)
    BY <1>7 DEF ReplayEnds
  <2>3. Kept
    BY <2>1, <2>2, ReceivingKept
  <2>4. uploads'[session.row].start # "reserved"
    <3> DEFINE queued == [uploads[session.row] EXCEPT !.start = "queued", !.age = 0]
               cancelled == [uploads[session.row] EXCEPT !.state = "failed", !.start = "cancelled"]
    <3>1. queued.start = "queued" /\ cancelled.start = "cancelled"
      BY <2>1 DEF Row
    <3>2. Put(session.row, queued) \/ Put(session.row, cancelled)
      BY <2>2 DEF QueueReplay, AbandonReplay
    <3> HIDE DEF queued, cancelled
    <3> QED
      BY <2>1, <3>1, <3>2 DEF Put, TypeOK
  <2>5. session'.who # "raw" /\ UNCHANGED managed
    BY <1>0, <1>7 DEF ReplayEnds, NoSession, Holders
  <2> QED
    BY <2>1, <2>3, <2>4, <2>5, PassTaken
<1>8. CASE OwnerResolved
  <2>1. session.pc \notin Publishing /\ session.who # "replay" /\ session'.who # "raw" /\ UNCHANGED managed
    BY <1>0, <1>8 DEF OwnerResolved, Publishing, NoSession, Holders
  <2>2. Kept
    BY <1>8, ManagingKept DEF OwnerResolved
  <2> QED
    BY <2>1, <2>2, PassTaken
<1>9. CASE WorkerChecks \/ WorkerBlocks
  <2>1. session.pc \notin Publishing /\ session.who = "worker" /\ session.row \in Ids /\ UNCHANGED managed
    BY <1>9 DEF WorkerChecks, WorkerBlocks, Publishing, TasksInv, Seats, NoSession
  <2>2. session'.who # "raw"
    BY <1>0, <1>9, <2>1 DEF WorkerChecks, WorkerBlocks, NoSession, Holders, TasksInv, Seats
  <2>3. Kept
    BY <1>9, <2>1, StillKept, StartingKept DEF WorkerChecks, WorkerBlocks
  <2> QED
    BY <2>1, <2>2, <2>3, PassTaken
<1>10. CASE WorkerClaims
  <2>1. session.pc \notin Publishing /\ session.who = "worker" /\ session.row \in Ids /\ UNCHANGED managed
    BY <1>10 DEF WorkerClaims, Publishing, TasksInv, Seats, NoSession
  <2>2. session'.who = session.who /\ session'.row = session.row /\ session'.pc = "publish"
    BY <1>10 DEF WorkerClaims, TasksInv, Seats, NoSession
  <2> QED
    BY <1>10, <2>1, <2>2, ClaimTaken DEF WorkerClaims, ClaimStart
<1>11. ASSUME NEW c \in Command, JobClaims(c)
       PROVE  TakenInv'
  <2> DEFINE row == [uploads[session.row] EXCEPT !.cmd = c, !.name = c.name]
  <2>1. session.pc \notin Publishing /\ session.who = "job" /\ session.row \in Ids /\ UNCHANGED managed
    BY <1>11 DEF JobClaims, Publishing, TasksInv, Seats, NoSession
  <2>2. session'.who = session.who /\ session'.row = session.row /\ session'.pc = "publish"
    BY <1>11 DEF JobClaims, TasksInv, Seats, NoSession
  <2>3. row \in Row
    <3>1. uploads[session.row] \in Row /\ c.name \in Names
      BY <2>1 DEF TypeOK, Command
    <3> QED
      BY <3>1 DEF Row
  <2>4. Claimed(session.row, row)
    BY <1>11 DEF JobClaims, ActivateReserved
  <2> HIDE DEF row
  <2> QED
    BY <2>1, <2>2, <2>3, <2>4, ClaimTaken
<1>12. ASSUME NEW i \in Ids, NEW c \in Command, RawClaims(i, c)
       PROVE  TakenInv'
  BY <1>12 DEF RawClaims, TakenInv
<1>13. ASSUME NEW i \in Ids, ManagedReserves(i)
       PROVE  TakenInv'
  <2> DEFINE row == [NewExternal(None) EXCEPT !.start = "reserved", !.dispatched = TRUE]
  <2>1. session.pc \notin Publishing /\ session.who = "managed" /\ managed = NoManaged
    BY <1>13 DEF ManagedReserves, Publishing, TasksInv, ManagedPlace
  <2>2. managed'.row = i /\ session'.who # "raw"
    BY <1>0, <1>13 DEF ManagedReserves, NoSession, Holders
  <2>3. Put(i, row) /\ row.start = "reserved"
    BY <1>13 DEF ManagedReserves, ReserveExternal, NewExternal, Absent
  <2> HIDE DEF row
  <2>4. /\ uploads'[i].start = "reserved" /\ verdicts' = verdicts
        /\ \A j \in Ids \ {i} : uploads'[j] = uploads[j]
    BY <2>3 DEF Put, TypeOK
  <2>5. managed.row \notin Ids
    BY <2>1, SeatsWithoutRow DEF NoManaged
  <2> QED
    BY <2>1, <2>2, <2>4, <2>5 DEF TakenInv
<1>14. ASSUME NEW i \in Ids, NEW c \in Command, ReplayReserves(i, c)
       PROVE  TakenInv'
  <2> DEFINE row == [NewUpload(i, None, None) EXCEPT
                       !.replay = TRUE, !.cmd = c, !.start = "reserved"]
  <2>1. session.pc \notin Publishing /\ session.row \notin Ids /\ UNCHANGED managed
    BY <1>14, SeatsWithoutRow DEF ReplayReserves, Publishing
  <2>2. session' = [who |-> "replay", pc |-> "receive", row |-> i]
    BY <1>14 DEF ReplayReserves, Session
  <2>3. Put(i, row) /\ row.start = "reserved"
    BY <1>14 DEF ReplayReserves, ReserveReplay, NewUpload, Absent
  <2> HIDE DEF row
  <2>4. /\ uploads'[i].start = "reserved" /\ verdicts' = verdicts
        /\ \A j \in Ids \ {i} : uploads'[j] = uploads[j]
    BY <2>3 DEF Put, TypeOK
  <2> QED
    BY <2>1, <2>2, <2>4 DEF TakenInv
<1> QED
  BY <1>1, <1>2, <1>3, <1>4, <1>5, <1>6, <1>7, <1>8, <1>9, <1>10, <1>11, <1>12, <1>13, <1>14
     DEF LockHolderMoves

LEMMA WorkerTaken ==
    ASSUME TypeOK, ClaimInv, TasksInv, TakenInv, WorkerMoves
    PROVE  TakenInv'
<1> USE DEF WorkerOnly
<1>1. worker.pc = "upload" \/ worker.todo # <<>> => Head(worker.todo) \in Ids
  BY HeadTailProperties DEF TasksInv, WorkerPlace
<1>2. CASE WorkerExpires
  BY <1>2, ObservingKept, StillTaken DEF WorkerExpires
<1>3. CASE WorkerPrunes
  BY <1>3, ManagingKept, StillKept, StillTaken DEF WorkerPrunes
<1>4. CASE WorkerSelects \/ WorkerSweeps \/ WorkerLists
  BY <1>4, StillKept, StillTaken DEF WorkerSelects, WorkerSweeps, WorkerLists
<1>5. CASE WorkerTakesRow
  BY <1>1, <1>5, StartingKept, StillKept, StillTaken DEF WorkerTakesRow
<1>6. CASE WorkerUploads
  <2>1. \/ UNCHANGED inboxVars
        \/ Delivered(Head(worker.todo)) \/ Fail(Head(worker.todo))
    BY <1>6 DEF WorkerUploads
  <2>2. Kept
    BY <1>1, <1>6, <2>1, StartingKept, ReceivingKept, StillKept DEF WorkerUploads
  <2> QED
    BY <1>6, <2>2, StillTaken DEF WorkerUploads
<1> QED
  BY <1>2, <1>3, <1>4, <1>5, <1>6 DEF WorkerMoves

LEMMA ListeningTaken ==
    ASSUME TypeOK, ClaimInv, LiveInv, PlateInv, TakenInv, BridgeListens
    PROVE  TakenInv'
<1> USE DEF tasks
<1>1. CASE TakeReport
  BY <1>1, StillKept, StillTaken DEF TakeReport
<1>2. CASE Observe
  <2>1. inflight \in PlateEvidence /\ ObserveRead(inflight) /\ UNCHANGED <<uploads, session, managed>>
    BY <1>2 DEF Observe, PlateInv, ObserveRead
  <2>2. ASSUME NEW i \in Ids
        PROVE  verdicts'[i].start # "dispatching"
    <3>1. \/ Changed(i, Lifecycle(i, inflight)) /\ verdicts'[i] = Lifecycle(i, inflight)
          \/ verdicts'[i] = NoVerdict
      BY <2>1 DEF ObserveRead
    <3> QED
      BY <2>1, <3>1, DispatchingDecided, InHandStates DEF InHand
  <2> QED
    BY <2>1, <2>2 DEF TakenInv
<1>3. CASE WriteObserved
  BY <1>3, ObservingKept, StillTaken DEF WriteObserved
<1>4. CASE \E i \in Ids : Time(i)
  BY <1>4, ObservingKept, StillTaken DEF Time
<1>5. CASE \E i \in Ids, c \in Command : Adopt(i, c)
  BY <1>5, StartingKept, StillTaken DEF Adopt
<1> QED
  BY <1>1, <1>2, <1>3, <1>4, <1>5 DEF BridgeListens

LEMMA RestartTaken ==
    ASSUME TypeOK, GatewayRestart
    PROVE  TakenInv'
<1>1. ASSUME NEW i \in Ids
      PROVE  uploads'[i].start \notin InHand
  <2>1. uploads'[i] = Recovered(uploads[i]) /\ uploads[i] \in Row
    BY DEF GatewayRestart, Restart, TypeOK
  <2> DEFINE r == uploads[i]
             interrupted == r.state \in {"receiving", "delivering"}
             state == IF interrupted THEN "failed" ELSE r.state
  <2>2. Recovered(r).start =
          CASE r.start = "dispatching" -> "unknown"
            [] state = "failed" /\ r.start \in PendingStates -> "blocked"
            [] state # "failed" /\ r.start = "reserved" -> "cancelled"
            [] OTHER -> r.start
    BY <2>1 DEF Recovered, Row
  <2> QED
    BY <2>1, <2>2 DEF InHand, PendingStates
<1>2. \A i \in Ids : verdicts'[i].start # "dispatching"
  BY InHandStates DEF GatewayRestart, Restart, InHand
<1>3. session'.who # "raw"
  BY HoldersDiffer DEF GatewayRestart, NoSession, Holders
<1> QED
  BY <1>1, <1>2, <1>3 DEF TakenInv, InHand

LEMMA TakenStep ==
    ASSUME "raw" \notin Callers, TypeOK, ClaimInv, LiveInv, TasksInv, PlateInv, TakenInv,
           [GatewayNext]_vars
    PROVE  TakenInv'
<1>1. CASE PrinterWorks
  BY <1>1, StillKept, StillTaken
     DEF PrinterWorks, TakeStart, EndPrint, PowerCycle, PanelStart, AnswerPushall, Reconnect,
         BecomesPrinting, Alone, tasks
<1>2. CASE WorkerLocks
  <2>1. session = NoSession /\ session'.who = "worker" /\ UNCHANGED <<inboxVars, managed>>
    BY <1>2 DEF WorkerLocks, Free, Session
  <2>2. session.pc \notin Publishing /\ session.row \notin Ids
    BY <2>1, SeatsWithoutRow DEF NoSession, Publishing
  <2> QED
    BY <2>1, <2>2, StillKept, PassTaken
<1>3. CASE UNCHANGED vars
  BY <1>3, StillKept, StillTaken DEF vars, tasks
<1> QED
  BY <1>1, <1>2, <1>3, ListeningTaken, ClientsTaken, HolderTaken, WorkerTaken, RestartTaken
     DEF GatewayNext

LEMMA TakenInit == GatewayInit => TakenInv
<1> SUFFICES ASSUME GatewayInit
             PROVE  TakenInv
  OBVIOUS
<1>1. \A i \in Ids : uploads[i].start = None /\ verdicts[i] = NoVerdict
  BY DEF GatewayInit, Init, Absent
<1>2. session.who # "raw"
  BY HoldersDiffer DEF GatewayInit, TasksInit, NoSession, Holders
<1> QED
  BY <1>1, <1>2, InHandStates DEF TakenInv, InHand

\* Without raw clients, and where the printer names the inner plate of what it prints: a
\* reserved row is that of a managed job or of the replay that holds the dispatch lock, and a
\* row being dispatched that of the lock's holder, who is between the claim and the record of
\* its outcome.  No order of cancellations, reports, owner decisions, expiries and crashes
\* leaves such a row behind (guard_managed_job(), library_replay.py, deliver_inbox(),
\* recover()).
THEOREM PendingIsHandled ==
    ASSUME "raw" \notin Callers, "archive" \notin World
    PROVE  GatewaySpec => []PendingHasTask
<1>1. GatewayInv /\ ClaimInv /\ LiveInv /\ PlateInv /\ TakenInv /\ [GatewayNext]_vars => TakenInv'
  BY TakenStep DEF GatewayInv
<1>2. GatewaySpec => []ClaimInv /\ []LiveInv
  BY GatewayImplementsInbox, ClaimInvHolds, LiveInvHolds, PTL
<1>3. TakenInv => PendingHasTask
  BY DEF TakenInv, PendingHasTask, Publishing
<1> QED
  BY <1>1, <1>2, <1>3, TakenInit, PlateInvHolds, GatewayInvHolds, PTL DEF GatewaySpec

(***************************************************************************)
(* A start keeps its row while it is on its way and while its print runs.  *)
(*                                                                         *)
(* Nothing in a report says which dispatch it is about except the answer to *)
(* a start; what keeps a late report of an earlier print from ending the   *)
(* row is the order of the reports.  Until its answer is handled the row   *)
(* matches no report, since the printer names only plates; behind its      *)
(* answer come only reports of the print it began; and the row has not     *)
(* aged as long as older reports are on their way.                         *)
(***************************************************************************)
\* A report of a printer at rest, and no such report behind the n-th one.
Old(e) == e.report.state \in ReadyStates
NoneOldBehind(n) == \A k \in DOMAIN reports : k > n => ~ Old(reports[k])

Tracked(i) == uploads[i].start \in TrackedStates /\ uploads[i].kind # "observed" /\ uploads[i].dispatched
OnWire(i) == \E k \in DOMAIN wire : wire[k].id = i
AtPublish(i) == session.row = i /\ session.pc = "publish"
PrintRuns(i) == printer.state = "RUNNING" /\ printer.job.id = i

\* No answer to i is on its way.
Unanswered(i) == /\ \A k \in DOMAIN reports : reports[k].report.ack # i
                 /\ inflight # None => inflight.report.ack # i

\* A claimed start the printer has not been handed.
Underway(i) ==
    /\ Tracked(i) /\ ~ uploads[i].ack /\ ~ uploads[i].active /\ uploads[i].age = 0
    /\ verdicts[i] = NoVerdict
    /\ Unanswered(i) /\ printer.job.id # i

\* The bridge may have handled the answer to i.
Heard(i) == uploads[i].ack \/ verdicts[i].ack \/ uploads[i].age > 0

\* A start whose print runs.
Running(i) ==
    /\ Tracked(i)
    /\ verdicts[i] # NoVerdict => verdicts[i].start \in TrackedStates
    /\ \A k \in DOMAIN reports :
          reports[k].report.ack = i => reports[k].report.ok /\ NoneOldBehind(k)
    /\ inflight # None /\ inflight.report.ack = i => inflight.report.ok /\ NoneOldBehind(0)
    /\ Heard(i) => NoneOldBehind(0) /\ (inflight # None => ~ Old(inflight))

\* A row that was never claimed: no report has spoken of it, unless it was adopted.
Quiet(row) == row.kind # "observed" => ~ row.ack /\ ~ row.active
Untouched(i) == Quiet(uploads[i]) /\ Unanswered(i) /\ printer.job.id # i /\ ~ OnWire(i)

FenceInv ==
    /\ \A i \in Ids : /\ OnWire(i) \/ AtPublish(i) => Underway(i)
                      /\ PrintRuns(i) => Running(i)
                      /\ claims[i] = 0 => Untouched(i)
    /\ \A k, l \in DOMAIN wire : wire[k].id = wire[l].id => k = l
    /\ session.pc = "publish" => ~ OnWire(session.row)

(***************************************************************************)
(* Calls of the inbox that leave the rows of starts as they are.           *)
(***************************************************************************)
\* A tracked row keeps what the fence rests on, and a row never claimed stays quiet.
RowCalm(old, new) ==
    /\ old.start \in TrackedStates =>
          /\ new.start \in TrackedStates /\ new.kind = old.kind /\ new.dispatched = old.dispatched
          /\ new.ack = old.ack /\ new.active = old.active /\ new.age = old.age
    /\ Quiet(old) => Quiet(new)
Calm ==
    /\ \A i \in Ids : RowCalm(uploads[i], uploads'[i])
    /\ UNCHANGED <<verdicts, claims>>

LEMMA SameCalm == \A r : RowCalm(r, r)
BY DEF RowCalm

LEMMA StillCalm == UNCHANGED inboxVars => Calm
BY SameCalm DEF inboxVars, Calm

LEMMA PutCalm ==
    ASSUME TypeOK, NEW i, NEW row, Put(i, row), UNCHANGED claims,
           i \in Ids => RowCalm(uploads[i], row)
    PROVE  Calm
BY SameCalm DEF TypeOK, Put, Calm

LEMMA ReceivingCalm ==
    ASSUME TypeOK, Receiving
    PROVE  Calm
<1> SUFFICES ASSUME NEW i \in Ids,
                    \/ \E n \in Names, p \in Peers : Reserve(i, n, p)
                    \/ \E c \in Command : ReserveReplay(i, c)
                    \/ Seal(i) \/ Fail(i) \/ QueueReplay(i) \/ AbandonReplay(i)
             PROVE  Calm
  BY DEF Receiving
<1>0. uploads[i] \in Row
  BY DEF TypeOK
<1> USE StatesDisjoint
<1>1. ASSUME NEW row, Fresh(i), row.ack = FALSE, row.active = FALSE
      PROVE  RowCalm(uploads[i], row)
  BY <1>1, FreshFree DEF RowCalm, Quiet
<1>2. ASSUME NEW n \in Names, NEW p \in Peers, Reserve(i, n, p)
      PROVE  Calm
  <2>1. NewUpload(i, n, p).ack = FALSE /\ NewUpload(i, n, p).active = FALSE
    BY DEF NewUpload, Absent
  <2> QED
    BY <1>1, <1>2, <2>1, PutCalm DEF Reserve
<1>3. ASSUME NEW c \in Command, ReserveReplay(i, c)
      PROVE  Calm
  <2> DEFINE row == [NewUpload(i, None, None) EXCEPT !.replay = TRUE, !.cmd = c, !.start = "reserved"]
  <2>1. Put(i, row) /\ Fresh(i) /\ UNCHANGED claims
    BY <1>3 DEF ReserveReplay
  <2>2. row.ack = FALSE /\ row.active = FALSE
    BY DEF NewUpload, Absent
  <2> HIDE DEF row
  <2> QED
    BY <1>1, <2>1, <2>2, PutCalm
<1>4. CASE Seal(i)
  <2>1. RowCalm(uploads[i], [uploads[i] EXCEPT !.state = "stored", !.sealed = TRUE])
    BY <1>0 DEF RowCalm, Quiet, Row
  <2> QED
    BY <1>4, <2>1, PutCalm DEF Seal
<1>5. CASE Fail(i)
  <2> DEFINE row == [uploads[i] EXCEPT
                       !.state = "failed", !.dismissed = FALSE,
                       !.start = IF @ \in PendingStates THEN "blocked" ELSE @]
  <2>1. Put(i, row) /\ UNCHANGED claims
    BY <1>5 DEF Fail
  <2>2. RowCalm(uploads[i], row)
    BY <1>0 DEF RowCalm, Quiet, Row
  <2> HIDE DEF row
  <2> QED
    BY <2>1, <2>2, PutCalm
<1>6. CASE QueueReplay(i)
  <2> DEFINE row == [uploads[i] EXCEPT !.start = "queued", !.age = 0]
  <2>1. Put(i, row) /\ UNCHANGED claims /\ uploads[i].start \in PendingStates
    BY <1>6 DEF QueueReplay, PendingStates
  <2>2. RowCalm(uploads[i], row)
    BY <1>0, <2>1 DEF RowCalm, Quiet, Row
  <2> HIDE DEF row
  <2> QED
    BY <2>1, <2>2, PutCalm
<1>7. CASE AbandonReplay(i)
  <2> DEFINE row == [uploads[i] EXCEPT !.state = "failed", !.start = "cancelled"]
  <2>1. Put(i, row) /\ UNCHANGED claims /\ uploads[i].start \in PendingStates
    BY <1>7 DEF AbandonReplay
  <2>2. RowCalm(uploads[i], row)
    BY <1>0, <2>1 DEF RowCalm, Quiet, Row
  <2> HIDE DEF row
  <2> QED
    BY <2>1, <2>2, PutCalm
<1> QED
  BY <1>2, <1>3, <1>4, <1>5, <1>6, <1>7

LEMMA HoldCalm ==
    ASSUME TypeOK, NEW p \in Peers, NEW c \in Command, HoldStart(p, c)
    PROVE  Calm
<1> DEFINE i == Newest(Candidates(c.name, p))
<1>1. Put(i, Held(i, c)) /\ UNCHANGED claims
  BY DEF HoldStart
<1> HIDE DEF i
<1>2. i \in Ids => RowCalm(uploads[i], Held(i, c))
  BY StatesDisjoint DEF Held, TypeOK, Row, RowCalm, Quiet
<1> QED
  BY <1>1, <1>2, PutCalm

LEMMA StartingCalm ==
    ASSUME TypeOK, NEW i \in Ids,
           \/ BeginDelivery(i) \/ Delivered(i) \/ FreezeAccounting(i) \/ BlockStart(i)
           \/ \E outcome \in {"sent", "unknown"} : Dispatched(i, outcome)
           \/ ReserveExternal(i) \/ AbandonReserved(i)
           \/ \E c \in Command : AdoptRunningPrint(i, c)
    PROVE  Calm
<1>0. uploads[i] \in Row
  BY DEF TypeOK
<1> USE StatesDisjoint
<1>1. CASE BeginDelivery(i)
  <2>1. RowCalm(uploads[i], [uploads[i] EXCEPT !.state = "delivering"])
    BY <1>0 DEF RowCalm, Quiet, Row
  <2> QED
    BY <1>1, <2>1, PutCalm DEF BeginDelivery
<1>2. CASE Delivered(i)
  <2>1. RowCalm(uploads[i], [uploads[i] EXCEPT !.state = "delivered"])
    BY <1>0 DEF RowCalm, Quiet, Row
  <2> QED
    BY <1>2, <2>1, PutCalm DEF Delivered
<1>3. CASE FreezeAccounting(i)
  <2>1. RowCalm(uploads[i], [uploads[i] EXCEPT !.frozen = TRUE])
    BY <1>0 DEF RowCalm, Quiet, Row
  <2> QED
    BY <1>3, <2>1, PutCalm DEF FreezeAccounting
<1>4. CASE BlockStart(i)
  <2> DEFINE row == [uploads[i] EXCEPT !.start = "blocked", !.dismissed = FALSE]
  <2>1. Put(i, row) /\ UNCHANGED claims /\ uploads[i].start \in PendingStates
    BY <1>4 DEF BlockStart, PendingStates
  <2>2. RowCalm(uploads[i], row)
    BY <1>0, <2>1 DEF RowCalm, Quiet, Row
  <2> HIDE DEF row
  <2> QED
    BY <2>1, <2>2, PutCalm
<1>5. ASSUME NEW start, PutStart(i, start),
             uploads[i].start \in TrackedStates => start \in TrackedStates
      PROVE  Calm
  <2>1. RowCalm(uploads[i], [uploads[i] EXCEPT !.start = start])
    BY <1>0, <1>5 DEF RowCalm, Quiet, Row
  <2> QED
    BY <1>5, <2>1, PutCalm DEF PutStart
<1>6. ASSUME NEW outcome \in {"sent", "unknown"}, Dispatched(i, outcome)
      PROVE  Calm
  BY <1>5, <1>6 DEF Dispatched, TrackedStates
<1>7. CASE AbandonReserved(i)
  <2>1. uploads[i].start \in PendingStates
    BY <1>7 DEF AbandonReserved, PendingStates
  <2> QED
    BY <1>5, <1>7, <2>1 DEF AbandonReserved
<1>8. CASE ReserveExternal(i)
  <2> DEFINE row == [NewExternal(None) EXCEPT !.start = "reserved", !.dispatched = TRUE]
  <2>1. Put(i, row) /\ Fresh(i) /\ UNCHANGED claims
    BY <1>8 DEF ReserveExternal
  <2>2. row.ack = FALSE /\ row.active = FALSE
    BY DEF NewExternal, Absent
  <2> HIDE DEF row
  <2>3. RowCalm(uploads[i], row)
    BY <2>1, <2>2, FreshFree DEF RowCalm, Quiet
  <2> QED
    BY <2>1, <2>3, PutCalm
<1>9. ASSUME NEW c \in Command, AdoptRunningPrint(i, c)
      PROVE  Calm
  <2> DEFINE row == [NewExternal(c) EXCEPT
                       !.kind = "observed", !.start = "running", !.sealed = TRUE,
                       !.frozen = TRUE, !.ack = TRUE, !.active = TRUE,
                       !.dispatched = TRUE]
  <2>1. Put(i, row) /\ Fresh(i) /\ UNCHANGED claims
    BY <1>9 DEF AdoptRunningPrint
  <2>2. row.kind = "observed"
    BY DEF NewExternal, Absent
  <2> HIDE DEF row
  <2>3. RowCalm(uploads[i], row)
    BY <2>1, <2>2, FreshFree DEF RowCalm, Quiet
  <2> QED
    BY <2>1, <2>3, PutCalm
<1> QED
  BY <1>1, <1>2, <1>3, <1>4, <1>6, <1>7, <1>8, <1>9

LEMMA UpdatingCalm ==
    ASSUME TypeOK,
           \/ ExpireDispatch \/ ExpireQueued \/ CancelQueued
           \/ \E i \in Ids : PruneLocal(i) \/ PruneReceipt(i)
    PROVE  Calm
<1>0. \A i \in Ids : uploads[i] \in Row
  BY DEF TypeOK
<1> USE StatesDisjoint
<1>1. CASE ExpireDispatch
  <2>1. "unknown" \in TrackedStates
    BY DEF TrackedStates
  <2>2. \A i \in Ids : RowCalm(uploads[i], uploads'[i])
    BY <1>0, <1>1, <2>1, ZenonT(40) DEF ExpireDispatch, UpdateAll, RowCalm, Quiet, Row
  <2> QED
    BY <1>1, <2>2 DEF ExpireDispatch, UpdateAll, Calm
<1>2. CASE ExpireQueued
  <2>1. \A i \in Ids : RowCalm(uploads[i], uploads'[i])
    BY <1>0, <1>2, ZenonT(40) DEF ExpireQueued, UpdateAll, RowCalm, Quiet, Row
  <2> QED
    BY <1>2, <2>1 DEF ExpireQueued, UpdateAll, Calm
<1>3. CASE CancelQueued
  <2>1. "queued" \notin TrackedStates
    BY DEF TrackedStates
  <2>2. \A i \in Ids : RowCalm(uploads[i], uploads'[i])
    BY <1>0, <1>3, <2>1 DEF CancelQueued, UpdateAll, RowCalm, Quiet, Row
  <2> QED
    BY <1>3, <2>2 DEF CancelQueued, UpdateAll, Calm
<1>4. ASSUME NEW i \in Ids, PruneLocal(i)
      PROVE  Calm
  <2>1. RowCalm(uploads[i], [uploads[i] EXCEPT !.retained = FALSE])
    BY <1>0 DEF RowCalm, Quiet, Row
  <2> QED
    BY <1>4, <2>1, PutCalm DEF PruneLocal
<1>5. ASSUME NEW i \in Ids, PruneReceipt(i)
      PROVE  Calm
  <2> DEFINE row == [Absent EXCEPT !.state = "forgotten", !.rowid = uploads[i].rowid]
  <2>1. Put(i, row) /\ UNCHANGED claims /\ uploads[i].start \notin TrackedStates
    BY <1>5 DEF PruneReceipt, Settled
  <2>2. row.ack = FALSE /\ row.active = FALSE
    BY DEF Absent
  <2> HIDE DEF row
  <2>3. RowCalm(uploads[i], row)
    BY <2>1, <2>2 DEF RowCalm, Quiet
  <2> QED
    BY <2>1, <2>3, PutCalm
<1> QED
  BY <1>1, <1>2, <1>3, <1>4, <1>5

(***************************************************************************)
(* What is on its way, before and after a step.                            *)
(***************************************************************************)
LEMMA NoneIsNoReport == None \notin Ids /\ None \notin ReadyStates /\ "RUNNING" \notin ReadyStates
BY IdentitiesAssumption, NullAssumption DEF GcodeState, ReadyStates

\* A tracked row that was not adopted has been claimed.
LEMMA TrackedClaimed ==
    ASSUME TypeOK, LiveInv, NEW i \in Ids, Tracked(i)
    PROVE  claims[i] # 0
<1>1. /\ uploads[i] \in Row /\ claims[i] \in Nat
      /\ RowFits(uploads[i], verdicts[i], events[i], claims[i], i \in deleting)
  BY DEF TypeOK, LiveInv
<1>2. uploads[i].kind # None
  BY <1>1, StatesDisjoint DEF Tracked, RowFits, KindFits
<1> QED
  BY <1>1, <1>2 DEF Tracked, RowFits, HistoryFits

\* New reports come behind those that are on their way.
LEMMA ReportsBehind ==
    ASSUME DeviceInv, NEW new \in Seq(PrinterEvidence), Report2(new), UNCHANGED inflight
    PROVE  /\ DOMAIN reports \subseteq DOMAIN reports'
           /\ \A k \in DOMAIN reports : reports'[k] = reports[k]
           /\ \A k \in DOMAIN reports' \ DOMAIN reports :
                 /\ k - Len(reports) \in DOMAIN new /\ reports'[k] = new[k - Len(reports)]
                 /\ \A l \in DOMAIN reports : l < k
<1>1. reports \in Seq(PrinterEvidence) /\ reports' = reports \o new
  BY DEF DeviceInv, Report2
<1> QED
  BY <1>1, ConcatProperties

\* A report that is no answer to i leaves it without one.
LEMMA StillUnanswered ==
    ASSUME DeviceInv, NEW new \in Seq(PrinterEvidence), Report2(new), UNCHANGED inflight,
           NEW i \in Ids, Unanswered(i), \A k \in DOMAIN new : new[k].report.ack # i
    PROVE  Unanswered(i)'
<1>1. \A k \in DOMAIN reports' : reports'[k].report.ack # i
  BY ReportsBehind DEF Unanswered
<1> QED
  BY <1>1 DEF Unanswered

\* Reports of a printer at work, or without a state, end nothing.
LEMMA StillNoneOld ==
    ASSUME DeviceInv, NEW new \in Seq(PrinterEvidence), Report2(new), UNCHANGED inflight,
           \A k \in DOMAIN new : ~ Old(new[k]), NEW n, NoneOldBehind(n)
    PROVE  NoneOldBehind(n)'
BY ReportsBehind DEF NoneOldBehind, Old

\* A running start, while the printer reports nothing but its print.
LEMMA StillRunning ==
    ASSUME DeviceInv, NEW new \in Seq(PrinterEvidence), Report2(new), UNCHANGED inflight,
           \A k \in DOMAIN new : ~ Old(new[k]),
           NEW i \in Ids, UNCHANGED <<uploads, verdicts>>, Running(i),
           \A k \in DOMAIN new : new[k].report.ack # i
    PROVE  Running(i)'
<1>1. ASSUME NEW k \in DOMAIN reports', reports'[k].report.ack = i
      PROVE  reports'[k].report.ok /\ NoneOldBehind(k)'
  <2>1. k \in DOMAIN reports /\ reports'[k] = reports[k]
    BY <1>1, ReportsBehind
  <2> QED
    BY <1>1, <2>1, StillNoneOld DEF Running
<1>2. NoneOldBehind(0) => NoneOldBehind(0)'
  BY StillNoneOld
<1> QED
  BY <1>1, <1>2 DEF Running, Tracked, Heard, Old

(***************************************************************************)
(* A step that leaves the rows calm.                                       *)
(***************************************************************************)
LEMMA CalmUnderway ==
    ASSUME NEW i \in Ids, Calm, Underway(i), Unanswered(i)', printer'.job.id # i
    PROVE  Underway(i)'
BY DEF Calm, RowCalm, Underway, Tracked

LEMMA CalmRunning ==
    ASSUME NEW i \in Ids, Calm, Running(i), UNCHANGED <<reports, inflight>>
    PROVE  Running(i)'
BY DEF Calm, RowCalm, Running, Tracked, Heard, NoneOldBehind, Old

LEMMA CalmUntouched ==
    ASSUME NEW i \in Ids, Calm, Untouched(i), Unanswered(i)', printer'.job.id # i, ~ OnWire(i)'
    PROVE  Untouched(i)'
BY DEF Calm, RowCalm, Untouched

LEMMA CalmFence ==
    ASSUME FenceInv, Calm, UNCHANGED <<reports, inflight, wire, printer>>,
           session'.pc = "publish" => session.pc = "publish" /\ session'.row = session.row
    PROVE  FenceInv'
<1>1. \A i \in Ids : (OnWire(i)' => OnWire(i)) /\ (AtPublish(i)' => AtPublish(i))
                     /\ (Unanswered(i) => Unanswered(i)')
  BY DEF OnWire, AtPublish, Unanswered
<1>2. ASSUME NEW i \in Ids
      PROVE  /\ OnWire(i)' \/ AtPublish(i)' => Underway(i)'
             /\ PrintRuns(i)' => Running(i)'
             /\ claims'[i] = 0 => Untouched(i)'
  <2>1. OnWire(i)' \/ AtPublish(i)' => Underway(i)'
    <3> SUFFICES ASSUME OnWire(i)' \/ AtPublish(i)'
                 PROVE  Underway(i)'
      OBVIOUS
    <3>1. Underway(i)
      BY <1>1 DEF FenceInv
    <3> QED
      BY <1>1, <3>1, CalmUnderway DEF Underway
  <2>2. PrintRuns(i)' => Running(i)'
    BY CalmRunning DEF FenceInv, PrintRuns
  <2>3. claims'[i] = 0 => Untouched(i)'
    <3>1. claims'[i] = 0 => Untouched(i)
      BY DEF FenceInv, Calm
    <3> QED
      BY <1>1, <3>1, CalmUntouched DEF Untouched
  <2> QED
    BY <2>1, <2>2, <2>3
<1>3. session'.pc = "publish" => ~ OnWire(session.row)'
  BY DEF FenceInv, OnWire
<1> QED
  BY <1>2, <1>3 DEF FenceInv

(***************************************************************************)
(* The printer's steps.                                                    *)
(***************************************************************************)
\* The printer goes to p, of no more a job than it had, and says so.
LEMMA PrintingFence ==
    ASSUME DeviceInv, FenceInv, NEW p \in Printer, BecomesPrinting(p),
           \A i \in Ids : p.job.id = i => printer.job.id = i /\ p.state # "RUNNING"
    PROVE  FenceInv'
<1> DEFINE new == <<Status(p)>>
<1>1. /\ printer' = p /\ Report2(new) /\ UNCHANGED <<inboxVars, session, wire, inflight>>
  BY DEF BecomesPrinting, Alone, bridge, tasks
<1>2. new \in Seq(PrinterEvidence) /\ \A k \in DOMAIN new : new[k].report.ack = None
  <2>1. Status(p) \in PrinterEvidence /\ Status(p).report.ack = None
    BY EvidenceTyped DEF Status
  <2> QED
    BY <2>1
<1> HIDE DEF new
<1>3. ASSUME NEW i \in Ids
      PROVE  /\ Unanswered(i) => Unanswered(i)'
             /\ printer.job.id # i => printer'.job.id # i
             /\ (OnWire(i)' <=> OnWire(i)) /\ (AtPublish(i)' <=> AtPublish(i))
             /\ ~ PrintRuns(i)'
  <2>1. Unanswered(i) => Unanswered(i)'
    BY <1>1, <1>2, StillUnanswered, NoneIsNoReport
  <2> QED
    BY <1>1, <2>1 DEF OnWire, AtPublish, PrintRuns
<1>4. ASSUME NEW i \in Ids
      PROVE  /\ Underway(i) => Underway(i)'
             /\ Untouched(i) => Untouched(i)'
  BY <1>1, <1>3 DEF Underway, Untouched, Tracked, inboxVars
<1>5. \A i \in Ids : claims'[i] = claims[i]
  BY <1>1 DEF inboxVars
<1>6. /\ \A k, l \in DOMAIN wire' : wire'[k].id = wire'[l].id => k = l
      /\ session'.pc = "publish" => ~ OnWire(session.row)'
  BY <1>1 DEF FenceInv, OnWire
<1> QED
  BY <1>3, <1>4, <1>5, <1>6 DEF FenceInv

LEMMA PushallFence ==
    ASSUME DeviceInv, FenceInv, AnswerPushall
    PROVE  FenceInv'
<1> DEFINE new == <<Status(printer)>>
<1>1. Report2(new) /\ UNCHANGED <<inboxVars, session, wire, printer, inflight>>
  BY DEF AnswerPushall, Alone, bridge, tasks
<1>2. /\ new \in Seq(PrinterEvidence)
      /\ \A k \in DOMAIN new : new[k].report.ack = None /\ new[k].report.state = printer.state
  <2>1. Status(printer) \in PrinterEvidence /\ Status(printer).report.ack = None
        /\ Status(printer).report.state = printer.state
    BY EvidenceTyped DEF Status, DeviceInv
  <2> QED
    BY <2>1
<1> HIDE DEF new
<1>3. ASSUME NEW i \in Ids
      PROVE  /\ Unanswered(i) => Unanswered(i)'
             /\ (OnWire(i)' <=> OnWire(i)) /\ (AtPublish(i)' <=> AtPublish(i))
             /\ (PrintRuns(i)' <=> PrintRuns(i))
             /\ PrintRuns(i) /\ Running(i) => Running(i)'
  <2>1. Unanswered(i) => Unanswered(i)'
    BY <1>1, <1>2, StillUnanswered, NoneIsNoReport
  <2>2. PrintRuns(i) /\ Running(i) => Running(i)'
    <3> SUFFICES ASSUME PrintRuns(i), Running(i)
                 PROVE  Running(i)'
      OBVIOUS
    <3>1. \A k \in DOMAIN new : ~ Old(new[k]) /\ new[k].report.ack # i
      BY <1>2, NoneIsNoReport DEF Old, PrintRuns
    <3> QED
      BY <1>1, <1>2, <3>1, StillRunning DEF inboxVars
  <2> QED
    BY <1>1, <2>1, <2>2 DEF OnWire, AtPublish, PrintRuns
<1>4. ASSUME NEW i \in Ids
      PROVE  /\ Underway(i) => Underway(i)'
             /\ Untouched(i) => Untouched(i)'
  BY <1>1, <1>3 DEF Underway, Untouched, Tracked, inboxVars
<1>5. \A i \in Ids : claims'[i] = claims[i]
  BY <1>1 DEF inboxVars
<1>6. /\ \A k, l \in DOMAIN wire' : wire'[k].id = wire'[l].id => k = l
      /\ session'.pc = "publish" => ~ OnWire(session.row)'
  BY <1>1 DEF FenceInv, OnWire
<1> QED
  BY <1>3, <1>4, <1>5, <1>6 DEF FenceInv

\* The session drops: no report is on its way any more.
LEMMA ReconnectFence ==
    ASSUME FenceInv, Reconnect
    PROVE  FenceInv'
<1>1. reports' = <<>> /\ UNCHANGED <<inboxVars, session, wire, printer, inflight>>
  BY DEF Reconnect, Alone, bridge, tasks
<1>2. ASSUME NEW i \in Ids
      PROVE  /\ Unanswered(i) => Unanswered(i)'
             /\ (OnWire(i)' <=> OnWire(i)) /\ (AtPublish(i)' <=> AtPublish(i))
             /\ (PrintRuns(i)' <=> PrintRuns(i))
  BY <1>1 DEF Unanswered, OnWire, AtPublish, PrintRuns
<1>3. ASSUME NEW i \in Ids
      PROVE  /\ Underway(i) => Underway(i)'
             /\ Untouched(i) => Untouched(i)'
  BY <1>1, <1>2 DEF Underway, Untouched, Tracked, inboxVars
<1>4. ASSUME NEW i \in Ids, Running(i)
      PROVE  Running(i)'
  <2>1. \A n : NoneOldBehind(n)'
    BY <1>1 DEF NoneOldBehind
  <2> QED
    BY <1>1, <1>4, <2>1 DEF Running, Tracked, Heard, Old, inboxVars
<1>5. \A i \in Ids : claims'[i] = claims[i]
  BY <1>1 DEF inboxVars
<1>6. /\ \A k, l \in DOMAIN wire' : wire'[k].id = wire'[l].id => k = l
      /\ session'.pc = "publish" => ~ OnWire(session.row)'
  BY <1>1 DEF FenceInv, OnWire
<1> QED
  BY <1>2, <1>3, <1>4, <1>5, <1>6 DEF FenceInv

\* The first start on its way is gone; every other stays, once.
LEMMA WireTail ==
    ASSUME DeviceInv, FenceInv, wire # <<>>, wire' = Tail(wire), UNCHANGED session
    PROVE  /\ Head(wire) \in Starts /\ OnWire(Head(wire).id)
           /\ \A i \in Ids : OnWire(i)' => OnWire(i) /\ i # Head(wire).id
           /\ \A k, l \in DOMAIN wire' : wire'[k].id = wire'[l].id => k = l
           /\ session'.pc = "publish" => ~ OnWire(session.row)'
<1>1. /\ Head(wire) = wire[1] /\ 1 \in DOMAIN wire /\ Head(wire) \in Starts
      /\ \A k \in DOMAIN wire' : k \in Nat /\ k + 1 \in DOMAIN wire /\ k + 1 # 1 /\ wire'[k] = wire[k + 1]
  BY HeadTailProperties DEF DeviceInv
<1>2. \A k, l \in DOMAIN wire : wire[k].id = wire[l].id => k = l
  BY DEF FenceInv
<1>3. \A k, l \in DOMAIN wire' : wire'[k].id = wire'[l].id => k = l
  BY <1>1, <1>2
<1>4. \A i \in Ids : OnWire(i)' => OnWire(i) /\ i # Head(wire).id
  BY <1>1, <1>2 DEF OnWire
<1>5. session'.pc = "publish" => ~ OnWire(session.row)'
  BY <1>1 DEF FenceInv, OnWire
<1> QED
  BY <1>1, <1>3, <1>4, <1>5 DEF OnWire

\* The printer answers the start it took; the print it began is reported behind the answer.
LEMMA TakeStartFence ==
    ASSUME TypeOK, LiveInv, DeviceInv, FenceInv, NEW plate \in BOOLEAN, TakeStart(plate)
    PROVE  FenceInv'
<1> DEFINE s == [Head(wire) EXCEPT !.plate = plate]
           begun == [state |-> "RUNNING", job |-> s]
           taken == <<Answer(printer, s.id, TRUE), Status(begun)>>
           refused == <<Answer(printer, s.id, FALSE)>>
<1>1. /\ wire # <<>> /\ wire' = Tail(wire) /\ UNCHANGED <<inboxVars, session, inflight>>
      /\ \/ printer' = begun /\ Report2(taken)
         \/ printer' = printer /\ Report2(refused)
         \/ UNCHANGED <<printer, reports>>
  BY DEF TakeStart, Alone, bridge, tasks
<1>2. /\ Head(wire) \in Starts /\ OnWire(Head(wire).id)
      /\ \A j \in Ids : OnWire(j)' => OnWire(j) /\ j # Head(wire).id
      /\ \A k, l \in DOMAIN wire' : wire'[k].id = wire'[l].id => k = l
      /\ session'.pc = "publish" => ~ OnWire(session.row)'
  BY <1>1, WireTail
<1>3. PICK i \in Ids : i = Head(wire).id /\ s.id = i /\ s \in Job
  BY <1>2 DEF Starts, Job
<1>4. begun \in Printer /\ begun.job.id = i /\ begun.state = "RUNNING"
  BY <1>3 DEF Printer, PrinterState
<1> HIDE DEF begun
<1>5. /\ taken \in Seq(PrinterEvidence) /\ refused \in Seq(PrinterEvidence)
      /\ DOMAIN taken = {1, 2} /\ DOMAIN refused = {1}
      /\ taken[1].report.ack = i /\ taken[1].report.ok /\ ~ Old(taken[1])
      /\ taken[2].report.ack = None /\ ~ Old(taken[2])
      /\ refused[1].report.ack = i /\ ~ Old(refused[1])
  <2>1. /\ Answer(printer, i, TRUE) \in PrinterEvidence /\ Answer(printer, i, FALSE) \in PrinterEvidence
        /\ Status(begun) \in PrinterEvidence
    BY <1>3, <1>4, EvidenceTyped DEF DeviceInv
  <2>2. \A ok \in BOOLEAN : /\ Answer(printer, i, ok).report.ack = i
                            /\ Answer(printer, i, ok).report.ok = ok
                            /\ ~ Old(Answer(printer, i, ok))
    BY NoneIsNoReport DEF Answer, Old
  <2>3. Status(begun).report.ack = None /\ ~ Old(Status(begun))
    BY <1>4, NoneIsNoReport DEF Status, Old
  <2>4. taken = <<Answer(printer, i, TRUE), Status(begun)>> /\ refused = <<Answer(printer, i, FALSE)>>
    BY <1>3
  <2> HIDE DEF taken, refused
  <2>5. \A a, b \in PrinterEvidence :
           /\ <<a, b>> \in Seq(PrinterEvidence) /\ <<b>> \in Seq(PrinterEvidence)
           /\ DOMAIN <<a, b>> = {1, 2} /\ DOMAIN <<b>> = {1}
           /\ <<a, b>>[1] = a /\ <<a, b>>[2] = b /\ <<b>>[1] = b
    BY LenProperties
  <2>6. /\ taken \in Seq(PrinterEvidence) /\ refused \in Seq(PrinterEvidence)
        /\ DOMAIN taken = {1, 2} /\ DOMAIN refused = {1}
        /\ taken[1] = Answer(printer, i, TRUE) /\ taken[2] = Status(begun)
        /\ refused[1] = Answer(printer, i, FALSE)
    BY <2>1, <2>4, <2>5
  <2> QED
    BY <2>2, <2>3, <2>6
<1> HIDE DEF taken, refused, s
<1>6. OnWire(i) /\ Underway(i)
  BY <1>2, <1>3 DEF FenceInv
<1>7. ASSUME NEW j \in Ids, j # i
      PROVE  /\ Unanswered(j) => Unanswered(j)'
             /\ printer.job.id # j => printer'.job.id # j
             /\ PrintRuns(j)' => PrintRuns(j)
             /\ Running(j) => Running(j)'
  <2>1. CASE printer' = begun /\ Report2(taken)
    <3>1. \A k \in DOMAIN taken : ~ Old(taken[k]) /\ taken[k].report.ack # j
      BY <1>5, <1>7, NoneIsNoReport
    <3>2. (Unanswered(j) => Unanswered(j)') /\ (Running(j) => Running(j)')
      BY <1>1, <1>5, <2>1, <3>1, StillUnanswered, StillRunning DEF inboxVars
    <3> QED
      BY <1>4, <1>7, <2>1, <3>2 DEF PrintRuns
  <2>2. CASE printer' = printer /\ Report2(refused)
    <3>1. \A k \in DOMAIN refused : ~ Old(refused[k]) /\ refused[k].report.ack # j
      BY <1>5, <1>7, NoneIsNoReport
    <3>2. (Unanswered(j) => Unanswered(j)') /\ (Running(j) => Running(j)')
      BY <1>1, <1>5, <2>2, <3>1, StillUnanswered, StillRunning DEF inboxVars
    <3> QED
      BY <2>2, <3>2 DEF PrintRuns
  <2>3. CASE UNCHANGED <<printer, reports>>
    <3>1. Calm
      BY <1>1, StillCalm
    <3> QED
      BY <1>1, <2>3, <3>1, CalmRunning DEF PrintRuns, Unanswered
  <2> QED
    BY <1>1, <2>1, <2>2, <2>3
<1>8. PrintRuns(i)' => Running(i)'
  <2> SUFFICES ASSUME PrintRuns(i)'
               PROVE  Running(i)'
    OBVIOUS
  <2>1. printer' = begun /\ Report2(taken)
    BY <1>1, <1>6 DEF PrintRuns, Underway
  <2>2. /\ Tracked(i)' /\ verdicts'[i] = NoVerdict /\ ~ Heard(i)'
        /\ inflight' # None => inflight'.report.ack # i
    BY <1>1, <1>6 DEF Underway, Unanswered, Tracked, Heard, NoVerdict, inboxVars
  <2>3. ASSUME NEW k \in DOMAIN reports', reports'[k].report.ack = i
        PROVE  reports'[k].report.ok /\ NoneOldBehind(k)'
    <3>1. k \notin DOMAIN reports
      BY <1>1, <1>5, <1>6, <2>1, <2>3, ReportsBehind DEF Underway, Unanswered
    <3>2. k - Len(reports) \in DOMAIN taken /\ reports'[k] = taken[k - Len(reports)]
          /\ \A l \in DOMAIN reports : l < k
      BY <1>1, <1>5, <2>1, <3>1, ReportsBehind
    <3>3. reports'[k].report.ok
      BY <1>3, <1>5, <2>3, <3>2, NoneIsNoReport
    <3>4. ASSUME NEW l \in DOMAIN reports', l > k
          PROVE  ~ Old(reports'[l])
      <4>0. l \in Nat /\ k \in Nat
        <5>1. reports' \in Seq(PrinterEvidence)
          BY <1>5, <2>1, ReportTyped
        <5> QED
          BY <5>1, LenProperties
      <4>1. l \notin DOMAIN reports
        BY <3>2, <3>4, <4>0
      <4>2. l - Len(reports) \in DOMAIN taken /\ reports'[l] = taken[l - Len(reports)]
        BY <1>1, <1>5, <2>1, <4>1, ReportsBehind
      <4> QED
        BY <1>5, <4>2
    <3>5. NoneOldBehind(k)'
      BY <3>4 DEF NoneOldBehind, Old
    <3> QED
      BY <3>3, <3>5
  <2> QED
    BY <2>2, <2>3 DEF Running
<1>9. claims'[i] # 0
  BY <1>1, <1>3, <1>6, TrackedClaimed DEF Underway, inboxVars
<1>10. ASSUME NEW j \in Ids
       PROVE  /\ OnWire(j)' \/ AtPublish(j)' => Underway(j)'
              /\ PrintRuns(j)' => Running(j)'
              /\ claims'[j] = 0 => Untouched(j)'
  <2>1. AtPublish(j)' => AtPublish(j) /\ j # i
    BY <1>1, <1>6 DEF AtPublish, FenceInv
  <2>2. ASSUME OnWire(j)' \/ AtPublish(j)'
        PROVE  Underway(j)'
    <3>1. j # i /\ Underway(j)
      BY <1>2, <1>3, <2>1, <2>2 DEF FenceInv
    <3> QED
      BY <1>1, <1>7, <3>1 DEF Underway, Tracked, inboxVars
  <2>3. PrintRuns(j)' => Running(j)'
    BY <1>7, <1>8 DEF FenceInv
  <2>4. ASSUME claims'[j] = 0
        PROVE  Untouched(j)'
    <3>1. j # i /\ Untouched(j)
      BY <1>1, <1>9, <2>4 DEF FenceInv, inboxVars
    <3> QED
      BY <1>1, <1>2, <1>7, <3>1 DEF Untouched, inboxVars
  <2> QED
    BY <2>2, <2>3, <2>4
<1> QED
  BY <1>2, <1>10 DEF FenceInv

LEMMA PrinterFence ==
    ASSUME TypeOK, LiveInv, DeviceInv, FenceInv, PrinterWorks
    PROVE  FenceInv'
<1>0. printer \in Printer
  BY DEF DeviceInv
<1>1. CASE \E plate \in BOOLEAN : TakeStart(plate)
  BY <1>1, TakeStartFence
<1>2. CASE EndPrint
  <2>1. PICK state \in {"FINISH", "FAILED"} : BecomesPrinting([printer EXCEPT !.state = state])
    BY <1>2 DEF EndPrint
  <2> DEFINE p == [printer EXCEPT !.state = state]
  <2>2. p \in Printer /\ p.job.id = printer.job.id /\ p.state # "RUNNING"
    BY <1>0 DEF Printer, PrinterState
  <2> HIDE DEF p
  <2> QED
    BY <2>1, <2>2, PrintingFence DEF p
<1>3. CASE PowerCycle
  <2> DEFINE p == [state |-> "IDLE", job |-> NoJob]
  <2>1. p \in Printer /\ p.job.id \notin Ids /\ BecomesPrinting(p)
    BY <1>3, NoneIsNoReport DEF Printer, PrinterState, NoJob, Job, Target, PowerCycle
  <2> HIDE DEF p
  <2> QED
    BY <2>1, PrintingFence
<1>4. CASE PanelStart
  <2>1. PICK n \in Names : BecomesPrinting(
            [state |-> "RUNNING",
             job |-> [id |-> None, target |-> n, task |-> n, plate |-> TRUE]])
    BY <1>4 DEF PanelStart
  <2> DEFINE p == [state |-> "RUNNING",
                   job |-> [id |-> None, target |-> n, task |-> n, plate |-> TRUE]]
  <2>2. p \in Printer /\ p.job.id \notin Ids /\ BecomesPrinting(p)
    BY <2>1, NoneIsNoReport DEF Printer, PrinterState, Job, Target
  <2> HIDE DEF p
  <2> QED
    BY <2>2, PrintingFence
<1> QED
  BY <1>1, <1>2, <1>3, <1>4, PushallFence, ReconnectFence DEF PrinterWorks

(***************************************************************************)
(* Reports reach observe().                                                *)
(***************************************************************************)
\* An answer says nothing of the print, and only a status shows an empty, idle printer.
LEMMA EvidenceParts ==
    ASSUME NEW e \in PlateEvidence
    PROVE  /\ e \in Evidence /\ e.merged.gcode = None
           /\ EmptyIdle(e) => Old(e)
           /\ e.report.ack # None => e.report.state = None /\ ~ Old(e) /\ ~ EmptyIdle(e)
<1>1. e \in PrinterEvidence /\ e.merged.gcode = None /\ e \in Evidence
  BY EvidenceTyped DEF PlateEvidence
<1>2. \/ \E p \in Printer : e = Status(p)
      \/ \E p \in Printer, i \in Ids, ok \in BOOLEAN : e = Answer(p, i, ok)
  BY <1>1 DEF PrinterEvidence, Printer
<1>3. ASSUME NEW p \in Printer, e = Status(p)
      PROVE  e.report.ack = None /\ e.report.state = p.state /\ e.merged.state = p.state
  BY <1>3 DEF Status, MergedOf
<1>4. ASSUME NEW p \in Printer, NEW i \in Ids, NEW ok \in BOOLEAN, e = Answer(p, i, ok)
      PROVE  e.report.state = None /\ ~ e.report.names
  BY <1>4 DEF Answer
<1>5. "IDLE" \in ReadyStates /\ None \notin ReadyStates
  BY NoneIsNoReport DEF ReadyStates
<1> QED
  BY <1>1, <1>2, <1>3, <1>4, <1>5 DEF EmptyIdle, Old

\* A row without an answer, which no report has spoken of, matches nothing and is left alone.
LEMMA NothingDecided ==
    ASSUME TypeOK, NEW i \in Ids, NEW e \in PlateEvidence,
           Tracked(i), ~ uploads[i].ack, ~ uploads[i].active, uploads[i].age = 0, e.report.ack # i
    PROVE  ~ Changed(i, Lifecycle(i, e))
<1> DEFINE row == uploads[i]
<1>0. row \in Row /\ row.kind # "observed" /\ e.merged.gcode = None
  BY EvidenceParts DEF TypeOK, Tracked
<1>1. ~ Matches(i, e, FALSE)
  BY <1>0 DEF Matches
<1>2. row.ack = FALSE /\ row.active = FALSE /\ ~ PastGrace(i) /\ row.age # 2
  BY <1>0 DEF Row, PastGrace
<1>3. Lifecycle(i, e).start = row.start /\ Lifecycle(i, e).ack = FALSE /\ Lifecycle(i, e).active = FALSE
  BY <1>0, <1>1, <1>2 DEF Lifecycle, Over
<1> QED
  BY <1>2, <1>3 DEF Changed

\* A row heard of is not ended by a report of a printer at work, or by its own answer.
LEMMA RunningDecided ==
    ASSUME TypeOK, NEW i \in Ids, NEW e \in PlateEvidence,
           Tracked(i), e.report.ack = i => e.report.ok,
           uploads[i].ack \/ uploads[i].age > 0 => ~ Old(e)
    PROVE  /\ Lifecycle(i, e).start \in TrackedStates
           /\ Lifecycle(i, e).ack => uploads[i].ack \/ e.report.ack = i
<1> DEFINE row == uploads[i]
           answered == e.report.ack = i
           acked == row.ack \/ answered
           matches == Matches(i, e, acked)
           printing == matches /\ e.report.state \in ActiveStates
<1>0. row \in Row /\ row.kind # "observed" /\ row.start \in TrackedStates /\ e.merged.gcode = None
  BY EvidenceParts DEF TypeOK, Tracked
<1>1. matches => acked
  BY <1>0 DEF Matches
<1>2. acked => ~ Old(e) /\ ~ EmptyIdle(e)
  BY EvidenceParts, NoneIsNoReport
<1>3. PastGrace(i) \/ row.age = 2 => ~ Old(e) /\ ~ EmptyIdle(e)
  BY <1>0, EvidenceParts DEF Row, Age, PastGrace
<1> DEFINE s1 == IF answered /\ row.start \in {"dispatching", "sent", "unknown"} THEN "accepted"
                 ELSE row.start
           s2 == IF printing /\ acked THEN "running" ELSE s1
<1>4. s1 \in TrackedStates /\ s2 \in TrackedStates
  BY <1>0 DEF TrackedStates
<1>5. Lifecycle(i, e).start = s2 /\ Lifecycle(i, e).ack = acked
  <2>1. (row.ack \/ (answered /\ row.kind # "observed" /\ e.report.ok)) = acked
    BY <1>0 DEF Row
  <2>2. ~ (matches /\ Old(e)) /\ ~ (acked /\ EmptyIdle(e))
        /\ ~ (PastGrace(i) /\ EmptyIdle(e)) /\ ~ (row.age = 2 /\ Old(e))
    BY <1>1, <1>2, <1>3
  <2> HIDE DEF matches
  <2> QED
    BY <1>0, <1>1, <2>1, <2>2 DEF Lifecycle, Over, Old, matches
<1> QED
  BY <1>4, <1>5

\* The first report becomes the one in flight.
LEMMA TakeReportFence ==
    ASSUME DeviceInv, FenceInv, TakeReport
    PROVE  FenceInv'
<1>1. /\ reports # <<>> /\ inflight = None /\ inflight' = Head(reports) /\ reports' = Tail(reports)
      /\ \A i \in Ids : verdicts[i] = NoVerdict
      /\ UNCHANGED <<inboxVars, session, wire, printer>>
  BY DEF TakeReport, tasks
<1>2. /\ inflight' = reports[1] /\ 1 \in DOMAIN reports
      /\ \A k \in DOMAIN reports' : /\ k \in Nat /\ k + 1 \in DOMAIN reports /\ k + 1 > 1 /\ k + 1 > 0
                                    /\ reports'[k] = reports[k + 1]
  <2>1. /\ Head(reports) = reports[1] /\ 1 \in DOMAIN reports
        /\ \A k \in DOMAIN reports' : /\ k \in Nat /\ k + 1 \in DOMAIN reports /\ k + 1 > 1 /\ k + 1 > 0
                                      /\ reports'[k] = reports[k + 1]
    BY <1>1, HeadTailProperties DEF DeviceInv
  <2> QED
    BY <1>1, <2>1
<1>3. ASSUME NEW i \in Ids
      PROVE  /\ Unanswered(i) => Unanswered(i)'
             /\ (OnWire(i)' <=> OnWire(i)) /\ (AtPublish(i)' <=> AtPublish(i))
             /\ (PrintRuns(i)' <=> PrintRuns(i))
  BY <1>1, <1>2 DEF Unanswered, OnWire, AtPublish, PrintRuns
<1>4. ASSUME NEW i \in Ids
      PROVE  /\ Underway(i) => Underway(i)'
             /\ Untouched(i) => Untouched(i)'
  BY <1>1, <1>3 DEF Underway, Untouched, Tracked, inboxVars
<1>5. ASSUME NEW n \in Nat, NoneOldBehind(n + 1)
      PROVE  NoneOldBehind(n)'
  BY <1>2, <1>5 DEF NoneOldBehind, Old
<1>6. ASSUME NEW i \in Ids, Running(i)
      PROVE  Running(i)'
  <2>1. ASSUME NEW k \in DOMAIN reports', reports'[k].report.ack = i
        PROVE  reports'[k].report.ok /\ NoneOldBehind(k)'
    BY <1>2, <1>5, <1>6, <2>1 DEF Running
  <2>2. inflight'.report.ack = i => inflight'.report.ok /\ NoneOldBehind(0)'
    BY <1>2, <1>5, <1>6 DEF Running
  <2>3. Heard(i)' => NoneOldBehind(0)' /\ ~ Old(inflight)'
    <3>1. Heard(i)' => NoneOldBehind(0)
      BY <1>1, <1>6 DEF Running, Heard, inboxVars
    <3>2. NoneOldBehind(0) => ~ Old(inflight)' /\ NoneOldBehind(1)
      BY <1>2, LenProperties DEF NoneOldBehind, Old, DeviceInv
    <3>3. NoneOldBehind(1) => NoneOldBehind(0)'
      BY <1>5
    <3> QED
      BY <3>1, <3>2, <3>3
  <2>4. Tracked(i)' /\ verdicts'[i] = NoVerdict
    BY <1>1, <1>6 DEF Running, Tracked, inboxVars
  <2> QED
    BY <2>1, <2>2, <2>3, <2>4 DEF Running, Old
<1>7. \A i \in Ids : claims'[i] = claims[i]
  BY <1>1 DEF inboxVars
<1>8. /\ \A k, l \in DOMAIN wire' : wire'[k].id = wire'[l].id => k = l
      /\ session'.pc = "publish" => ~ OnWire(session.row)'
  BY <1>1 DEF FenceInv, OnWire
<1> QED
  BY <1>3, <1>4, <1>6, <1>7, <1>8 DEF FenceInv

\* observe() decides nothing on a start underway, and ends none whose print runs.
LEMMA ObserveFence ==
    ASSUME TypeOK, PlateInv, FenceInv, Observe
    PROVE  FenceInv'
<1>1. /\ inflight \in PlateEvidence /\ inflight # None /\ inflight' = None
      /\ UNCHANGED <<uploads, claims, reports, session, wire, printer>>
      /\ \A i \in Ids : verdicts[i] = NoVerdict
      /\ \A i \in Ids : verdicts'[i] = IF /\ uploads[i].start \in TrackedStates
                                          /\ Changed(i, Lifecycle(i, inflight))
                                       THEN Lifecycle(i, inflight) ELSE NoVerdict
  BY DEF Observe, ObserveRead, PlateInv, tasks, device
<1>2. ASSUME NEW i \in Ids
      PROVE  /\ Unanswered(i) => Unanswered(i)'
             /\ (OnWire(i)' <=> OnWire(i)) /\ (AtPublish(i)' <=> AtPublish(i))
             /\ (PrintRuns(i)' <=> PrintRuns(i))
  BY <1>1 DEF Unanswered, OnWire, AtPublish, PrintRuns
<1>3. ASSUME NEW i \in Ids, Underway(i)
      PROVE  Underway(i)'
  <2>1. verdicts'[i] = NoVerdict
    BY <1>1, <1>3, NothingDecided DEF Underway, Unanswered
  <2> QED
    BY <1>1, <1>2, <1>3, <2>1 DEF Underway, Tracked
<1>4. ASSUME NEW i \in Ids, Running(i)
      PROVE  Running(i)'
  <2>1. /\ Lifecycle(i, inflight).start \in TrackedStates
        /\ Lifecycle(i, inflight).ack => uploads[i].ack \/ inflight.report.ack = i
    BY <1>1, <1>4, RunningDecided DEF Running, Heard
  <2>2. verdicts'[i] # NoVerdict => verdicts'[i].start \in TrackedStates
    BY <1>1, <2>1
  <2>3. verdicts'[i].ack => uploads[i].ack \/ inflight.report.ack = i
    BY <1>1, <2>1 DEF NoVerdict
  <2>4. Heard(i)' => NoneOldBehind(0)
    BY <1>1, <1>4, <2>3 DEF Running, Heard
  <2>5. \A n : NoneOldBehind(n)' <=> NoneOldBehind(n)
    BY <1>1 DEF NoneOldBehind
  <2> QED
    BY <1>1, <1>4, <2>2, <2>4, <2>5 DEF Running, Tracked
<1>5. ASSUME NEW i \in Ids, Untouched(i)
      PROVE  Untouched(i)'
  BY <1>1, <1>2, <1>5 DEF Untouched
<1>6. /\ \A k, l \in DOMAIN wire' : wire'[k].id = wire'[l].id => k = l
      /\ session'.pc = "publish" => ~ OnWire(session.row)'
  BY <1>1 DEF FenceInv, OnWire
<1> QED
  BY <1>1, <1>2, <1>3, <1>4, <1>5, <1>6 DEF FenceInv

\* What was decided is written: a running row stays tracked, one underway is not written.
LEMMA WriteFence ==
    ASSUME TypeOK, LiveInv, DecidedInv, FenceInv, WriteObserved
    PROVE  FenceInv'
<1>0. \A i \in Ids : uploads[i] \in Row /\ claims[i] \in Nat
  BY DEF TypeOK
<1>1. /\ UNCHANGED <<claims, reports, inflight, session, wire, printer>>
      /\ \A i \in Ids : verdicts'[i] = NoVerdict
      /\ \A i \in Ids :
            \/ uploads'[i] = uploads[i]
            \/ /\ verdicts[i] # NoVerdict
               /\ uploads'[i] = [uploads[i] EXCEPT !.start = verdicts[i].start,
                                                   !.ack = verdicts[i].ack,
                                                   !.active = verdicts[i].active]
  BY DEF WriteObserved, ObserveWrite, tasks, bridge, device
<1>2. ASSUME NEW i \in Ids
      PROVE  \/ uploads'[i] = uploads[i]
             \/ /\ verdicts[i] # NoVerdict
                /\ uploads'[i].start = verdicts[i].start /\ uploads'[i].ack = verdicts[i].ack
                /\ uploads'[i].kind = uploads[i].kind /\ uploads'[i].dispatched = uploads[i].dispatched
                /\ uploads'[i].age = uploads[i].age
  BY <1>0, <1>1, ZenonT(40) DEF Row
<1>3. ASSUME NEW i \in Ids
      PROVE  /\ Unanswered(i) => Unanswered(i)'
             /\ (OnWire(i)' <=> OnWire(i)) /\ (AtPublish(i)' <=> AtPublish(i))
             /\ (PrintRuns(i)' <=> PrintRuns(i))
  BY <1>1 DEF Unanswered, OnWire, AtPublish, PrintRuns
<1>4. ASSUME NEW i \in Ids, Underway(i)
      PROVE  Underway(i)'
  BY <1>1, <1>2, <1>3, <1>4 DEF Underway, Tracked
<1>5. ASSUME NEW i \in Ids, Running(i)
      PROVE  Running(i)'
  <2>1. Tracked(i)'
    BY <1>2, <1>5 DEF Running, Tracked
  <2>2. Heard(i)' => Heard(i)
    <3>1. ~ verdicts'[i].ack
      <4>1. verdicts'[i] = NoVerdict
        BY <1>1
      <4>2. ~ NoVerdict.ack
        BY DEF NoVerdict
      <4> QED
        BY <4>1, <4>2
    <3>2. CASE uploads'[i] = uploads[i]
      BY <3>1, <3>2 DEF Heard
    <3>3. CASE uploads'[i].ack = verdicts[i].ack /\ uploads'[i].age = uploads[i].age
      BY <3>1, <3>3, Zenon DEF Heard
    <3> QED
      BY <1>2, <3>2, <3>3
  <2>3. \A n : NoneOldBehind(n)' <=> NoneOldBehind(n)
    BY <1>1 DEF NoneOldBehind
  <2> QED
    BY <1>1, <1>5, <2>1, <2>2, <2>3 DEF Running, Old
<1>6. ASSUME NEW i \in Ids, claims[i] = 0, Untouched(i)
      PROVE  Untouched(i)'
  <2>1. Quiet(uploads[i])'
    <3>1. verdicts[i] # NoVerdict => uploads[i].start \in TrackedStates
      BY DEF DecidedInv
    <3>2. uploads[i].start \in TrackedStates => uploads[i].kind = "observed"
      <4>1. RowFits(uploads[i], verdicts[i], events[i], claims[i], i \in deleting)
        BY DEF LiveInv
      <4>2. uploads[i].start \in TrackedStates => uploads[i].kind # None
        BY <4>1, StatesDisjoint DEF RowFits, KindFits
      <4> QED
        BY <1>0, <1>6, <4>1, <4>2 DEF RowFits, HistoryFits
    <3> QED
      BY <1>2, <1>6, <3>1, <3>2 DEF Quiet, Untouched
  <2> QED
    BY <1>1, <1>3, <1>6, <2>1 DEF Untouched
<1>7. /\ \A k, l \in DOMAIN wire' : wire'[k].id = wire'[l].id => k = l
      /\ session'.pc = "publish" => ~ OnWire(session.row)'
  BY <1>1 DEF FenceInv, OnWire
<1> QED
  BY <1>1, <1>3, <1>4, <1>5, <1>6, <1>7 DEF FenceInv

\* A dispatched row ages only when nothing is on its way that might speak of it.
LEMMA TimeFence ==
    ASSUME TypeOK, DeviceInv, FenceInv, NEW i \in Ids, Time(i)
    PROVE  FenceInv'
<1> DEFINE row == [uploads[i] EXCEPT !.age = @ + 1]
<1>0. uploads[i] \in Row
  BY DEF TypeOK
<1>1. /\ Put(i, row) /\ UNCHANGED <<claims, reports, inflight, session, wire, printer>>
  BY DEF Time, Elapse, tasks, bridge, device
<1>2. /\ row.start = uploads[i].start /\ row.kind = uploads[i].kind /\ row.ack = uploads[i].ack
      /\ row.active = uploads[i].active /\ row.dispatched = uploads[i].dispatched
  BY <1>0 DEF Row
<1> HIDE DEF row
<1>3. /\ uploads'[i] = row /\ verdicts' = verdicts
      /\ \A j \in Ids \ {i} : uploads'[j] = uploads[j]
  BY <1>1 DEF Put, TypeOK
<1>4. Tracked(i) => reports = <<>> /\ inflight = None /\ ~ OnWire(i) /\ ~ AtPublish(i)
  BY LenProperties DEF Time, Prompt, Tracked, OnWire, AtPublish, DeviceInv
<1>5. ASSUME NEW j \in Ids
      PROVE  /\ Unanswered(j) => Unanswered(j)'
             /\ (OnWire(j)' <=> OnWire(j)) /\ (AtPublish(j)' <=> AtPublish(j))
             /\ (PrintRuns(j)' <=> PrintRuns(j))
             /\ \A n : NoneOldBehind(n)' <=> NoneOldBehind(n)
  BY <1>1 DEF Unanswered, OnWire, AtPublish, PrintRuns, NoneOldBehind
<1>6. ASSUME NEW j \in Ids, OnWire(j) \/ AtPublish(j), Underway(j)
      PROVE  Underway(j)'
  <2>1. j # i
    BY <1>4, <1>6 DEF Underway
  <2> QED
    BY <1>1, <1>3, <1>5, <1>6, <2>1 DEF Underway, Tracked
<1>7. ASSUME NEW j \in Ids, Running(j)
      PROVE  Running(j)'
  <2>1. CASE j = i
    <3>1. Tracked(i)' /\ reports' = <<>> /\ inflight' = None
      BY <1>1, <1>2, <1>3, <1>4, <1>7, <2>1 DEF Running, Tracked
    <3> QED
      BY <1>3, <1>7, <2>1, <3>1 DEF Running, NoneOldBehind
  <2>2. CASE j # i
    BY <1>1, <1>3, <1>5, <1>7, <2>2 DEF Running, Tracked, Heard, Old
  <2> QED
    BY <2>1, <2>2
<1>8. ASSUME NEW j \in Ids, Untouched(j)
      PROVE  Untouched(j)'
  <2>1. Quiet(uploads[j])'
    BY <1>2, <1>3, <1>8 DEF Quiet, Untouched
  <2> QED
    BY <1>1, <1>5, <1>8, <2>1 DEF Untouched
<1>9. /\ \A k, l \in DOMAIN wire' : wire'[k].id = wire'[l].id => k = l
      /\ session'.pc = "publish" => ~ OnWire(session.row)'
  BY <1>1 DEF FenceInv, OnWire
<1> QED
  BY <1>1, <1>5, <1>6, <1>7, <1>8, <1>9 DEF FenceInv

(***************************************************************************)
(* A claim, its publication, and the crash.                                *)
(***************************************************************************)
\* A row is claimed that nothing on its way speaks of.
LEMMA ClaimFence ==
    ASSUME TypeOK, ClaimInv, DecidedInv, FenceInv, NEW i \in Ids, NEW row \in Row,
           Claimed(i, row), Startable(i),
           row.kind # "observed", Quiet(uploads[i]) => ~ row.ack /\ ~ row.active,
           UNCHANGED <<reports, inflight, wire, printer>>,
           session.pc # "publish", session'.row = i, session'.pc = "publish"
    PROVE  FenceInv'
<1> DEFINE new == [row EXCEPT !.start = "dispatching", !.dispatched = TRUE, !.age = 0]
<1>1. /\ Put(i, new) /\ new.start = "dispatching" /\ new.dispatched /\ new.age = 0
      /\ new.kind = row.kind /\ new.ack = row.ack /\ new.active = row.active
  BY DEF Claimed, Row
<1>2. claims[i] = 0 /\ claims'[i] # 0 /\ \A j \in Ids \ {i} : claims'[j] = claims[j]
  BY DEF Claimed, ClaimInv, Unclaimed, TypeOK
<1> HIDE DEF new
<1>3. /\ uploads'[i] = new /\ verdicts' = verdicts
      /\ \A j \in Ids \ {i} : uploads'[j] = uploads[j]
  BY <1>1 DEF Put, TypeOK
<1>4. Untouched(i) /\ ~ row.ack /\ ~ row.active
  BY <1>2 DEF FenceInv, Untouched
<1>5. verdicts[i] = NoVerdict
  BY StatesDisjoint DEF DecidedInv, Startable
<1>6. ASSUME NEW j \in Ids
      PROVE  /\ (Unanswered(j)' <=> Unanswered(j)) /\ (OnWire(j)' <=> OnWire(j))
             /\ (PrintRuns(j)' <=> PrintRuns(j)) /\ (AtPublish(j)' => j = i)
             /\ \A n : NoneOldBehind(n)' <=> NoneOldBehind(n)
  BY DEF Unanswered, OnWire, AtPublish, PrintRuns, NoneOldBehind
<1>7. Underway(i)'
  <2>1. "dispatching" \in TrackedStates
    BY DEF TrackedStates
  <2> QED
    BY <1>1, <1>3, <1>4, <1>5, <1>6, <2>1 DEF Underway, Tracked, Untouched
<1>8. ASSUME NEW j \in Ids, j # i
      PROVE  /\ Underway(j) => Underway(j)'
             /\ Running(j) => Running(j)'
             /\ Untouched(j) => Untouched(j)'
  BY <1>3, <1>6, <1>8 DEF Underway, Running, Untouched, Tracked, Heard, Old
<1>9. ~ PrintRuns(i)
  BY <1>4 DEF Untouched, PrintRuns
<1>10. ASSUME NEW j \in Ids
       PROVE  /\ OnWire(j)' \/ AtPublish(j)' => Underway(j)'
              /\ PrintRuns(j)' => Running(j)'
              /\ claims'[j] = 0 => Untouched(j)'
  BY <1>2, <1>6, <1>7, <1>8, <1>9 DEF FenceInv
<1>11. /\ \A k, l \in DOMAIN wire' : wire'[k].id = wire'[l].id => k = l
       /\ session'.pc = "publish" => ~ OnWire(session.row)'
  <2>1. ~ OnWire(i)
    BY <1>4 DEF Untouched
  <2> QED
    BY <2>1 DEF FenceInv, OnWire
<1> QED
  BY <1>10, <1>11 DEF FenceInv

\* The start of the row just claimed may get out, once.
LEMMA PublishFence ==
    ASSUME TypeOK, LiveInv, TasksInv, DeviceInv, FenceInv, Publish
    PROVE  FenceInv'
<1>1. PICK i \in Ids : i = session.row
  BY DEF Publish, TasksInv, Seats, NoSession, Publishing
<1>2. /\ session.pc = "publish" /\ session'.pc # "publish"
      /\ UNCHANGED <<inboxVars, reports, inflight, printer>>
  BY DEF Publish, Goto, TasksInv, Seats, NoSession, Publishing, bridge
<1>3. AtPublish(i) /\ Underway(i) /\ ~ OnWire(i) /\ claims[i] # 0
  BY <1>1, <1>2, TrackedClaimed DEF AtPublish, FenceInv, Underway
<1>4. \/ wire' = wire
      \/ /\ DOMAIN wire' = DOMAIN wire \union {Len(wire) + 1} /\ wire'[Len(wire) + 1].id = i
         /\ \A k \in DOMAIN wire : wire'[k] = wire[k]
  <2> DEFINE cmd == uploads[session.row].cmd
             start == [id |-> session.row, target |-> Remote(session.row),
                       task |-> IF cmd = None THEN None ELSE cmd.name, plate |-> FALSE]
  <2>1. wire' \in {wire, Append(wire, start)} /\ start.id = i /\ wire \in Seq(Starts)
    BY <1>1 DEF Publish, DeviceInv
  <2>2. start \in Starts
    <3>1. uploads[i].cmd \in Command \union {None} /\ Remote(i) \in Target
      BY DEF TypeOK, Row, Remote, Target
    <3> QED
      BY <1>1, <3>1, IdentitiesAssumption DEF Starts, Job, Command
  <2> HIDE DEF start
  <2> QED
    <3>1. /\ Append(wire, start) \in Seq(Starts) /\ Len(Append(wire, start)) = Len(wire) + 1
          /\ \A k \in 1 .. Len(wire) : Append(wire, start)[k] = wire[k]
          /\ Append(wire, start)[Len(wire) + 1] = start
      BY <2>1, <2>2, AppendProperties
    <3>2. /\ DOMAIN Append(wire, start) = 1 .. (Len(wire) + 1)
          /\ DOMAIN wire = 1 .. Len(wire) /\ Len(wire) \in Nat
      BY <2>1, <3>1, LenProperties
    <3>3. 1 .. (Len(wire) + 1) = (1 .. Len(wire)) \union {Len(wire) + 1}
      BY <3>2
    <3> QED
      BY <2>1, <3>1, <3>2, <3>3
<1>5. /\ \A j \in Ids : OnWire(j)' => OnWire(j) \/ j = i
      /\ \A k, l \in DOMAIN wire' : wire'[k].id = wire'[l].id => k = l
  BY <1>3, <1>4 DEF OnWire, FenceInv
<1>6. Calm
  BY <1>2, StillCalm
<1>7. ASSUME NEW j \in Ids
      PROVE  /\ Underway(j) => Underway(j)'
             /\ (PrintRuns(j)' <=> PrintRuns(j))
             /\ Running(j) => Running(j)'
             /\ Untouched(j) /\ j # i => Untouched(j)'
  <2>1. Unanswered(j) => Unanswered(j)'
    BY <1>2 DEF Unanswered
  <2>2. Underway(j) => Underway(j)'
    BY <1>2, <1>6, <2>1, CalmUnderway DEF Underway
  <2>3. Running(j) => Running(j)'
    BY <1>2, <1>6, CalmRunning
  <2>4. Untouched(j) /\ j # i => Untouched(j)'
    BY <1>2, <1>5, <1>6, <2>1, CalmUntouched DEF Untouched
  <2> QED
    BY <1>2, <2>2, <2>3, <2>4 DEF PrintRuns
<1>8. ASSUME NEW j \in Ids
      PROVE  /\ OnWire(j)' \/ AtPublish(j)' => Underway(j)'
             /\ PrintRuns(j)' => Running(j)'
             /\ claims'[j] = 0 => Untouched(j)'
  <2>1. OnWire(j)' \/ AtPublish(j)' => Underway(j)'
    BY <1>2, <1>3, <1>5, <1>7 DEF FenceInv, AtPublish
  <2>2. claims'[j] = 0 => Untouched(j)'
    BY <1>2, <1>3, <1>7 DEF FenceInv, inboxVars
  <2> QED
    BY <1>7, <2>1, <2>2 DEF FenceInv
<1> QED
  BY <1>2, <1>5, <1>8 DEF FenceInv

\* The table is recovered, and no report of before the crash is heard after it.
LEMMA RestartFence ==
    ASSUME TypeOK, FenceInv, GatewayRestart
    PROVE  FenceInv'
<1>1. /\ reports' = <<>> /\ inflight' = None /\ session' = NoSession
      /\ UNCHANGED <<claims, wire, printer>>
      /\ \A i \in Ids : verdicts'[i] = NoVerdict /\ uploads'[i] = Recovered(uploads[i])
  BY DEF GatewayRestart, Restart
<1>2. ASSUME NEW i \in Ids
      PROVE  /\ uploads[i].start \in TrackedStates => uploads'[i].start \in TrackedStates
             /\ uploads'[i].kind = uploads[i].kind /\ uploads'[i].dispatched = uploads[i].dispatched
             /\ uploads'[i].ack = uploads[i].ack /\ uploads'[i].active = uploads[i].active
             /\ uploads'[i].age = uploads[i].age
  <2> DEFINE r == uploads[i]
             interrupted == r.state \in {"receiving", "delivering"}
             state == IF interrupted THEN "failed" ELSE r.state
  <2>1. uploads'[i] = Recovered(r) /\ r \in Row
    BY <1>1 DEF TypeOK
  <2>2. Recovered(r).start =
          CASE r.start = "dispatching" -> "unknown"
            [] state = "failed" /\ r.start \in PendingStates -> "blocked"
            [] state # "failed" /\ r.start = "reserved" -> "cancelled"
            [] OTHER -> r.start
    BY <2>1 DEF Recovered, Row
  <2>3. r.start \in TrackedStates => Recovered(r).start \in TrackedStates
    BY <2>2 DEF TrackedStates, PendingStates
  <2> QED
    BY <2>1, <2>3 DEF Recovered, Row
<1>3. ASSUME NEW i \in Ids
      PROVE  /\ (OnWire(i)' <=> OnWire(i)) /\ (PrintRuns(i)' <=> PrintRuns(i)) /\ ~ AtPublish(i)'
             /\ Unanswered(i)' /\ \A n : NoneOldBehind(n)'
  BY <1>1 DEF Unanswered, OnWire, AtPublish, PrintRuns, NoneOldBehind, NoSession
<1>4. ASSUME NEW i \in Ids
      PROVE  /\ Underway(i) => Underway(i)'
             /\ Running(i) => Running(i)'
             /\ Untouched(i) => Untouched(i)'
  <2>1. Tracked(i) => Tracked(i)'
    BY <1>2 DEF Tracked
  <2>2. Underway(i) => Underway(i)'
    BY <1>1, <1>2, <1>3, <2>1 DEF Underway
  <2>3. Running(i) => Running(i)'
    BY <1>1, <1>3, <2>1 DEF Running
  <2>4. Untouched(i) => Untouched(i)'
    BY <1>1, <1>2, <1>3 DEF Untouched, Quiet
  <2> QED
    BY <2>2, <2>3, <2>4
<1>5. /\ \A k, l \in DOMAIN wire' : wire'[k].id = wire'[l].id => k = l
      /\ session'.pc # "publish"
  BY <1>1 DEF FenceInv, NoSession
<1> QED
  BY <1>1, <1>3, <1>4, <1>5 DEF FenceInv

(***************************************************************************)
(* Every other step is calm.                                               *)
(***************************************************************************)
\* A task that gives the lock back, takes it, or goes on, but not to a publication.
LEMMA StillFence ==
    ASSUME FenceInv, Calm, UNCHANGED <<reports, inflight, wire, printer>>,
           UNCHANGED session \/ session'.pc # "publish"
    PROVE  FenceInv'
BY CalmFence

LEMMA ListeningFence ==
    ASSUME TypeOK, LiveInv, DecidedInv, DeviceInv, PlateInv, FenceInv, BridgeListens
    PROVE  FenceInv'
<1>1. ASSUME NEW i \in Ids, NEW c \in Command, Adopt(i, c)
      PROVE  FenceInv'
  <2>1. Calm
    BY <1>1, StartingCalm DEF Adopt
  <2> QED
    BY <1>1, <2>1, StillFence DEF Adopt, tasks, bridge, device
<1> QED
  BY <1>1, TakeReportFence, ObserveFence, WriteFence, TimeFence DEF BridgeListens

LEMMA ClientsFence ==
    ASSUME "owner" \notin Callers, TypeOK, TasksInv, FenceInv, ClientsAct
    PROVE  FenceInv'
<1> USE DEF tasks, bridge, device
<1>1. ASSUME NEW who, NEW pc \in {"recover", "ready"}, Acquire(who, pc, None)
      PROVE  FenceInv'
  <2>1. session'.pc # "publish" /\ UNCHANGED <<inboxVars, reports, inflight, wire, printer>>
    BY <1>1 DEF Acquire, Session, Locked
  <2> QED
    BY <2>1, StillCalm, StillFence
<1>2. CASE RawEnters \/ ManagedEnters \/ OrcaStarts \/ ReplayEnters
  BY <1>1, <1>2 DEF RawEnters, ManagedEnters, OrcaStarts, ReplayEnters
<1>3. CASE RawCancelled \/ JobEnters
  <2>1. session'.pc # "publish" /\ UNCHANGED <<inboxVars, reports, inflight, wire, printer>>
    BY <1>3 DEF RawCancelled, JobEnters, Session, NoSession, Locked
  <2> QED
    BY <2>1, StillCalm, StillFence
<1>4. CASE JobLeaves
  <2>1. managed.row \in Ids
    BY <1>4 DEF JobLeaves, TasksInv, ManagedPlace
  <2>2. Calm
    BY <1>4, <2>1, StartingCalm, StillCalm DEF JobLeaves
  <2> QED
    BY <1>4, <2>2, StillFence DEF JobLeaves
<1>5. CASE StopCommand
  BY <1>5, UpdatingCalm, StillFence DEF StopCommand
<1>6. CASE OrcaUpload
  <2>1. Receiving
    BY <1>6 DEF OrcaUpload, Receiving
  <2> QED
    BY <1>6, <2>1, ReceivingCalm, StillFence DEF OrcaUpload
<1>7. CASE OrcaHeld
  BY <1>7, HoldCalm, StillCalm, StillFence DEF OrcaHeld
<1>8. ~ OwnerActs /\ ~ \E i \in Ids : OwnerResolves(i)
  BY DEF OwnerActs, OwnerResolves, ResolveRead, Cancel, RetryDelivery, Discard, AcknowledgePastReviews
<1> QED
  BY <1>2, <1>3, <1>4, <1>5, <1>6, <1>7, <1>8 DEF ClientsAct

LEMMA HolderFence ==
    ASSUME TypeOK, ClaimInv, LiveInv, DecidedInv, TasksInv, DeviceInv, FenceInv, LockHolderMoves
    PROVE  FenceInv'
<1> USE DEF Locked, Goto, At, tasks, bridge, device
<1>1. CASE EnsureIdle \/ Refused \/ AsksStatus \/ RecoverLostStart \/ ReplayChecks \/ WorkerChecks
  <2>1. UNCHANGED <<inboxVars, reports, inflight, wire, printer>>
    BY <1>1 DEF EnsureIdle, Refused, AsksStatus, RecoverLostStart, ReplayChecks, WorkerChecks
  <2>2. session'.pc # "publish"
    BY <1>1 DEF EnsureIdle, AfterReady, Refused, AsksStatus, RecoverLostStart, ReplayChecks,
                WorkerChecks, NoSession, TasksInv, Seats, Publishing
  <2> QED
    BY <2>1, <2>2, StillCalm, StillFence
<1>2. CASE Freeze
  <2>1. session.row \in Ids /\ session'.pc # "publish"
    BY <1>2 DEF Freeze, TasksInv, Seats, NoSession, Publishing
  <2>2. Calm
    BY <1>2, <2>1, StartingCalm, StillCalm DEF Freeze
  <2> QED
    BY <1>2, <2>1, <2>2, StillFence DEF Freeze
<1>3. CASE Publish
  BY <1>3, PublishFence
<1>4. CASE RecordDispatch
  <2>1. session.row \in Ids /\ session'.pc # "publish"
    BY <1>4 DEF RecordDispatch, TasksInv, Seats, NoSession, Publishing
  <2>2. Calm
    BY <1>4, <2>1, StartingCalm, StillCalm DEF RecordDispatch
  <2> QED
    BY <1>4, <2>1, <2>2, StillFence DEF RecordDispatch
<1>5. CASE ReplaySeals \/ ReplayEnds
  <2>1. session.row \in Ids /\ session'.pc # "publish"
    BY <1>5 DEF ReplaySeals, ReplayEnds, TasksInv, Seats, NoSession, Publishing
  <2>2. Receiving
    BY <1>5, <2>1 DEF ReplaySeals, ReplayEnds, Receiving
  <2> QED
    BY <1>5, <2>1, <2>2, ReceivingCalm, StillFence DEF ReplaySeals, ReplayEnds
<1>6. ~ OwnerResolved
  BY DEF OwnerResolved, ResolveWrite, DecidedInv
<1>7. CASE WorkerBlocks
  <2>1. session.row \in Ids /\ session'.pc # "publish"
    BY <1>7 DEF WorkerBlocks, TasksInv, Seats, NoSession, Publishing
  <2> QED
    BY <1>7, <2>1, StartingCalm, StillFence DEF WorkerBlocks
<1>8. CASE WorkerClaims
  <2> DEFINE i == session.row
  <2>1. i \in Ids /\ session.pc # "publish" /\ session'.row = i /\ session'.pc = "publish"
    BY <1>8 DEF WorkerClaims, TasksInv, Seats, NoSession, Publishing
  <2>2. uploads[i].start = "queued" /\ uploads[i].state = "delivered" /\ Claimed(i, uploads[i])
    BY <1>8 DEF WorkerClaims, ClaimStart
  <2> HIDE DEF i
  <2>3. Startable(i) /\ uploads[i].kind # "observed" /\ uploads[i] \in Row
    <3>1. uploads[i].kind # "observed"
      BY <2>1, <2>2 DEF LiveInv, RowFits, KindFits
    <3> QED
      BY <2>1, <2>2, <3>1 DEF Startable, PendingStates, TypeOK
  <2> QED
    BY <1>8, <2>1, <2>2, <2>3, ClaimFence DEF WorkerClaims, Quiet
<1>9. ASSUME NEW c \in Command, JobClaims(c)
      PROVE  FenceInv'
  <2> DEFINE i == session.row
             row == [uploads[i] EXCEPT !.cmd = c, !.name = c.name]
  <2>1. i \in Ids /\ session.pc # "publish" /\ session'.row = i /\ session'.pc = "publish"
    BY <1>9 DEF JobClaims, TasksInv, Seats, NoSession, Publishing
  <2>2. uploads[i].start = "reserved" /\ uploads[i].kind = "external" /\ Claimed(i, row)
    BY <1>9 DEF JobClaims, ActivateReserved
  <2>3. /\ row \in Row /\ row.kind = "external"
        /\ row.ack = uploads[i].ack /\ row.active = uploads[i].active
    <3>1. uploads[i] \in Row /\ c.name \in Names
      BY <2>1 DEF TypeOK, Command
    <3> QED
      BY <2>2, <3>1 DEF Row
  <2> HIDE DEF i, row
  <2>4. Startable(i)
    BY <2>2 DEF Startable, PendingStates
  <2> QED
    BY <1>9, <2>1, <2>2, <2>3, <2>4, ClaimFence DEF JobClaims, Quiet
<1>10. ASSUME NEW i \in Ids, NEW c \in Command, RawClaims(i, c)
       PROVE  FenceInv'
  <2>1. /\ session.pc # "publish" /\ session'.row = i /\ session'.pc = "publish"
        /\ Fresh(i) /\ Claimed(i, NewExternal(c))
    BY <1>10 DEF RawClaims, ClaimExternal, Session
  <2>2. /\ NewExternal(c) \in Row /\ NewExternal(c).kind = "external"
        /\ ~ NewExternal(c).ack /\ ~ NewExternal(c).active
    BY NewRowsTyped, ExternalFields
  <2> QED
    BY <1>10, <2>1, <2>2, FreshStartable, ClaimFence DEF RawClaims
<1>11. ASSUME NEW i \in Ids, ManagedReserves(i)
       PROVE  FenceInv'
  <2>1. Calm /\ session'.pc # "publish"
    BY <1>11, StartingCalm DEF ManagedReserves, NoSession
  <2> QED
    BY <1>11, <2>1, StillFence DEF ManagedReserves
<1>12. ASSUME NEW i \in Ids, NEW c \in Command, ReplayReserves(i, c)
       PROVE  FenceInv'
  <2>1. Receiving /\ session'.pc # "publish"
    BY <1>12 DEF ReplayReserves, Receiving, Session
  <2> QED
    BY <1>12, <2>1, ReceivingCalm, StillFence DEF ReplayReserves
<1> QED
  BY <1>1, <1>2, <1>3, <1>4, <1>5, <1>6, <1>7, <1>8, <1>9, <1>10, <1>11, <1>12 DEF LockHolderMoves

LEMMA WorkerFence ==
    ASSUME TypeOK, TasksInv, FenceInv, WorkerMoves
    PROVE  FenceInv'
<1> USE DEF WorkerOnly, bridge, device
<1>1. worker.pc = "upload" \/ worker.todo # <<>> => Head(worker.todo) \in Ids
  BY HeadTailProperties DEF TasksInv, WorkerPlace
<1>2. CASE WorkerExpires
  BY <1>2, UpdatingCalm, StillFence DEF WorkerExpires
<1>3. CASE WorkerPrunes
  BY <1>3, UpdatingCalm, StillCalm, StillFence DEF WorkerPrunes
<1>4. CASE WorkerSelects \/ WorkerSweeps \/ WorkerLists
  BY <1>4, StillCalm, StillFence DEF WorkerSelects, WorkerSweeps, WorkerLists
<1>5. CASE WorkerTakesRow
  BY <1>1, <1>5, StartingCalm, StillCalm, StillFence DEF WorkerTakesRow
<1>6. CASE WorkerUploads
  <2>1. UNCHANGED inboxVars \/ Delivered(Head(worker.todo)) \/ Fail(Head(worker.todo))
    BY <1>6 DEF WorkerUploads
  <2>2. Head(worker.todo) \in Ids
    BY <1>1, <1>6 DEF WorkerUploads
  <2>3. Calm
    BY <2>1, <2>2, StartingCalm, ReceivingCalm, StillCalm DEF Receiving
  <2> QED
    BY <1>6, <2>3, StillFence DEF WorkerUploads
<1> QED
  BY <1>2, <1>3, <1>4, <1>5, <1>6 DEF WorkerMoves

LEMMA FenceStep ==
    ASSUME "owner" \notin Callers, TypeOK, ClaimInv, LiveInv, DecidedInv, TasksInv, DeviceInv,
           PlateInv, FenceInv, [GatewayNext]_vars
    PROVE  FenceInv'
<1>1. CASE WorkerLocks
  <2>1. session'.pc # "publish" /\ UNCHANGED <<inboxVars, reports, inflight, wire, printer>>
    BY <1>1 DEF WorkerLocks, Session, bridge, device
  <2> QED
    BY <2>1, StillCalm, StillFence
<1>2. CASE UNCHANGED vars
  BY <1>2, StillCalm, StillFence DEF vars, tasks, bridge, device
<1> QED
  BY <1>1, <1>2, PrinterFence, ListeningFence, ClientsFence, HolderFence, WorkerFence, RestartFence
     DEF GatewayNext

LEMMA FenceInit == GatewayInit => FenceInv
<1> SUFFICES ASSUME GatewayInit
             PROVE  FenceInv
  OBVIOUS
<1>1. /\ wire = <<>> /\ reports = <<>> /\ inflight = None /\ session = NoSession
      /\ printer.job.id = None /\ \A i \in Ids : uploads[i] = Absent
  BY DEF GatewayInit, TasksInit, Init, NoJob
<1>2. ASSUME NEW i \in Ids
      PROVE  ~ OnWire(i) /\ ~ AtPublish(i) /\ ~ PrintRuns(i) /\ Untouched(i)
  BY <1>1, NoneIsNoReport
     DEF OnWire, AtPublish, PrintRuns, Untouched, Unanswered, Quiet, Absent, NoSession
<1> QED
  BY <1>1, <1>2 DEF FenceInv, NoSession

LEMMA FenceInvHolds ==
    ASSUME "owner" \notin Callers, "archive" \notin World
    PROVE  GatewaySpec => []FenceInv
<1>1. GatewayInv /\ ClaimInv /\ LiveInv /\ DecidedInv /\ PlateInv /\ FenceInv /\ [GatewayNext]_vars
         => FenceInv'
  BY FenceStep DEF GatewayInv
<1>2. GatewaySpec => []ClaimInv /\ []LiveInv /\ []DecidedInv
  BY GatewayImplementsInbox, ClaimInvHolds, LiveInvHolds, DecidedInvHolds, PTL
<1> QED
  BY <1>1, <1>2, FenceInit, PlateInvHolds, GatewayInvHolds, PTL DEF GatewaySpec

\* Where the printer names the inner plate of what it prints and the owner resolves no start by
\* hand: a row owns the printer for as long as its print runs there.  No report of an earlier
\* print, lost session, expiry, restart or cancelled task lets go of it, however the reports
\* and the tasks interleave (observe(), recover(), expire() and the claims).
THEOREM RunningPrintKeepsOwner ==
    ASSUME "owner" \notin Callers, "archive" \notin World
    PROVE  GatewaySpec => []RunningPrintIsOwned
<1>1. DeviceInv /\ FenceInv => RunningPrintIsOwned
  BY DEF FenceInv, PrintRuns, Running, Tracked, RunningPrintIsOwned, Owns, OwnerStates,
         DeviceInv, Printer, Job
<1>2. GatewaySpec => []DeviceInv
  BY GatewayInvHolds, PTL DEF GatewayInv
<1> QED
  BY <1>1, <1>2, FenceInvHolds, PTL

\* Without library replays either, which look for no other owner: at most one start is on its
\* way to the printer, and none while the print of an earlier one runs there.
THEOREM StartsComeOneByOne ==
    ASSUME "owner" \notin Callers, "replay" \notin Callers, "archive" \notin World
    PROVE  GatewaySpec => []OneStartInFlight
<1>1. DeviceInv /\ FenceInv /\ OneOwner => OneStartInFlight
  <2> SUFFICES ASSUME DeviceInv, FenceInv, OneOwner
               PROVE  OneStartInFlight
    OBVIOUS
  <2>1. \A i \in Ids : OnWire(i) \/ PrintRuns(i) => i \in Owner
    BY DEF FenceInv, Underway, Running, Tracked, Owner, Owns, OwnerStates
  <2>2. \A k \in DOMAIN wire : wire[k].id \in Ids /\ OnWire(wire[k].id)
    BY DEF OnWire, DeviceInv, Starts, Job
  <2>3. \A k, l \in DOMAIN wire : k = l
    BY <2>1, <2>2 DEF OneOwner, FenceInv
  <2>4. Len(wire) <= 1
    <3>1. Len(wire) \in Nat /\ DOMAIN wire = 1 .. Len(wire)
      BY LenProperties DEF DeviceInv
    <3>2. Len(wire) > 1 => 1 \in DOMAIN wire /\ 2 \in DOMAIN wire
      BY <3>1
    <3> QED
      BY <2>3, <3>1, <3>2
  <2>5. ASSUME wire # <<>>, printer.state \notin ReadyStates, printer.job.id # None
        PROVE  FALSE
    <3>1. 1 \in DOMAIN wire
      BY <2>5, LenProperties DEF DeviceInv
    <3>2. printer.job.id \in Ids /\ PrintRuns(printer.job.id)
      BY <2>5 DEF DeviceInv, Printer, PrinterState, Job, ReadyStates, PrintRuns
    <3>3. printer.job.id = wire[1].id
      BY <2>1, <2>2, <3>1, <3>2 DEF OneOwner
    <3>4. Underway(wire[1].id)
      BY <2>2, <3>1 DEF FenceInv
    <3> QED
      BY <3>3, <3>4 DEF Underway
  <2> QED
    BY <2>4, <2>5 DEF OneStartInFlight
<1>2. GatewaySpec => []DeviceInv /\ []OneOwner
  BY GatewayInvHolds, GatewayImplementsInbox, PrinterHasOneOwner, PTL DEF GatewayInv
<1> QED
  BY <1>1, <1>2, FenceInvHolds, PTL
=============================================================================
