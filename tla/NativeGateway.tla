---------------------------- MODULE NativeGateway ----------------------------
(***************************************************************************)
(* The gateway around the inbox (src/bambu_bridge/native_gateway.py): the  *)
(* delivery worker, the tasks that reach for the printer, the dispatch     *)
(* lock they share, the command on its way and the printer's reports on    *)
(* theirs.  Every action that touches the table is an action of            *)
(* NativeInbox under the guard, and at the place in a task, where the      *)
(* gateway calls it.                                                       *)
(*                                                                         *)
(* The printer, its card and its broker are not the bridge's code; they do *)
(* what the code's comments and observe() count on.                        *)
(***************************************************************************)
EXTENDS NativeInbox, Sequences

CONSTANTS
    World,      \* what the printer's side may do in this instance
    Keep,       \* STORAGE_PRUNE_KEEP, the settled uploads left on the card (3)
    MaxReports  \* bound of the model: reports the printer has on their way

\* The MQTT session drops; the panel starts a print; a start is dropped without
\* an answer; the printer loses its power; gcode_file names the file started;
\* a status takes longer than a task waits for it.
ASSUME WorldAssumption ==
    World \subseteq {"reconnect", "panel", "ignore", "power", "archive", "slow"}
ASSUME BoundsAssumption == Keep \in Nat /\ MaxReports \in Nat \ {0, 1}

\* The tasks that take the dispatch lock.
Holders == {"raw", "managed", "job", "worker", "slicer", "replay", "owner"}
ASSUME HolderAssumption == None \notin Holders

VARIABLES
    session,    \* who holds inbox_dispatch_lock, where in its code, for which row
    worker,     \* deliver_inbox(): where it stands and what is left of its pass
    managed,    \* guard_managed_job(): the row reserved, and whether its job may start
    slicer,     \* an Orca start has passed the lock and is about to be held
    sweep,      \* prune_printer_storage(): files selected and not yet deleted
    seen,       \* the bridge's merged view of the print, None until a report came
    inflight,   \* the report whose handler is in observe_inbox()
    reports,    \* reports on their way from the printer
    asked,      \* a pushall is on its way to the printer
    wire,       \* start commands on their way to the printer
    printer,    \* what the printer is doing and which job it names
    card        \* the uploads whose file is on the printer's card

tasks == <<session, worker, managed, slicer, sweep>>
bridge == <<seen, inflight>>
device == <<reports, asked, wire, printer, card>>
vars == <<inboxVars, tasks, bridge, device>>

-----------------------------------------------------------------------------

(***************************************************************************)
(* The printer.  A job is what a start named: the row behind it (None for  *)
(* a print of the panel), the file and the task, and whether gcode_file    *)
(* will name that file or only its inner plate.                            *)
(***************************************************************************)
Job == [id : Ids \union {None}, target : Target, task : Names \union {None},
        plate : BOOLEAN]
NoJob == [id |-> None, target |-> None, task |-> None, plate |-> FALSE]

\* PREPARE and PAUSE are RUNNING to observe() and to the printer's readiness.
PrinterState == {"IDLE", "RUNNING", "FINISH", "FAILED"}

MergedOf(p) == [state |-> p.state,
                gcode |-> IF p.job.plate THEN None ELSE p.job.target,
                file |-> p.job.target, task |-> p.job.task]
Status(p) == [report |-> [ack |-> None, ok |-> FALSE, state |-> p.state,
                          names |-> TRUE, rewound |-> FALSE],
              merged |-> MergedOf(p)]
Answer(p, i, ok) == [report |-> [ack |-> i, ok |-> ok, state |-> None,
                                 names |-> FALSE, rewound |-> FALSE],
                     merged |-> MergedOf(p)]

\* What this printer can report is evidence the inbox reckons with.
PrinterEvidence ==
    LET P == [state : PrinterState, job : Job]
    IN  {Status(p) : p \in P} \union {Answer(p, i, ok) : p \in P, i \in Ids, ok \in BOOLEAN}
ASSUME EvidenceIsExpected == PrinterEvidence \subseteq Evidence

Report2(new) == /\ Len(reports) + Len(new) <= MaxReports
                /\ reports' = reports \o new

\* The printer works on its own: the bridge's variables stay.
Alone == UNCHANGED <<inboxVars, tasks, bridge>>

\* A start arrives.  A printer at rest begins it, a busy one refuses it; either
\* may also let it drop without a word (QoS 0, a file it cannot read).
TakeStart(plate) ==
    /\ wire # <<>>
    /\ ~ plate => "archive" \in World
    /\ LET s == [Head(wire) EXCEPT !.plate = plate]
           begun == [state |-> "RUNNING", job |-> s]
       IN  \/ /\ printer.state \in ReadyStates
              /\ printer' = begun
              /\ Report2(<<Answer(printer, s.id, TRUE), Status(begun)>>)
           \/ /\ printer' = printer
              /\ Report2(<<Answer(printer, s.id, FALSE)>>)
           \/ /\ "ignore" \in World
              /\ UNCHANGED <<printer, reports>>
    /\ wire' = Tail(wire)
    /\ UNCHANGED <<asked, card>> /\ Alone

BecomesPrinting(p) ==
    /\ printer' = p
    /\ Report2(<<Status(p)>>)
    /\ UNCHANGED <<asked, wire, card>> /\ Alone

EndPrint == /\ printer.state = "RUNNING"
            /\ \E s \in {"FINISH", "FAILED"} :
                  BecomesPrinting([printer EXCEPT !.state = s])
PowerCycle == /\ "power" \in World
              /\ printer # [state |-> "IDLE", job |-> NoJob]
              /\ BecomesPrinting([state |-> "IDLE", job |-> NoJob])
PanelStart == /\ "panel" \in World
              /\ printer.state \in ReadyStates
              /\ \E n \in Names : BecomesPrinting(
                    [state |-> "RUNNING",
                     job |-> [id |-> None, target |-> n, task |-> n, plate |-> TRUE]])

AnswerPushall ==
    /\ asked
    /\ asked' = FALSE
    /\ Report2(<<Status(printer)>>)
    /\ UNCHANGED <<wire, printer, card>> /\ Alone

\* The MQTT session drops and comes back: what was on its way is gone, and the
\* new session begins with a pushall.
Reconnect ==
    /\ "reconnect" \in World
    /\ reports' = <<>> /\ asked' = TRUE
    /\ UNCHANGED <<wire, printer, card>> /\ Alone

-----------------------------------------------------------------------------
(***************************************************************************)
(* Reports.  _handle_report() merges a report before it awaits the         *)
(* observer, and takes the next one only after the observer is done.       *)
(***************************************************************************)
TakeReportUnmerged ==
    /\ reports # <<>> /\ inflight = None
    /\ \A i \in Ids : verdicts[i] = NoVerdict
    /\ inflight' = Head(reports)
    /\ seen' = inflight'.report
    /\ reports' = Tail(reports)
    /\ UNCHANGED <<inboxVars, tasks, asked, wire, printer, card>>

TakeReport ==
    /\ reports # <<>> /\ inflight = None
    /\ \A i \in Ids : verdicts[i] = NoVerdict
    /\ inflight' = Head(reports)
    /\ seen' = IF inflight'.report.state = None THEN seen ELSE inflight'.merged
    /\ reports' = Tail(reports)
    /\ UNCHANGED <<inboxVars, tasks, asked, wire, printer, card>>

Observe ==
    /\ inflight # None
    /\ ObserveRead(inflight)
    /\ inflight' = None
    /\ UNCHANGED <<seen, tasks, device>>

WriteObserved == ObserveWrite /\ UNCHANGED <<tasks, bridge, device>>

\* print_capture: an active print nobody owns is adopted, without the lock.
Adopt(i, c) ==
    /\ seen # None /\ seen.state \in ActiveStates /\ seen.task = c.name
    /\ AdoptRunningPrint(i, c)
    /\ UNCHANGED <<tasks, bridge, device>>

\* LOST_START_GRACE and DISPATCH_EXPIRY are long against a publication and the
\* way to the printer and back: a dispatched start crosses neither while it, or
\* a report that might speak of it, is on its way.
Prompt(i) == uploads[i].dispatched =>
    /\ session.row # i /\ reports = <<>> /\ inflight = None
    /\ \A k \in 1 .. Len(wire) : wire[k].id # i

Time(i) == Prompt(i) /\ Elapse(i) /\ UNCHANGED <<tasks, bridge, device>>

-----------------------------------------------------------------------------
(***************************************************************************)
(* The dispatch lock, an asyncio.Lock.                                     *)
(***************************************************************************)
NoSession == [who |-> None, pc |-> "free", row |-> None]
Session(who, pc, i) == [who |-> who, pc |-> pc, row |-> i]
Free == session = NoSession
At(who, pc) == session.who \in who /\ session.pc = pc
Goto(pc) == session' = [session EXCEPT !.pc = pc]

\* A step of a task that leaves the other tasks' places alone.
Locked == UNCHANGED <<worker, managed, slicer, sweep, bridge, device>>

\* A task takes the lock; nothing else has happened yet.
Acquire(who, pc, i) ==
    /\ Free
    /\ session' = Session(who, pc, i)
    /\ UNCHANGED inboxVars /\ Locked

\* ensure_idle() at its end: the merged state is a ready one.  A stale status
\* is first refreshed; the answer reaches seen like any report.
Ready == seen # None /\ seen.state \in ReadyStates

\* The steps after a task's readiness check.
AfterReady == [raw |-> "claim", managed |-> "claim", job |-> "freeze",
               worker |-> "freeze", replay |-> "check"]

EnsureIdle ==
    /\ session.pc \in {"ready", "recheck"} /\ Ready
    /\ Goto(IF session.pc = "recheck" THEN "claim" ELSE AfterReady[session.who])
    /\ UNCHANGED inboxVars /\ Locked

\* A check failed, a refresh timed out, the claim was refused or the client is
\* gone: the task gives the lock back with nothing done.
Refused ==
    /\ \/ session.pc = "ready" /\ session.who # "worker"
       \/ At({"raw", "managed"}, "claim")
       \/ At({"replay"}, "check") /\ Unresolved
       \/ At({"replay"}, "checked")
       \/ At({"job"}, "claim") /\ uploads[session.row].start # "reserved"
    /\ session' = NoSession
    /\ UNCHANGED inboxVars /\ Locked

\* recover_lost_start() of a ready printer: ask for the status that could
\* release a lost start, and wait for it ...
AsksStatus ==
    /\ session.pc = "recover" /\ Recoverable /\ Ready
    /\ asked' = TRUE
    /\ Goto("await")
    /\ UNCHANGED <<inboxVars, worker, managed, slicer, sweep, bridge,
                   reports, wire, printer, card>>

\* ... until it is handled or ten seconds are over.  Whatever came of it, the
\* caller goes on.
RecoverLostStart ==
    /\ \/ session.pc = "recover" /\ ~ (Recoverable /\ Ready)
       \/ /\ session.pc = "await"
          /\ "slow" \in World \/ (~ asked /\ reports = <<>> /\ inflight = None)
    /\ session' = IF session.who \in {"worker", "slicer"} THEN NoSession
                  ELSE [session EXCEPT !.pc = "ready"]
    /\ worker' = IF session.who = "worker" THEN [worker EXCEPT !.pc = "prune"] ELSE worker
    /\ slicer' = (slicer \/ session.who = "slicer")
    /\ UNCHANGED <<inboxVars, managed, sweep, bridge, device>>

\* prepare_shadow_accounting() never stops a print, whatever becomes of it.  (For
\* a raw start it has no artifact to freeze and notes that for review.)
Freeze ==
    /\ session.pc = "freeze"
    /\ Goto(IF session.who = "worker" /\ "inventory" \in Callers
            THEN "recheck" ELSE "claim")
    /\ FreezeAccounting(session.row) \/ UNCHANGED inboxVars
    /\ Locked

\* The row's start goes to the MQTT client; it may raise, and either way the
\* command may or may not get out.
Publish ==
    /\ session.pc = "publish"
    /\ LET i == session.row
           cmd == uploads[i].cmd
           start == [id |-> i, target |-> Remote(i),
                     task |-> IF cmd = None THEN None ELSE cmd.name, plate |-> FALSE]
       IN  wire' \in {wire, Append(wire, start)}
    /\ \E outcome \in {"sent", "unknown"} : Goto(outcome)
    /\ UNCHANGED <<inboxVars, worker, managed, slicer, sweep, bridge,
                   reports, asked, printer, card>>

\* The worker's pass goes on with the next row.
NextRow == [pc |-> "rows", todo |-> Tail(worker.todo)]

RecordDispatch ==
    /\ session.pc \in {"sent", "unknown"}
    /\ IF uploads[session.row].start = "dispatching"
       THEN Dispatched(session.row, session.pc)
       ELSE UNCHANGED inboxVars
    /\ session' = NoSession
    /\ worker' = IF session.who = "worker" THEN NextRow ELSE worker
    /\ UNCHANGED <<managed, slicer, sweep, bridge, device>>

(***************************************************************************)
(* Starts of the app and of raw clients, and managed jobs.                 *)
(***************************************************************************)
RawEnters == "raw" \in Callers /\ Acquire("raw", "recover", None)

RawClaims(i, c) ==
    /\ At({"raw"}, "claim")
    /\ ClaimExternal(i, c)
    /\ session' = Session("raw", "publish", i)
    /\ Locked

\* The client is cancelled between the claim and the publication: nothing tells
\* the row, which stays "dispatching" until it expires.
RawCancelled ==
    /\ At({"raw"}, "publish")
    /\ session' = NoSession
    /\ UNCHANGED inboxVars /\ Locked

NoManaged == [row |-> None, pc |-> "none"]

ManagedEnters ==
    "managed" \in Callers /\ managed = NoManaged /\ Acquire("managed", "recover", None)

\* The reservation is committed, the lock given back, and the job uploads.
ManagedReserves(i) ==
    /\ At({"managed"}, "claim")
    /\ ReserveExternal(i)
    /\ session' = NoSession
    /\ managed' = [row |-> i, pc |-> "job"]
    /\ UNCHANGED <<worker, slicer, sweep, bridge, device>>

\* The job's upload is done; it publishes its start.
JobEnters ==
    /\ managed.pc = "job" /\ Free
    /\ session' = Session("job", "ready", managed.row)
    /\ managed' = [managed EXCEPT !.pc = "leave"]
    /\ UNCHANGED <<inboxVars, worker, slicer, sweep, bridge, device>>

JobClaims(c) ==
    /\ At({"job"}, "claim")
    /\ ActivateReserved(session.row, c)
    /\ Goto("publish")
    /\ Locked

\* The job is over, cancelled before its start or after it: guard_managed_job()
\* takes back a reservation that was not used.
JobLeaves ==
    /\ managed # NoManaged /\ session.who # "job"
    /\ \/ AbandonReserved(managed.row)
       \/ uploads[managed.row].start # "reserved" /\ UNCHANGED inboxVars
    /\ managed' = NoManaged
    /\ UNCHANGED <<session, worker, slicer, sweep, bridge, device>>

\* Stop and pause, under the lock; the printer's own answer is EndPrint.
StopCommand ==
    /\ Free
    /\ \E i \in Ids : uploads[i].start = "queued"
    /\ CancelQueued
    /\ UNCHANGED <<tasks, bridge, device>>

(***************************************************************************)
(* Orca: uploads, and starts held for them.                                *)
(***************************************************************************)
OrcaUpload ==
    /\ \E i \in Ids : \/ \E n \in Names, p \in Peers : Reserve(i, n, p)
                      \/ ~ uploads[i].replay /\ Seal(i)
                      \/ uploads[i].state = "receiving" /\ ~ uploads[i].replay /\ Fail(i)
    /\ UNCHANGED <<tasks, bridge, device>>

OrcaStarts == "orca" \in Callers /\ ~ slicer /\ Acquire("slicer", "recover", None)

\* hold_start() runs after the lock was given back.
OrcaHeld ==
    /\ slicer /\ slicer' = FALSE
    /\ (\E p \in Peers, c \in Command : HoldStart(p, c)) \/ UNCHANGED inboxVars
    /\ UNCHANGED <<session, worker, managed, sweep, bridge, device>>

(***************************************************************************)
(* Library replays (service/library_replay.py): one task stages and queues *)
(* the saved slice under the lock.                                         *)
(***************************************************************************)
ReplayEnters == "replay" \in Callers /\ Acquire("replay", "ready", None)

\* unresolved() is false now; checked() then awaits the inventory.
ReplayChecks ==
    /\ At({"replay"}, "check") /\ ~ Unresolved
    /\ Goto("checked")
    /\ UNCHANGED inboxVars /\ Locked

ReplayReserves(i, c) ==
    /\ At({"replay"}, "checked")
    /\ ReserveReplay(i, c)
    /\ session' = Session("replay", "receive", i)
    /\ Locked

ReplaySeals ==
    /\ At({"replay"}, "receive")
    /\ Seal(session.row)
    /\ Goto("queue")
    /\ Locked

ReplayEnds ==
    /\ session.who = "replay"
    /\ \/ session.pc = "queue" /\ QueueReplay(session.row)
       \/ session.pc \in {"receive", "queue"} /\ AbandonReplay(session.row)
    /\ session' = NoSession
    /\ Locked

(***************************************************************************)
(* The owner's decisions (api/native.py): change_lock keeps them apart,    *)
(* and all but acknowledge hold the dispatch lock too.                     *)
(***************************************************************************)
OwnerResolves(i) ==
    /\ Free /\ Ready
    /\ ResolveRead(i)
    /\ session' = Session("owner", "resolve", i)
    /\ Locked

OwnerResolved ==
    /\ At({"owner"}, "resolve")
    /\ ResolveWrite
    /\ session' = NoSession
    /\ Locked

OwnerActs ==
    /\ \/ Free /\ \E i \in Ids : Cancel(i) \/ (Ready /\ (RetryDelivery(i) \/ Discard(i)))
       \/ AcknowledgePastReviews
    /\ UNCHANGED <<tasks, bridge, device>>

-----------------------------------------------------------------------------
(***************************************************************************)
(* deliver_inbox(), the one worker.  It wakes on an event or on its tick,  *)
(* expires, recovers, prunes, and then takes the rows pending at that      *)
(* moment in order, each to its delivery and its start.                    *)
(***************************************************************************)
Waiting == [pc |-> "wait", todo |-> <<>>]

\* pending(): uploads to deliver and starts to dispatch, oldest first.
Pending == {i \in Ids : uploads[i].state = "stored" \/ uploads[i].start = "queued"}
InOrder(todo) == \A k, l \in DOMAIN todo :
                    k < l => uploads[todo[k]].rowid < uploads[todo[l]].rowid

\* The worker alone moves, outside the lock.
Step(pc) == worker' = [worker EXCEPT !.pc = pc]
WorkerOnly == UNCHANGED <<session, managed, slicer, bridge>>

WorkerExpires ==
    /\ \/ worker.pc = "wait" /\ ExpireDispatch /\ Step("expire")
       \/ worker.pc = "expire" /\ ExpireQueued /\ Step("lock")
    /\ UNCHANGED sweep /\ WorkerOnly /\ UNCHANGED device

WorkerLocks ==
    /\ \/ worker.pc = "lock" /\ session' = Session("worker", "recover", None)
       \/ worker.pc = "dispatch" /\ session' = Session("worker", "check", Head(worker.todo))
    /\ Free
    /\ worker' = [worker EXCEPT !.pc = "locked"]
    /\ UNCHANGED <<inboxVars, managed, slicer, sweep, bridge, device>>

WorkerPrunes ==
    /\ worker.pc = "prune"
    /\ \/ \E i \in Ids : (PruneLocal(i) \/ PruneReceipt(i)) /\ worker' = worker
       \/ UNCHANGED inboxVars /\ Step("storage")
    /\ UNCHANGED sweep /\ WorkerOnly /\ UNCHANGED device

\* prunable(): settled uploads still delivered, but not the newest Keep of them
\* nor the file the printer names; and files whose receipt is gone.
SettledUploads == {i \in Ids : /\ uploads[i].kind = "upload"
                               /\ uploads[i].state = "delivered" /\ Settled(i)}
Prunable ==
    {i \in card : \/ ~ Present(i)
                  \/ /\ i \in SettledUploads
                     /\ Cardinality({j \in SettledUploads :
                                        uploads[j].rowid > uploads[i].rowid}) >= Keep}
    \ {seen.gcode}

\* At most hourly, and only while the printer is idle; what is old enough to go
\* is the oldest of them, and every file without a receipt.
WorkerSelects ==
    /\ worker.pc = "storage"
    /\ \/ /\ Ready /\ Prunable # {}
          /\ \E i \in Prunable :
                sweep' = {j \in Prunable : Present(j) => uploads[j].rowid <= uploads[i].rowid}
          /\ Step("sweep")
       \/ sweep' = {} /\ Step("pending")
    /\ UNCHANGED <<inboxVars, device>> /\ WorkerOnly

\* The deletes follow one by one, the first refusal ends them; remote_pruned()
\* only notes a code.
WorkerSweeps ==
    /\ worker.pc = "sweep"
    /\ \/ \E i \in sweep : sweep' = sweep \ {i} /\ card' = card \ {i} /\ worker' = worker
       \/ sweep' = {} /\ card' = card /\ Step("pending")
    /\ UNCHANGED <<inboxVars, reports, asked, wire, printer>> /\ WorkerOnly

WorkerLists ==
    /\ worker.pc = "pending"
    /\ \E todo \in [1 .. Cardinality(Pending) -> Pending] :
          InOrder(todo) /\ worker' = [pc |-> "rows", todo |-> todo]
    /\ UNCHANGED <<inboxVars, sweep, device>> /\ WorkerOnly

WorkerTakesRow ==
    /\ worker.pc = "rows"
    /\ IF worker.todo = <<>> THEN worker' = Waiting /\ UNCHANGED inboxVars
       ELSE \/ BeginDelivery(Head(worker.todo)) /\ Step("upload")
            \/ /\ uploads[Head(worker.todo)].state # "stored"
               /\ Step("dispatch") /\ UNCHANGED inboxVars
    /\ UNCHANGED sweep /\ WorkerOnly /\ UNCHANGED device

\* STOR to the printer; the row is moved after the transfer has ended, unless its
\* replay was abandoned meanwhile: transition() then finds another state.
WorkerUploads ==
    /\ worker.pc = "upload"
    /\ LET i == Head(worker.todo)
       IN  \/ i \notin card /\ card' = card \union {i} /\ UNCHANGED <<inboxVars, worker>>
           \/ i \in card /\ card' = card /\ Delivered(i) /\ Step("dispatch")
           \/ i \in card /\ card' = card /\ uploads[i].state # "delivering"
              /\ UNCHANGED inboxVars /\ Step("dispatch")
           \/ card' = card /\ Fail(i) /\ Step("dispatch")
    /\ UNCHANGED <<sweep, reports, asked, wire, printer>> /\ WorkerOnly

\* Under the lock: the row is read again, and only a delivered, queued one is
\* taken further.
WorkerChecks ==
    /\ At({"worker"}, "check")
    /\ LET i == session.row
           due == uploads[i].state = "delivered" /\ uploads[i].start = "queued"
       IN  IF due THEN Goto("ready") /\ worker' = worker
           ELSE session' = NoSession /\ worker' = NextRow
    /\ UNCHANGED <<inboxVars, managed, slicer, sweep, bridge, device>>

WorkerWaits == FALSE

\* The printer is not ready: the start is blocked, never kept waiting.
WorkerBlocks ==
    /\ At({"worker"}, "ready") \/ At({"worker"}, "recheck")
    /\ BlockStart(session.row)
    /\ session' = NoSession /\ worker' = NextRow
    /\ UNCHANGED <<managed, slicer, sweep, bridge, device>>

WorkerClaims ==
    /\ At({"worker"}, "claim")
    /\ ClaimStart(session.row)
    /\ Goto("publish")
    /\ Locked

\* The process dies and comes back: every task is gone, the table is recovered,
\* and the new MQTT session begins with a pushall.
GatewayRestart ==
    /\ Restart
    /\ session' = NoSession /\ worker' = Waiting /\ managed' = NoManaged
    /\ slicer' = FALSE /\ sweep' = {}
    /\ seen' = None /\ inflight' = None /\ reports' = <<>> /\ asked' = TRUE
    /\ UNCHANGED <<wire, printer, card>>

-----------------------------------------------------------------------------
TasksInit ==
    /\ session = NoSession /\ worker = Waiting /\ managed = NoManaged
    /\ slicer = FALSE /\ sweep = {}
    /\ seen = None /\ inflight = None /\ reports = <<>> /\ asked = TRUE
    /\ wire = <<>> /\ printer = [state |-> "IDLE", job |-> NoJob] /\ card = {}

GatewayInit == Init /\ TasksInit

PrinterWorks ==
    \/ \E plate \in BOOLEAN : TakeStart(plate)
    \/ EndPrint \/ PowerCycle \/ PanelStart \/ AnswerPushall \/ Reconnect

BridgeListens ==
    \/ TakeReport \/ Observe \/ WriteObserved
    \/ \E i \in Ids : Time(i) \/ \E c \in Command : Adopt(i, c)

ClientsAct ==
    \/ RawEnters \/ RawCancelled \/ ManagedEnters \/ JobEnters \/ JobLeaves \/ StopCommand
    \/ OrcaUpload \/ OrcaStarts \/ OrcaHeld \/ ReplayEnters \/ OwnerActs
    \/ \E i \in Ids : OwnerResolves(i)

LockHolderMoves ==
    \/ EnsureIdle \/ Refused \/ AsksStatus \/ RecoverLostStart \/ Freeze \/ Publish \/ RecordDispatch
    \/ ReplayChecks \/ ReplaySeals \/ ReplayEnds \/ OwnerResolved
    \/ WorkerChecks \/ WorkerBlocks \/ WorkerClaims
    \/ \E i \in Ids : ManagedReserves(i)
    \/ \E c \in Command : \/ JobClaims(c)
                          \/ \E i \in Ids : RawClaims(i, c) \/ ReplayReserves(i, c)

WorkerMoves ==
    \/ WorkerExpires \/ WorkerPrunes \/ WorkerSelects \/ WorkerSweeps
    \/ WorkerLists \/ WorkerTakesRow \/ WorkerUploads

GatewayNext ==
    \/ PrinterWorks \/ BridgeListens \/ ClientsAct \/ LockHolderMoves
    \/ WorkerLocks \/ WorkerMoves \/ GatewayRestart

GatewaySpec == GatewayInit /\ [][GatewayNext]_vars

\* What the code's scheduling gives: tasks, the worker's thread calls and the
\* report handler run on; the lock is handed out in order, so the worker gets
\* it; its 60 s tick, time, and a printer that answers a pushall.
Fairness ==
    /\ WF_vars(LockHolderMoves) /\ WF_vars(WorkerMoves) /\ SF_vars(WorkerLocks)
    /\ WF_vars(TakeReport) /\ WF_vars(Observe) /\ WF_vars(WriteObserved)
    /\ SF_vars(AnswerPushall) /\ WF_vars(\E plate \in BOOLEAN : TakeStart(plate))
    /\ \A i \in Ids : SF_vars(Time(i))

FairGateway == GatewaySpec /\ Fairness

\* The type invariant, with the inbox's.
Evidences == [report : Report, merged : Merged]
GatewayTypeOK ==
    /\ TypeOK
    /\ session \in [who : Holders \union {None},
                    pc : {"free", "recover", "await", "ready", "recheck", "freeze", "claim",
                          "publish", "sent", "unknown", "check", "checked", "receive",
                          "queue", "resolve"},
                    row : Ids \union {None}]
    /\ worker \in [pc : {"wait", "expire", "lock", "locked", "prune", "storage", "sweep",
                         "pending", "rows", "upload", "dispatch"},
                   todo : UNION {[1 .. k -> Ids] : k \in 0 .. Cardinality(Ids)}]
    /\ managed \in [row : Ids \union {None}, pc : {"none", "job", "leave"}]
    /\ slicer \in BOOLEAN /\ asked \in BOOLEAN
    /\ sweep \subseteq Ids /\ card \subseteq Ids
    /\ seen \in Merged \union {None} /\ inflight \in Evidences \union {None}
    /\ reports \in Seq(Evidences) /\ wire \in Seq(Job)
    /\ printer \in [state : PrinterState, job : Job]

(***************************************************************************)
(* What the gateway promises.                                              *)
(***************************************************************************)
\* The dispatch lock, the table's own checks and the order of the reports
\* together keep a second start off the printer: while one is on its way, or
\* the print it began still runs, no other start is on its way.
OneStartInFlight ==
    /\ Len(wire) <= 1
    /\ wire # <<>> => printer.state \in ReadyStates \/ printer.job.id = None

\* A start is not given up while its print runs: the printer at work on a row's
\* job means the row still owns the printer.
RunningPrintIsOwned ==
    printer.state = "RUNNING" /\ printer.job.id # None => Owns(printer.job.id)

\* The file an Orca start names is on the card when the start goes out.
StartedFileOnCard ==
    \A k \in 1 .. Len(wire) : wire[k].target \in Ids => wire[k].target \in card

\* A row that is reserved or being dispatched has a task that will take it
\* further or back, so nobody's reservation keeps the printer: a job between its
\* two turns at the lock, or the lock's holder; none is left by a crash.
PendingHasTask ==
    \A i \in Ids :
        /\ uploads[i].start = "reserved" => i \in {session.row, managed.row}
        /\ uploads[i].start = "dispatching"
              => session.row = i /\ session.pc \in {"publish", "sent", "unknown"}

\* A queued start does not wait for ever: it is dispatched, blocked or
\* cancelled within one delivery and claim (the comment above QUEUED_EXPIRY).
QueuedStartEnds ==
    \A i \in Ids : uploads[i].start = "queued" ~> uploads[i].start # "queued"

\* A start never seen active does not fence a printer that stays at rest, over a
\* session that stays up (the comment above the release in observe()).
LostStart(i) == /\ ~ uploads[i].active
                /\ uploads[i].start \in {"dispatching", "sent", "accepted", "unknown"}
LostStartIsReleased ==
    <>[](printer.state \in ReadyStates) /\ <>[][~ Reconnect]_vars
        => \A i \in Ids : []<>~LostStart(i)
=============================================================================
