# A verification of bambu-bridge

bambu-bridge stands between slicers, phones and home automation on one side and
Bambu Lab printers on the other. It accepts uploads and start commands over
the printer's own protocols (FTPS, MQTT) and over HTTP, keeps them in SQLite,
forwards them to the printer, follows the print through its reports, and debits
the filament it used in Spoolman. Sending something twice, or to a printer that
is already printing, ruins a print; charging a spool twice ruins the books.

This directory models these decisions in TLA+, checks them with TLC on small
instances, and proves the ones that matter most with TLAPS for instances of any
size: that no start is published twice, that one receipt owns the printer, that
settled starts stay settled, that every ledger row implements an abstract
*charge once*, that an ended job keeps its end, and others (section 4).

Paths below are relative to `src/src/bambu_bridge/`, unless they begin with `src/`.

## 1. Inventory

| Component | State | Operations | Talks to | What is hard |
|---|---|---|---|---|
| **Native inbox** `native_inbox.py` | SQLite table `uploads`, trigger-fed `accounting_shadow_events` | reserve, receive, hold_start, claim_start, claim_external, activate_reserved, observe, expire, resolve, cancel, retry, discard, deleted, prune, recover | called from threads (`to_thread`) by everything below | read and write in different transactions, crashes between them, reports that are late or ambiguous |
| **Native gateway** `native_gateway.py` | dispatch lock, worker loop, context variables, storage sweep | deliver_inbox, ensure_idle, guard_inbox_command, guard_managed_job, observe_inbox | inbox, printer service, FTPS | tasks around one lock whose holder awaits the printer |
| **Native FTPS server** `native_ftps.py` | sessions, a file being received | STOR, DELE, SIZE | inbox | cut-off transfers |
| **Library replay** `service/library_replay.py` | none of its own | submit | inbox, library | check, await, then act |
| **Print capture and library** `service/print_capture.py`, `library*.py` | captured archives | capture_once, adopt | inbox, FTPS | adoption beside a start in flight |
| **Print jobs** `service/jobs.py`, `db/jobs.py` | `jobs` table; one `JobRun` task per live bridge job; one watcher task per printer | submit, cancel, the run's lifecycle, external rows, orphans, recover | printer service, event bus, FTPS, gateway guard | events that are lost or late, stops that cross starts, restarts |
| **Print queue** `api/queue.py`, `QueueRepo` in `db/jobs.py` | `print_queue` table | add, reorder, delete, start | jobs | several statements per request on one connection |
| **Printer service** `service/printer.py` | merged printer view, connection | reports, commands, named events | MQTT, bus, gateway observer | partial reports, stale view after a reconnect |
| **Event bus and log** `service/events.py`, `service/event_persister.py`, `api/events.py` | bounded queues, event rows | publish, subscribe, resume | everything that watches | dropped events, resume points |
| **MQTT, FTPS, TLS clients** `protocol/` | sockets | publish, upload, pushall | printer | QoS 0, reconnects |
| **Usage ledger, delivery, review** `service/usage_ledger.py`, `service/consumption_delivery.py`, `service/shadow_accounting.py`, ... | ledger rows open / sent / held / done | settle, credit, witness, retry | Spoolman, inbox outcomes | lost answers, restarts, a six hour budget |
| **Spool inventory** `service/inventory.py`, `spool_assignments.py`, `inventory_journal.py`, `spoolman.py` | assignments, journal | assign, release, recover | Spoolman | two systems of record |
| **Filament refill** `refill.py`, `service/refill_adapter.py`, ... | durable intent of a running refill | start, step, abort, recover | printer, inventory | crash in the middle |
| **Slots shown to slicers** `native_spools.py`, `service/slot_display.py`, `service/tagged_spools.py` | last written slot settings | write, confirm | printer | who wrote last |
| **Registry, pairing, auth** `service/registry.py`, `pairing.py`, `orca.py` | printers, pairing codes, tokens | add, remove, pair | all | restore after a failed step |
| **Video, previews, caches** `native_video.py`, `service/viz_cache.py`, ... | processes, cache files | render, evict | files | none that meets a print |
| **Parsing and tables** `protocol/threemf.py`, `translate.py`, `hms.py`, `slicedoc/` | none | pure functions | — | text |
| **Shell** `main.py`, `config.py`, `log_redaction.py`, ... | settings | wiring | all | — |
| **Outside the package** `src/homeassistant`, `src/mobile`, `src/plugins`, ... | their own | HTTP clients | the API | — |

`PROJECT.json` lists every component with what is modelled of it, and every
hazard with the source line where it bites and the properties about it.

How the parts meet in a print: an **upload** enters the inbox (*receiving →
stored*), the gateway's worker delivers it to the card (*delivering →
delivered*). A **start** is held with its upload (*queued*), or reserved by a
managed job or a replay, or claimed directly for a file already on the card.
Under the **dispatch lock**, with fresh evidence of an idle printer, exactly one
row is claimed (*dispatching*) and its command published. The printer's
**reports** then drive the row (*sent → accepted → running → completed*), and a
row in one of the owner states fences every other start. Beside this, a job
submitted through the bridge's own API has a `jobs` row and a task that follows
the same printer through the event bus.

## 2. Modules

| Module | Stands for | Checked in run |
|---|---|---|
| `NativeInbox` | `native_inbox.py`, one printer, its most general client | `inbox` |
| `NativeGateway` | `native_gateway.py` and the tasks that call the inbox, the printer and its card | `gateway_*` |
| `NativeSessions` | the gateway turned on, reconfigured and off under its slicers | `services` |
| `FtpsSession` | `native_ftps.py`: sessions, passive channels, transfers | `stores` |
| `InboxRecovery` | `native_recovery.py`: backups and restores of the inbox | `services` |
| `PrintJobs` | `service/jobs.py`, the job table, the view and the bus it reads | `services`, `jobs_live` |
| `PrintQueue` | `QueueRepo` of `db/jobs.py`, `api/queue.py` | `stores` |
| `SharedDb` | `db/jobs.py`: the one connection, the migration, slot labels | `stores` |
| `UsageLedger` | `service/usage_ledger.py`, `consumption_delivery.py`, `usage_review.py` | `ledger` |
| `ChargeOnce` | what debiting a spool promises: the abstract specification of a ledger row | `ledger` |
| `Refill` | `refill.py`, its adapter, reports and routes | `refill` |
| `RefillHistory` | `service/auto_refill.py`, `service/diagnostic_journal.py` | `devices` |
| `SpoolSeats` | which spool is in which slot: `service/inventory.py`, `tagged_spools.py`, ... | `devices` |
| `SlotDisplay` | the spool a slicer is shown: `service/slot_display.py`, `native_spools.py` | `devices` |
| `Library` | `library.py`, `service/library_history.py`, `service/print_capture.py` | `stores` |
| `FileListing` | `protocol/ftps.py`'s listings, the slice dates | `stores` |
| `Previews` | `service/viz_cache.py`, `api/viz.py`, `source_assets.py` | `stores` |
| `EventFeed` | `service/event_persister.py`, `push/ntfy.py`, `service/registry.py`, `main.py` | `stores` |
| `PrinterLink` | `protocol/mqtt.py`, `service/printer.py`, `service/events.py`, `api/status.py` | `devices` |
| `Control` | `api/control.py`, `api/advanced.py`, `api/capabilities.py` | `devices`, `control_torn` |
| `SkipObjects` | `skip_objects.py`, `api/skip_objects.py` | `devices` |
| `Credentials` | `pairing.py`, `orca.py` | `services` |
| `AdaptiveVideo` | `adaptive_video.py`, `video_publisher.py`, `native_video.py` | `services` |
| `CameraStream` | `protocol/camera.py` | `services` |

`NativeGateway` extends `NativeInbox`: every action that touches the receipt table
*is* an action of the inbox, at the place of a task where the gateway calls it.
`UsageLedger` instantiates `ChargeOnce` with its own rows. `MCNativeInbox`,
`MCNativeGateway`, `MCUsageLedger`, `MCRefill` and `MCPrintJobs` give one module its
constants for TLC. `MCStores`, `MCDevices` and `MCServices` each put several
modules that share no state side by side: the variable `part` says which module a
behaviour is one of, and the variables of the others keep their first value. They
check what the modules would check alone, in one run. `MCLibrary` with
`Library.cfg` runs `Library` alone with its fairness; it is for use by hand.
`NativeInboxProofs`, `NativeGatewayProofs`, `UsageLedgerProofs`, `PrintJobsProofs` and
`RefillProofs` hold the theorems of the module they are named after. Three proof modules hold
those of several modules that share no state: `StoresProofs` of `Library` and `SharedDb`,
`SendingProofs` of `InboxRecovery` and `SkipObjects`, `AccessProofs` of `NativeSessions`,
`Credentials` and `FtpsSession`.

A module's variables are named after the attributes and columns they stand for and
an action after its method, with the line it begins at in `PROJECT.json`'s map. One
action is what runs between two awaits, or one transaction where threads
interleave; a method that awaits is several actions with a program counter
(`at`, `pc`, `step`) in between. What may happen and how often is a constant record
(`World`, `Limits`, `Cases`, `budget`), chosen once in the first state.

### NativeInbox

`uploads` maps each receipt identity to a `Row`; its fields are the columns the
code's conditions read, with a timestamp reduced to the thresholds it is compared
with (`age`: before dispatch, 2 is past `QUEUED_EXPIRY`; after it, 1 is past
`LOST_START_GRACE` and 2 past `DISPATCH_EXPIRY`). Every method of the class is
one action, with three exceptions, which the code runs in two transactions and
the model in two actions: `observe` (`ObserveRead`/`ObserveWrite`, the
decision waiting in `verdicts`), `resolve` (`ResolveRead`/`ResolveWrite`) and
`deleted` (`DeletedDiscard`/`DeletedMark`). Three more read and write apart and are one
action, which leaves no row out: `discard` and `prune` write `retained`, which nothing asks
but the count of the capacity, so that what comes between might as well have come after; and
between the halves of `retry_delivery`, which the owner runs under the dispatch lock, only a `DELE` could come,
whose row a stop between the halves of `deleted` leaves as well (stored, without its
payload). `fail` asks for no state; the model calls it where its callers can: for what is received or
delivered, for an upload whose `_seal` committed in its thread while `receive` was cancelled, and
for one that `abandon_replay` had failed before. The trigger that records a usage outcome
is part of `Put` (`Recorded`). `Restart` is a crash at any point followed by
`recover()`. `Callers` says which parts of the program exist in an instance, so
that a run or a theorem can ask what holds without, say, owner decisions. A report
is a pair of what it carries and of the merged view after it (`Evidence`).
Abstracted: hashes, sizes, paths and error codes; the accounting manifest (frozen
or not); archive pages. `Capacity` is the code's 128.

### NativeGateway, NativeSessions, FtpsSession, InboxRecovery

In `NativeGateway`, `session` is the holder of `inbox_dispatch_lock` and its program
counter; `worker` the delivery loop with the rows its pass still has to look at;
`managed` the reservation a job carries between its two turns at the lock; `slicer`
a start command between the lock and `hold_start`; `sweep` the files the storage
sweep has selected. The printer, its card, the start command on the wire and the
reports on their way are external, modelled from what the code's comments and
`observe()` count on: commands are QoS 0 and may be dropped, reports keep their
order, a `pushall` is answered. One assumption is the comment's at
`LOST_START_GRACE`: a printer that takes a start reports so before the grace has
passed (`Time` waits for what is on its way). Panel prints, lost starts, power
cycles, reconnects, late status and `gcode_file` naming are switched on by `World`.

`NativeSessions` numbers the configurations `enable()` makes, so that a session
logged in under one can be told from the present one. A slicer has a transport (`up`) and a
handler (`at`), which works on when its peer is gone: in the thread that hashes the code, or at the
dispatch lock. The asyncio server is external; closed, it waits for transports and not for
handlers (`Drained`), so that `close()` waits for as long as a late peer stays connected, and
`config` is replaced under the handlers left over. `FtpsSession` numbers passive channels, each meant by its client for one
transfer, and asks that what arrives over one is taken as that transfer.
`InboxRecovery` reduces an inbox to what became of each upload and follows a restore
through its two renames, either of which may fail, with a crash between any two steps.

### PrintJobs, PrintQueue, SharedDb

One action of `PrintJobs` is what runs between two awaits of `JobRun`, of the watcher
(`_watch_printer`, `_close_orphans`, `_maybe_create_external_job`) or of a
route. `rows` is the table, `run` the one live `JobRun` (`_busy` admits one per
printer), `watch` the watcher with its queue, `view` what `print_view()` is built
from. A `PAUSE` is read like `RUNNING` by this code and is not told apart; an
`IDLE` that still names a resumable job is left out; every print has a name of
its own. Assumptions about time, each in the guard that makes it: the 300 s for a
start to be accepted elapse only when no start of the row is pending anywhere and
the view is current (`Elapse`; a link outage of more than 300 s is not modelled);
a command is handled before a print changes phase (`Quiet`); two reports with
different states come further apart than the watcher needs for one
(`WatcherIdle`); a person starts the next print after the bridge heard of the end
of the last (`PanelStart`).

Requests on the queue interleave between SQL statements, all on one connection:
`queue` is what the connection sees, `disk` what was committed, `client` where each
request stands and the updates it still has to write. `Crash` loses what was not
committed. `SharedDb` asks the same of the migration at a start and of the labels of
AMS slots with their cache. A printer removed while its items are queued is left out.

### UsageLedger, ChargeOnce

`row[a, s]` is the ledger row of print `a` on spool `s`; `call` is a settle or a credit with
its steps (verify the witness of the last write, plan, write, check), `pass` the worker's pass,
`owner` a request of the owner; the two serialise on `inventory.writes`. Spoolman is `used` and
`gone`, and takes a write, refuses it, takes it and loses the answer, or, in the rare event
`late`, takes it only after the read that was to verify it (`LandsLate`). The run has that
event where nothing sends the grams again, on a print without a plan; elsewhere it breaks
`ChargeOnceSpec` (section 5). `applied`, `asked` and `edited` are history variables: what was
really taken for a key, the most that was ever asked, and whether somebody else has changed the
spools. `ChargeOnce` has per key what was asked, charged and booked and says: a charge goes out
only when the one before it is booked, and never past what was asked. `UsageLedger!ChargedOnce`
maps its keys to `Pairs`, `charged` to `applied` and `booked` to the rows' `written`.

### Refill, RefillHistory, SpoolSeats, SlotDisplay

`Refill` follows the owner's refill group: `group` is the saved state with its steps,
`drive` the task that executes them, split at every save, `command` and `removal` what is
under way, `tray` the AMS and `seen` what it last reported. A source generation is
compared only with the one a step stored, so a step carries whether its generation is
the slot's present one (`same`) and whether an earlier run issued it (`old`).
`RefillHistory` records handoffs from notices or by inference and carries them over a
restart. In `SpoolSeats` a person moves spools, the AMS reports it, and three writers
follow; in `SlotDisplay` a refresh makes bindings with a provider call in the middle.

### Library, FileListing, Previews, EventFeed

`Library`: each transaction of the store is one action; threads (slicer, scan, copier,
catch-up) interleave between them, and a disk error may leave file work done and its
commit undone. `FileListing` counts time in ticks, with a year `Year` of them.
`Previews` knows a file by its job's name and a revision that every write of the card
changes. `EventFeed` numbers services and events; a reader is subscribed to a service.

### PrinterLink, Control, SkipObjects, Credentials, AdaptiveVideo, CameraStream

`PrinterLink` has the printer's state, the session that brings its changes, the merged
`view` and the readers of it. `Control` splits a control request where it awaits: a fresh
status, the judgement, the handler's own check, the publication. `SkipObjects` gives
every run the same name, the worst case. `Credentials` has two processes that may make
the identity at once, each of which looks for the key and for the certificate in two steps
(`Looks`, `Makes`). `AdaptiveVideo` and `CameraStream` follow one encoder and one
connection through the requests, linger tasks and locks that start and end them. An encoder is
started in two steps under its lock (`MakesFolder`, `Spawns`), each of which may fail, and stopped in three
(`Stops`, `Reaps`, `Removes`); `disk` holds the directories there are.

## 3. Runs

| Run | Shows | Distinct states |
|---|---|---|
| `inbox` | one receipt under every caller, or two that compete without owner decisions and replays: claimed at most once, a failed transfer gives the printer back, only delivered bytes are dispatched, no hidden owner, usage is charged only for a print that ran; one owner, no queued start whose file cannot come, no settled start that comes back | 51 k |
| `gateway_world` | everything the printer and the network do around one receipt, with crashes: a start is never given up while its print runs | 1.16 M |
| `gateway_fence` | two receipts, raw starts and managed jobs through lock, worker and wire: no second start on its way or into a running print | 175 k |
| `gateway_tasks` | all tasks, replay, owner, retention, crashes around one receipt: no reservation or dispatch outlives its task | 0.95 M |
| `gateway_live` | fairness: a queued start ends; a start the printer dropped stops fencing an idle printer | 68 k |
| `ledger` | one print over two spools with lost answers, a crash, an archived spool, an edit, an owner who closes it in the middle of a pass, and a move that is cut off and asked for again: each row implements `ChargeOnce`, no pass charges what was closed when it began, a move loses no gram; fairness: a pending debit closes | 1.18 M |
| `refill` | two slots with a lost answer, a crash, an outage, a print, an edit at the printer or a spool swapped: every alias is accounted for, no write in doubt is sent again, nobody's setting is written over; fairness: a removal asked for again is never a dead end | 75 k |
| `jobs_live` | fairness: a requested stop ends its run, no lost event strands a run, a row left by a restart is closed with its print, which gets no second row | 91 k |
| `stores` | one of: the queue, the shared tables, the event log, previews, listings, the library, FTPS sessions | 1.22 M |
| `devices` | one of: the link, the control routes, skipped objects, the record of refills, spools in slots, what a slicer is shown | 1.68 M |
| `services` | one of: jobs, sessions, credentials, restores, the encoder, the camera | 1.73 M |
| `control_torn` | *violation*: a report marks the status fresh before it is merged, and a homing goes to a printer that prints | — |

Some runs check a conjunction that names one question; its parts are definitions of
the module, each with its own comment, and a counterexample is found in one of them:

| Checked | Parts |
|---|---|
| `ReceiptSound` | `TypeOK`, `ClaimOnce`, `OwnersAreLive`, `StartsWereReal` of the one receipt under all callers |
| `LedgerSound` | `LedgerTypeOK`, `DeliveredIsCharged`, `SpoolStopsAtZero` |
| `RefillSound` | `RefillTypeOK`, `AliasAccounted`, `NeverResent`, `DisabledOwesNothing` |
| `JobsSound` | `JobTypeOK`, `CompletedWasPrinted`, `EndedJobIsOver`, `PrintingMadeProgress`, `StopHitsItsPrint` |
| `TablesSound` | `QueueTypeOK`, `PositionsDense`, `RemovedWasAccepted`, `StartedOnce`; `SharedDb`: `ShiftedOnce`, `DoneIsDurable`, `LabelFits` |
| `FeedSound` | `InOrder`, `NothingMissed`, `OneService`, `Watched`, `RowKept`, `PageIsFull`, `EndsClean` |
| `FilesSound` | `Previews`: `ShownIsCurrent`, `TagNamesBody`, `OneVersion`; `FileListing`: `RefusedIsNotEmpty`, `LearnedIsShown`, `NewestFirst` |
| `LibrarySound` | `LibraryTypeOK`, `StoredIsReadable`, `QuotaKept` |
| `FtpsSound` | `AnsweredAsMeant`, `SentIsTaken`, `PrintedIsKept` |
| `PrinterSound` | `PrinterLink`: `OneLink`, `StartIsOwn`, `ClientCatchesUp`, `LinkIsTold`, `LogIsTold`; `Control`: `AskedOnce`, `RecentlyIdle` |
| `SkipSound` | `SkipMeetsItsPlate`, `NeverEmptied`, `StopLeavesNothing` |
| `HistorySound` | `NoneTwice`, `NoneMissed`, `PlacedAfter` |
| `SpoolsSound` | `SpoolSeats`: `SeatedIsThere`, `SeatedOnce`, `CreatedOnce`; `SlotDisplay`: `ShownIsVouched`, `LossIsShown`, `BoundIsMeant` |
| `AccessSound` | `NativeSessions`: `SessionIsCurrent`, `GivenIsKept`, `ActedOnce`; `Credentials`: `PinStays`, `InvitedOnce`, `SentWasHeld` |
| `RecoverySound` | `SentOnce`, `NothingLost`, `InboxIsThere` |
| `VideoSound` | `AdaptiveVideo`: `NothingIsLeftBehind`, `OnlyPlaylistsWake`; `CameraStream`: `WatchedIsOpen`, `UnwatchedIsEnded`, `BufferIsCurrent` |

**Bounds.** Receipts: one where the question is about the life of a row (its
variables are a row's columns, no statement but the fence relates two rows), two
where it is about competition; three would add a second loser. `MaxReports = 2`
lets a report overtake a decision made on the one before. `Keep` (3 in the code) is
0 or 1 so that the sweep has something to remove. `MaxRows`, `MaxPanel`: two prints,
so that each can be mistaken for the one before, and a third row where external rows
may be added. Two spools of one and two grams, so that one fills while the other
does not, and a print draws at most its capacity. A second move in the case with the crash, so
that one that was cut off, refused or left unanswered is asked for again and resumed. Two clients, requests,
slicers or phones wherever requests may overlap; two contents, two revisions, two
blobs wherever one may be mistaken for another. A bound of one on a queue, cache or
page puts it at its limit at once; limits that are part of the behaviour
(`MaxWriters`, `MaxTries`, `FETCH_TRIES`, `INFER_FRAMES`) are those of the code, or
two. Rare events are given as sets of cases, each with the one or two events that
meet in it: all of them at once would only multiply the states. Receipts are
interchangeable model values, hence the symmetry sets of the safety runs of the
inbox; runs that check liveness use none. `CHECK_DEADLOCK FALSE` stands where every
bound may be used up and the system is then at rest.

**Fairness.** `NativeGateway`: asyncio tasks and thread calls run on (weak
fairness of the lock's holder, the worker and the report handler);
`asyncio.Lock` wakes its waiters in order, so the worker is not passed over for ever
(strong fairness of `WorkerLocks`); its 60 s tick wakes it without a signal; the
printer answers a `pushall`, or the next one (strong, as a reconnect drops
what is on its way); time passes. `LostStartIsReleased` is asked only of
a printer that comes to rest over a session that stays up. `PrintJobs`: tasks and
the watcher run on, reports keep coming, the printer handles commands, time
passes, and a publish that is retried for ever succeeds at some point (`_track` retries
on every wake). `JobsLiveSpec` adds that a print ends, where the world has the event
`ends`; a requested stop is checked without it. `UsageLedger`: calls, passes and
requests run on, every HTTP call ends, and the six hours of a retry budget pass; not
that Spoolman ever answers. `Refill`: tasks run on, the printer answers, reports and
finishes its prints, a lost link comes back; `RefillInsistSpec` adds an owner who asks
again for the removal as long as the backup is shown, which is the code's way out of
a removal that found the slot changed. `Library` (by hand): a call that has begun ends
and the scan comes round every 30 s.

## 4. Proofs

The theorems hold for every value of the constants under the named assumptions of
the modules (`IdsAssumption`, `NullAssumption`, `HolderAssumption`, `EvidenceAssumption`, ...:
identities, phones and invitations are finite, identities distinct from names, NULL is none of the identities, names, states
or tasks, evidence is well formed; `EvidenceIsExpected`: what the inbox may be told includes
whatever the modelled printer can send, `PrinterEvidence`; `LedgerAssumption`: uses and capacities are numbers, spools are finite;
`JobsAssumption`: bounds are numbers). TLC evaluates these on every run. Some have a
hypothesis besides; it leaves out behaviours in which the code really breaks the
property, which section 5 lists, or, for `archive`, a printer other than the one the
reports were taken from (below).

| Theorem | Module | Says | Hypothesis |
|---|---|---|---|
| `TypeCorrect` | `NativeInboxProofs` | `TypeOK` always | — |
| `AtMostOnce` | `NativeInboxProofs` | `ClaimOnce` always: no start is published twice | — |
| `OwnersStayLive` | `NativeInboxProofs` | `OwnersAreLive` always: no failed or hidden row keeps the printer | — |
| `OnlyRealStarts` | `NativeInboxProofs` | `StartsWereReal` always: what was published was whole, what is charged was printed | — |
| `QueuedStartsHaveFiles` | `NativeInboxProofs` | `QueuedCanBeClaimed` always | no client deletes over FTPS |
| `SettledForGood` | `NativeInboxProofs` | `SettledStaysSettled`, an action property | the owner resolves nothing by hand |
| `PrinterHasOneOwner` | `NativeInboxProofs` | `OneOwner` always | no replay, no resolution by hand |
| `GatewayTyped` | `NativeGatewayProofs` | `GatewayTypeOK` always | — |
| `GatewayImplementsInbox` | `NativeGatewayProofs` | the gateway's specification implements the inbox's, `GatewaySpec => Spec` | — |
| `PendingIsHandled` | `NativeGatewayProofs` | `PendingHasTask` always: no reservation or dispatch is left without the task that answers for it | no raw client, no `archive` |
| `RunningPrintKeepsOwner` | `NativeGatewayProofs` | `RunningPrintIsOwned` always: no start is given up while its print runs | no resolution by hand, no `archive` |
| `StartsComeOneByOne` | `NativeGatewayProofs` | `OneStartInFlight` always: no second start on its way or into a running print | these two, and no replay |
| `LedgerImplementsChargeOnce` | `UsageLedgerProofs` | every ledger row implements `ChargeOnce` | `Alone` (below) |
| `WorkerLeavesClosed` | `UsageLedgerProofs` | `ClosedIsLeftAlone`, an action property | — |
| `NoOverdraft` | `UsageLedgerProofs` | `SpoolStopsAtZero` always | — |
| `JobTypes` | `PrintJobsProofs` | `JobTypeOK` always | — |
| `EndsAreKept` | `PrintJobsProofs` | `TerminalStays`, an action property | `RunIsNewest` at all times (below) |
| `BridgeJobsAreSound` | `PrintJobsProofs` | `JobsSound`, `OneRowPerPrint` always | `BridgeOnly` (below) |
| `PanelPrintsAreSound` | `PrintJobsProofs` | `JobsSound`, `OneRowPerPrint` always | `PanelOnly` (below) |
| `SentOnceAndOwesNothing` | `RefillProofs` | `RefillTypeOK`, `NeverResent`, `DisabledOwesNothing` always | — |
| `TheirsStay` | `RefillProofs` | `TheirsIsKept`, an action property | `Calm` (below) |
| `RefillKeepsAliasesOnRecord` | `RefillProofs` | `RefillSound` always, with `AliasAccounted` | `~ LateLands`, `FewEdits` (below) |
| `StoredStaysReadable` | `StoresProofs` | `StoredIsReadable` always | — |
| `HeldFitsQuota` | `StoresProofs` | `QuotaKept` always | — |
| `DeletedForGood` | `StoresProofs` | `TombstonesStay`, an action property | — |
| `SharedDbIsSound` | `StoresProofs` | `DbSound` (of `TablesSound`) always | — |
| `RestoresSendOnce` | `SendingProofs` | `SentOnce` always | — |
| `RestoreIsSound` | `SendingProofs` | `RecoverySound` always | `NoWindow`, `NeverTorn` (below) |
| `SkipsMeetTheirPlate` | `SendingProofs` | `SkipSound` always | `AllPlain` (below) |
| `SessionsAreSound` | `AccessProofs` | `SessionsSound` always | — |
| `CredentialsAreSound` | `AccessProofs` | `CredentialsSound` always | — |
| `TransfersAreAsMeant` | `AccessProofs` | `FtpsSound` always | `NoOdd` (below) |

**The inbox.** `TypeCorrect` has one lemma per group of actions; the row lemmas
(`ColumnTyped`, `NewRowsTyped`, `PutTyped`, `LifecycleTyped`) say that what the methods
write is a row. `ClaimOnce` is not inductive: that a row claimed once is not claimed
again rests on its start never being pending, nor unset on a row not yet forgotten,
afterwards. `ClaimInv` adds that (`Startable(i) => claims[i] = 0`), and that a verdict
of `observe()`, which is written onto a row other than the one it was decided on, is
never a pending state. `OneOwner` plays no part: a claim stays unique even where the
fence does not hold.

`LiveInv` is one predicate per receipt, `RowFits`, over the row *and* what is kept of
it elsewhere: the pending verdict, the recorded event, the claims, and whether
`deleted()` has yet to mark it. The verdict is the reason: it is decided on one row and
written to whatever the row is by then, so a row may not be dismissed, and an active
row may not be decided inactive, while one is pending. `OwnersStayLive` and
`OnlyRealStarts` both follow from it, without any condition on the callers.

`QueuedInv` adds that no deletion stands between its two transactions.
`SettledForGood` and `PrinterHasOneOwner` share `DecidedInv` (a pending verdict belongs
to a tracked row, which a resolution would break) and `OwnerComes` (a row that takes
the printer had no start, found the printer free, and is the only row written). The
first of these gives the action property at once; the second gives `OneOwner` by the
uniqueness of the row that comes.

**The gateway.** `GatewayInv` says where the tasks may stand: the lock's holder is at a
place of its own code with a row in hand exactly where that code has one (`Seats`), the
worker is at the lock if and only if it holds it, and what a report carries is well
formed. With it every step of every task is a step of `NativeInbox` or leaves the table
alone, which is `GatewayImplementsInbox`: the inbox's client is the most general one, and
all that is proved of the inbox holds of the gateway under the same hypotheses on the
callers. The proofs below use its `ClaimInv` and `LiveInv` in this way.

`TakenInv` ties a pending row to its task: a reserved row is the managed job's or the
replay's, a row being dispatched is the one the lock's holder has in hand between the claim
and the record of its fate, and no verdict of `observe()` puts a row back into that state.
It is inductive only without raw clients, which claim a row and may be cancelled before
they take charge of it, and where no report can match a row before its dispatch is on record
(`PlateInv`: the printer names the inner plate of what it prints, never the file). That is
what the comment at `src/src/bambu_bridge/native_gateway.py:688` says of the P1S; a printer
that names the file is the world `archive`.

`RunningPrintKeepsOwner` and `StartsComeOneByOne` rest on `FenceInv`, an argument about the
order of reports. A start that is published or on the wire is `Underway`: claimed,
unanswered, not aged, with no decision about it pending. A start whose print runs is
`Running`: once the bridge may have heard of it (an acknowledgement, a verdict, or the
ageing of the row, which waits for what is on its way), no report of a printer at rest is
left behind that could close it. A row never claimed is `Untouched`, so that no old answer
speaks of it when it is. No start is on the wire twice. The invariant does not ask that
there be one owner: a running print keeps its owner even beside a replay's. That there is
one start at a time then follows with `PrinterHasOneOwner`, hence the third hypothesis.
`FenceInv` was model-checked as an invariant in the worlds of `gateway_fence` and
`gateway_world` before it was proved. In the world `archive` `RunningPrintIsOwned` is
model-checked only (`gateway_world`).

**The ledger.** The mapping of `ChargedOnce` is by variables; what is to be proved is
that each step of a call is a step of `ChargeOnce` or leaves its variables. That needs
the invariant `BookedInv`, which says when a row's record and the truth may differ:
`RowBooked` per row (an `open` or `done` row has no unbooked gram; a `sent` row is within
what was asked, and what its witness will read off the spool's weight is right: `SentFits`),
`CallFits` for the call under way, and `Apart` for edits and moves. `Alone` is the scope:
one print per spool, no edit that lowers a spool's used weight, edits and moves not in
one behaviour, and no write that lands after the read that verifies it. Outside it the witness, one number per spool, cannot tell who wrote, and
`ChargeOnce` fails (section 5). Within it crashes, lost answers, archivings,
resolutions and repeated moves may meet in any number and order.
`PassInv` says that whatever a pass has still to do is for prints that were open when it began
(`pass.shut` holds the others) and that only their owner has closed since, so one reading of the
delivery states confines the charges of a closed print to the pass under way. That those do land
on a print its owner has just closed is in section 5. `ZeroInv` says that the room seen when a
write was recorded is still there when it lands, also if it lands after it was given up.

**The jobs.** `JobsTyped` adds to `JobTypeOK` what its last line, that the row of the run
has not ended, rests on: what the watcher's listing may hold, and that it does not hold
the row that a run is still creating. The watcher chooses the newest listed row (`Max` of
the community modules, a `CHOOSE`), which needs that a finite set of numbers has a
greatest member: `LeastNatural` derives this by a minimal counterexample from the
well-foundedness of `<`, which needs no operator as a parameter.
`TerminalStays` is kept by `JobRun._set`, which asks; the watcher does not ask, it goes by its
listing, and keeps ends only because the listing still fits the table when it writes:
`ListingHolds`. That holds as long as the live run's row is the newest live row
(`RunIsNewest`). A print from the panel that gets its row while a job is being taken
breaks the hypothesis, and then the property (`MCStaleList`).

That a row tells of its own print is proved for the two kinds of world that `services` checks,
with any number of jobs, prints and faults. `BridgeOnly` is the world of the bridge's jobs, which
follow one another; starts may be ignored, refused or not sent, the power may fail and the bus
may drop events. `Told` ties the run to the printer: where the run stands is where its row
stands, all that is on the wire or at work is the run's (`WireTold`), and between two jobs the
printer rests and the view says so (`RestTold`). The heart is `WaitTold`. A job is judged by a
printer state that names no job, so while its start is on its way the FAILED it sees must be the one
noted when the start was sent (`beforeFailed`), and no deadline may have passed. `PanelOnly` is
the world of prints from the panel, over restarts, reconnections, power failures and cancels.
`Shown` says that an announced print is the one the view shows and has no row yet
(`Announces`), that at most one announcement is waiting or in the watcher's hands, and that
the view it closes rows by is still the bridge's own when it writes (`ListShown`). What is left
out of both breaks the properties (section 5): a cancel, a restart or a reconnection beside a
job, a print from the panel beside a job, and a name that comes in a later report than the state.

**The refill group.** `RefillInv` needs no condition. Its core is `SentOnce`: a slot that has
been sent a write since the owner last asked has a step in a state from which no drive
sends (`WasSent`), which is not the same set for a group that is set up and one that is taken
down: there it rests on `restores`, which tells a write that puts a slot back from the alias
it replaces. What the operators that walk the steps do (`Noted`, `Retried`, `Released`,
`Retired`, `Interrupted`) is stated once, by the `...Is` lemmas, as a relation of one step before
and after.
`TheirsStay` adds `ReportedIsOther`: the step of a slot that has been seen to change is about
another source, and no report adopts it again. A restart forgets what was seen and
adopts an old step by what the slot shows, which is right unless the slot was emptied;
`Calm` leaves out that meeting of a crash with an emptied slot (section 5).
`RefillKeepsAliasesOnRecord` rests on `AliasOnRecord`, which says more than
`AliasAccounted`: the step is one that writes, the slot shows what it writes, and every
fresh report shows it too, but for the write a drive is waiting for. So whatever the code
reads off a report to call a step unwritten or put back (`restored`, `pending`) cannot be
there to read. That the one exception ends with the drive is `Driven` and `Unedited`.
A write confirmed because the owner declared the same colour by hand is still on its way when
its drive ends (`LeftOver`); it is harmless until someone edits the slot once more. `FewEdits`
leaves that out, and with `~ LateLands` an answer after the 20 s of a readback.

**The library.** `LibraryStep` sorts every step of every thread into two kinds: those that
change files and records but spare what a capture with a row refers to (`Spares`: appends,
collections, and either of them broken off), and those that move one capture on and touch
no file (`Comes`, `Completes`, `Leaves`). The three properties follow for each kind; what a
thread has in hand plays no part, since the transactions ask again. The only invariant
besides is the set of states of a capture and the quota of the case. That `age` lists what
is held, the last line of `LibraryTypeOK`, rests on `SelectSeq`, which is recursive.

**The shared connection.** `DbInv` says when what the connection sees may differ from what is on
disk: while a request, a label or a report has yet to commit, and in the migration, whose
transaction shifts each row once and is lost as a whole. `CacheFits` follows a label between
its row, the cache and the report of another material, whose deletion may wait in the middle of
somebody else's writing. No condition is needed.

**The recovery.** `SentFits` follows what is still to be sent: a start that waits in the inbox,
or in the directory that stands aside during a swap, was sent less often than it was asked for,
and from the moment a backup is staged nothing in it waits, since `stage_backup`
blocks or questions it before the directory can become the inbox. So no condition is needed for
`SentOnce`: an inbox may be restored any number of times. `HeldFits` is what `NothingLost` and
the way back need: an upload that was acknowledged is in the inbox or in a copy, and from the
safety backup until the new inbox is open a copy holds it, whatever becomes of the inbox. The code keeps that where no
upload is acknowledged after the safety backup is written and before the gateway is
closed (`NoWindow`), and there is an inbox to start from where the process does not stop
between the two renames (`NeverTorn`); both cases are in section 5, and the cases of `services`
are those without them.

**Skipping objects.** `SkipInv` says what a request still knows when its turn comes. The run id
is what ties it to the print: as long as the id it began with is the present one, reports have
come since the last reconnection (`fresh`), and then they speak of the print under way. What it has
read is then the content that runs or one with another number of layers (`Like`), which the
judgement refuses. That the selection is judged against what is really gone rests on
`NoneForgotten` (an object skipped was echoed, is remembered, or is about to be) and on there being
one request that sends (`OnePost`). `AllPlain` leaves out the four chances of
`SkipWorlds` that break it (section 5): `late`, `early`, `slow` and `further`.
The proof found the last one: the invariant could not be kept over a reconnection, and TLC then
showed the steps in a world with more requests than the runs had. A world with four
requests, two prints and a reconnection is now one of `devices`.

**The sessions.** `SlicersFit` says that the handler of an open connection is of the configuration in
force, which is what waiting for the transports gives; that whoever has been let in gave the code of the
configuration in force at that moment, which for a handler without a connection is due only to
the question of `authenticate()` after its thread (`SameConfig`); and that a publish is
remembered before it is acted on. `SettingsFit` says which code a
restart brings back, also between the change of the configuration and its commit, where a stop
of the process brings back the old one.

**The credentials.** `IdentityFits` says that once a key is published it stays, and that what a
process has loaded, signed or shown is that key, although several make one at once and the
certificate follows later. A process that found no key and then a certificate is refused; that it
had lost a race, and the key is there, is what the invariant keeps for it. `DevicesFit` counts: as many invitations are spent as phones have got a
device, or more. It needs that phones and invitations are finitely many
(`CredentialConstants`, which TLC evaluates for `services`).

**The FTPS sessions.** `ChannelsFit` says that a passive channel has no connection but the one
made for it, or none, so that a handshake that ends late cannot bring its data into the next
transfer. `TransferFits` ties what a session has kept of its client's commands to what
the printer's connection will be given: the offset is the one last asked for, the directory of the
printer is the client's except while an upload is passed on, and while no other print has begun
since an upload was let in, the file is not the one being printed. `NoOdd` is the bound `odd` of
`FtpsLimits` at 0, as in the runs: a client that asks for a download at an offset. The code keeps
that offset for the next upload (section 5).

**Only model-checked**, and why: liveness (`QueuedStartEnds`, `LostStartIsReleased`,
`RunEnds`, `OrphanEnds`, `RemovalHasNoDeadEnd`, `PendingCloses`), which the proof system
does not reach; `DeliveredIsCharged` and `MoveNeverLoses`, which add up grams over a set of
spools by a fold, and with them `LedgerSound`; `LibraryTypeOK`, and all of the
other stores, devices and services (of which the shared connection, skipped objects, recovery,
sessions, credentials and FTPS are proved); the queue among them, whose renumbering is a
`SelectSeq` too. `ReceiptSound` puts together what
`TypeCorrect`, `AtMostOnce`, `OwnersStayLive` and `OnlyRealStarts` prove one by one.

## 5. Known deviations

Where the code does not keep what a module states of it, the property excludes that case
or is not checked, and the case can be shown: change what the second column
names in the run's configuration (a bound in the `MC` module or a caller in the `.cfg`), put
the property in its place, and TLC prints the steps. `control_torn` is a run of the project.

| Property | To see it | What happens |
|---|---|---|
| `RecentlyIdle` | `control_torn` | `service/printer.py:747` stamps and announces a report before `:798` merges it; `api/capabilities.py:81` wakes in between and judges the old state |
| `HomingRecovers` | `Devices` as it is | nothing calls `mark_homed` (`service/printer.py:563`), so the advice of `api/control.py:501` does not help |
| `OneStartInFlight` | `GatewayFence`, callers `orca`, `replay` | `library_replay.py:184` asks for unresolved starts, awaits the archive, and reserves without asking again |
| `QueuedCanBeClaimed` | `Inbox`, callers `orca`, `ftp_delete` | `native_inbox.py:1183` discards and marks deleted in two transactions; a start held between is queued on a deleted row until it expires |
| `OneOwner` | `GatewayFence`, callers `raw`, `owner`, `printer` | `native_inbox.py:943` updates by id what it read earlier; a row the owner resolved meanwhile owns the printer again |
| `PendingHasTask` | `GatewayTasks`, callers `raw`, `printer`, `restart` | a raw client cancelled between the claim and the publication (`native_gateway.py:734`) leaves its row dispatching until it expires |
| `PendingHasTask` | `GatewayTasks`, callers `managed`, `owner`, `printer`, world `archive`, `reconnect` | `native_inbox.py:943` writes what it decided on a row read before the dispatch was on record |
| `StartedFileOnCard` | `GatewayFence`, callers `orca`, `printer`, two names | `native_gateway.py:841` deletes files selected from rows read once; `src/docs/NATIVE-DURABLE-INBOX.md:53` promises to keep those of a start |
| `InterruptedDeliveryIsShown` | `GatewayTasks`, callers `orca`, `owner`, `restart`, `printer` | `native_inbox.py:286` keeps the dismissal of an earlier warning when a restart fails the delivery |
| `StartOfItsTime` | `Services` as it is | a start read before its connection was lost waits at the dispatch lock (`native_gateway.py:1449`) while the settings are replaced, and is taken under the new ones |
| `MissingIsMissing` | `Services` as it is | a process that finds no key (`pairing.py:171`), and then the certificate another has made with it meanwhile (`:172`), says that the key is missing |
| `LeaseIsOfItsTime` | `Services` as it is | `api/camera.py:162` asks for the directory after the read it awaited: there may be none by then, or that of a later encoder |
| `OffOwesNothing` | `Services` as it is | a start held while `disable()` closes the sessions remains (`native_gateway.py:1067`) |
| `CanceledJobIsOver` | `MCCanceled` | `service/jobs.py:669` closes a SUBMITTED job once a stop is published, before the printer begins it |
| `StopHitsItsPrint` | `MCForeignStop` | the stop of a job the printer never took (`service/jobs.py:729`) ends a print from the panel; `src/docs/NATIVE-DURABLE-INBOX.md:86` says "an old job cannot automatically stop a newer/foreign print" |
| `TerminalStays` | `MCStaleList` | `service/jobs.py:453` writes a row from a list older than the row's own end |
| `EndedJobIsOver` | `MCWorlds`, `reconnect` beside two jobs | a reconnection between SUBMITTED and `before = service.print_view()` (`service/jobs.py:626`, `:676`): the FAILED of the print before, reported only then, fails the new job while its start is on its way |
| `EndedJobIsOver` | `MCWorlds`, `split` beside `panel` | a print's row under a placeholder name is closed as replaced (`service/jobs.py:427`) when its name comes in a later report than its state (`:383`) |
| `OneRowPerPrint` | `MCReplaced` | after a restart a submitted row is closed as replaced by the previous print, and its own print gets a second row |
| `SubmittedOrphanEnds` | `MCOrphan` | the 300 s check of such a row is made only when the view changes (`service/jobs.py:317`) |
| `ChargeOnceSpec` | `MCEdit` with `MCUndoing` | an edit that lowers a spool's used weight hides a charge, which the witness then sends again |
| `VerifiedFirst` | two prints, one spool, `MCPlain` | another print's row still waits to be verified when this one writes to the same spool (`service/usage_ledger.py:11` promises it does not) |
| `MoveCountsOnce` | `MCMoveCrash` | a move cut short by a crash and asked for again counts grams twice |
| `RefusedMoveGaveNothing` | `MCMoves` with `MCOne` | a move is refused by a full spool after it gave grams back |
| `ChargeOnceSpec` | `MCLate` | a write lands after the read that was to verify it (`service/usage_ledger.py:190`): the row is open again and the write is sent a second time |
| `DeliveredIsCharged` | `PlaceStates = {"shadow", "review"}` | the owner places grams of a print whose pass is under way, which then closes it as delivered |
| `MoveNeverLoses` | `MoveStates = {"shadow", "review", "delivered"}` | a move of a pending print is cut off by a crash after the row it goes to was raised; the next pass sets that row's count back to the plan, and the move resumed finishes with the grams gone |
| `ResolvedIsLeftAlone`, `ResolvedStaysClosed` | `Ledger` as it is | a print resolved while it is pending is charged, or put back into review, by the pass that read it before |
| `RemovalPutsBack`, `RemovalSettles` | `Refill`, `RefillSpec` | a removal that finds its slot empty or changed gives up, and leaves the alias or waits for the owner |
| `DisabledLeavesNoAlias` | `LateLands = TRUE` | a command lands after its answer was given up |
| `AliasAccounted` | `EditTroubles` | `service/refill_adapter.py:76` confirms a write by what the slot shows, which the owner's own edit may have brought about; the write lands after the next plan and a second edit |
| `TheirsIsKept` | `SeatTroubles` | after a restart a spool loaded in place of another is taken for it |
| `NewestFits`, `ReprintKept` | `Library.cfg` | the place made for a print is taken by another thread before its insert; a capture chosen for eviction is evicted although it was printed meanwhile |
| `RefusedForGood`, `CopyIsRetried` | `Library.cfg` with `MCRace`, `MCRetry` | a copy that lost the race for an eviction, or was interrupted, is refused for good |
| `BackupFindsAll`, `ReceiptArchivedAlways` | `Library.cfg` | a collection breaks off between its files and its commit |
| `ShownIsAlwaysCurrent` | `Stores` as it is | `service/viz_cache.py:262` records a revision while an older file is being filled in |
| `ShownIsStored` | `Stores` as it is | `api/filament.py:164` caches a label before it is stored |
| `OneLink` | `overlap`, three edits in `MCLinkWorlds` | requests that change one printer at once may leave two sessions |
| `SkipSound` | `late`, `early` or `slow` in `SWorld` | the print changes between the last check and the command, or the echo of an earlier skip is later than the code waits |
| `SkipSound` | `further` in `SWorld` | after a reconnection a print of the same name that is as far as the lost one is taken for it (`service/printer.py:850`): a skip the lost one did not echo yet still counts, for the 30 s of `PENDING_S` (`skip_objects.py:621`), and a stop may be sent that leaves an object |
| `SeatsSound` | `slow` in `SeatWorld` | a pass that adopts takes longer than the AMS takes to read another tag |
| `HistorySound` | `cold` or `stale` in `MCHistoryLimits` | a bridge started in the middle of a print has no journal that fits it, or one up to ten seconds old |
| `RecoverySound` | `window` or `torn` in `MCRecoveryLimits` | an upload is acknowledged between the saved copy and the closed gateway; the process ends between the two renames |
| `CameraSound` | `tight` in `MCCameraLimits` | `protocol/camera.py:259`: a viewer cancelled a second time, in the instant in which a free lock is handed to it, stays subscribed |
| `FtpsSound` | `odd` in `MCFtpsLimits` | `native_ftps.py:444`: without an inbox, an offset asked for a download is kept for the next upload |
| `FeedSound` | `raises` in `MCFeedLimits` | an error the reader does not catch (`push/ntfy.py:82`) ends it for good |

The other switches of these records that are off (`partial`, `gap`, `stale` of `SeatWorld`,
`unseen`, `owed`, `odd`, `ahead`, `slow` of `MCControlLimits`) stand for inputs the code cannot
tell from others, or promises nothing about; each is explained where the module uses it.
Other simplifications: `RefillHistory` takes the auto-refill bit of `home_flag` as set
(`service/auto_refill.py:204`; the code infers nothing without it); `SkipObjects!Replaces` assumes that
a file replaced before it was read in this print has another number of layers, as the code's
own `layer_reason` does; `Control` records how long the printer has been idle when the request is
judged, and asks nothing of what changes while the handler runs on to its publication.
Limits that are stated in the properties themselves: any active state accepts a submitted
job and any FINISH completes it (`service/jobs.py:672`), so `CompletedWasPrinted` is asked
where nobody prints from the panel beside a job. Queue requests that overlap leave gaps or
equal positions, a foreign commit makes half a renumbering durable, and an item read by two
starts is printed by both, so `PositionsDense` and `StartedOnce` speak of requests that
run apart.

## 6. Not modelled

Wire formats, TLS, parsing of 3MF and G-code, tables and translations, rendered images,
image inference, wording and logging: pure I/O or text, without a say in what is sent,
kept or charged. The printer's and Spoolman's own behaviour beyond what the code counts on.
Clients, plugins and deployment outside the package. Database failures other than a crash.
Two printers: every statement selects on the printer. `PROJECT.json` gives the parts left
out of each component.

## 7. What remains to be proved

1. `UsageLedger`: `DeliveredIsCharged`; a sum over spools needs induction over a set.
2. `PrintJobs` where jobs of the bridge and prints from the panel, restarts or cancels meet: what
   holds there in spite of the cases of section 5.
3. The other parts of the conjunctions of `stores`, `devices` and `services`, module by module.
4. The gateway in the world `archive`.

Liveness stays with TLC.
