----------------------------- MODULE NativeInbox -----------------------------
(***************************************************************************)
(* The durable native inbox (src/bambu_bridge/native_inbox.py): one table  *)
(* of receipts, each an upload, a fenced start, or a print adopted from    *)
(* the printer's own report.  One action per method of NativeInbox, run by *)
(* its most general client: any caller may call at any time, in any order, *)
(* as far as the callers named in Callers exist.  What the gateway's locks *)
(* and the worker's loop add is module NativeGateway's business.           *)
(*                                                                         *)
(* The model has one printer: every statement of the code selects on the   *)
(* printer column, so the rows of two printers never meet.                 *)
(***************************************************************************)
EXTENDS Naturals, FiniteSets

CONSTANTS
    Ids,        \* receipt identities; a uuid is never drawn twice
    Names,      \* printer paths and task names: reusable, unlike Ids
    Peers,      \* network peers an upload or a start comes from
    Options,    \* what else a start command says (plate, AMS mapping, ...)
    Capacity,   \* rows with retained=1 the inbox accepts (128 in the code)
    Evidence,   \* the (report, merged state) pairs the printer can show
    Callers,    \* the parts of the program present in this instance
    None        \* SQL NULL, and a field a report does not carry

AllCallers == {"orca", "managed", "raw", "replay", "owner", "ftp_delete",
               "adopt", "printer", "restart", "prune", "inventory"}

Command == [name : Names, opts : Options]

\* What a report can name: an immutable beluga-<id> object or a reusable path.
Target == Ids \union Names \union {None}

GcodeState == {"IDLE", "PREPARE", "RUNNING", "PAUSE", "FINISH", "FAILED"}
ReadyStates == {"IDLE", "FINISH", "FAILED"}
ActiveStates == {"PREPARE", "RUNNING", "PAUSE"}

\* One MQTT report: whose command it acknowledges and how, the gcode_state and
\* the job names if it carries them, and a layer count that went back.
Report == [ack : Ids \union {None}, ok : BOOLEAN,
           state : GcodeState \union {None}, names : BOOLEAN,
           rewound : BOOLEAN]

\* The bridge's merged view of the print, right after that report.
Merged == [state : GcodeState, gcode : Target, file : Target,
           task : Names \union {None}]

ASSUME IdentitiesAssumption ==
    /\ IsFiniteSet(Ids)
    /\ None \notin Ids \union Names \union Peers \union Command
    /\ Ids \intersect Names = {}

ASSUME CapacityAssumption == Capacity \in Nat \ {0}

ASSUME CallersAssumption == Callers \subseteq AllCallers

ASSUME EvidenceAssumption ==
    /\ Evidence \subseteq [report : Report, merged : Merged]
    /\ \A e \in Evidence : e.report.state \in {None, e.merged.state}

(***************************************************************************)
(* The states of a receipt.                                                *)
(***************************************************************************)
TrackedStates == {"dispatching", "sent", "accepted", "running", "unknown"}
PendingStates == {"reserved", "queued"}
OwnerStates == PendingStates \union TrackedStates
TerminalStates == {"completed", "interrupted", "resolved", "rejected",
                   "cancelled", "blocked"}
StartStates == {None} \union OwnerStates \union TerminalStates
Kinds == {"upload", "external", "observed"}
FileStates == {"absent", "receiving", "stored", "delivering", "delivered",
               "failed", "deleted", "external", "forgotten"}

\* Two thresholds of elapsed time matter to a row.  Before its dispatch, age 2
\* is past QUEUED_EXPIRY; after it, age 1 is past LOST_START_GRACE and age 2
\* past DISPATCH_EXPIRY.
Age == 0 .. 2

ASSUME NullAssumption ==
    None \notin OwnerStates \union TerminalStates \union Kinds \union GcodeState

Row == [kind : {None} \union Kinds,
        state : FileStates,
        start : StartStates,
        name : Names \union {None},
        peer : Peers \union {None},
        cmd : Command \union {None},
        rowid : Nat,            \* creation order
        replay : BOOLEAN,       \* replay_request_id is set
        sealed : BOOLEAN,       \* sha256 is set: the payload is complete
        retained : BOOLEAN,     \* a local payload is kept
        frozen : BOOLEAN,       \* an accounting manifest is frozen
        ack : BOOLEAN,          \* acknowledged
        active : BOOLEAN,       \* seen_active
        dispatched : BOOLEAN,   \* dispatched_at is set
        age : Age,
        dismissed : BOOLEAN]    \* review_ack_at is set

Absent == [kind |-> None, state |-> "absent", start |-> None, name |-> None,
           peer |-> None, cmd |-> None, rowid |-> 0, replay |-> FALSE,
           sealed |-> FALSE, retained |-> FALSE, frozen |-> FALSE,
           ack |-> FALSE, active |-> FALSE, dispatched |-> FALSE, age |-> 0,
           dismissed |-> FALSE]

VARIABLES
    uploads,    \* the table: receipt identity -> row
    events,     \* accounting_shadow_events: the outcome recorded for a row
    verdicts,   \* what observe() has decided and not yet written, per row
    deleting,   \* rows discarded by deleted() and not yet marked deleted
    resolving,  \* the row resolve() has found eligible and not yet updated
    claims      \* history: how often a row was claimed for publication

inboxVars == <<uploads, events, verdicts, deleting, resolving, claims>>

Verdict == [start : StartStates, ack : BOOLEAN, active : BOOLEAN,
            ended : BOOLEAN]    \* the code written with it is BBSTART_ENDED
NoVerdict == [start |-> None, ack |-> FALSE, active |-> FALSE, ended |-> FALSE]

TypeOK ==
    /\ uploads \in [Ids -> Row]
    /\ events \in [Ids -> {None, "completed", "interrupted"}]
    /\ verdicts \in [Ids -> Verdict]
    /\ deleting \subseteq Ids
    /\ resolving \in Ids \union {None}
    /\ claims \in [Ids -> Nat]

Init ==
    /\ uploads = [i \in Ids |-> Absent]
    /\ events = [i \in Ids |-> None]
    /\ verdicts = [i \in Ids |-> NoVerdict]
    /\ deleting = {}
    /\ resolving = None
    /\ claims = [i \in Ids |-> 0]

-----------------------------------------------------------------------------
Present(i) == uploads[i].kind # None
Owns(i) == uploads[i].start \in OwnerStates
Owner == {i \in Ids : Owns(i)}
Settled(i) == uploads[i].start \in {None} \union TerminalStates
Unresolved ==
    \E i \in Ids : \/ uploads[i].state \in {"receiving", "stored", "delivering"}
                   \/ Owns(i)

NextRowid == 1 + Cardinality({i \in Ids : uploads[i].rowid # 0})

\* A row that is neither in the table nor was ever removed from it.
Fresh(i) == uploads[i] = Absent

\* The trigger accounting_terminal_shadow: a print that ran to an end leaves
\* one event, if its manifest was frozen.  The first event stays.
Recorded(i, start, ended) ==
    IF /\ start # uploads[i].start
       /\ start \in {"completed", "interrupted"} \/ (start = "resolved" /\ ended)
       /\ uploads[i].frozen
       /\ events[i] = None
    THEN IF start = "completed" THEN "completed" ELSE "interrupted"
    ELSE events[i]

\* An UPDATE of one row that moves nothing the trigger watches.
Put(i, row) ==
    /\ uploads' = [uploads EXCEPT ![i] = row]
    /\ UNCHANGED <<events, verdicts, deleting, resolving>>

\* The same row under another start_state.
PutStart(i, start) ==
    /\ Put(i, [uploads[i] EXCEPT !.start = start])
    /\ UNCHANGED claims

(***************************************************************************)
(* Receiving an upload.                                                    *)
(***************************************************************************)
NewUpload(i, n, p) ==
    [Absent EXCEPT !.kind = "upload", !.state = "receiving", !.name = n,
                   !.peer = p, !.retained = TRUE, !.rowid = NextRowid]

HasCapacity == Cardinality({i \in Ids : uploads[i].retained}) < Capacity

\* reserve() for an FTP STOR from peer p.
Reserve(i, n, p) ==
    /\ "orca" \in Callers
    /\ Fresh(i) /\ HasCapacity
    /\ Put(i, NewUpload(i, n, p))
    /\ UNCHANGED claims

\* reserve() for a library replay: the start is reserved with the row, and no
\* other owner is looked for.
ReserveReplay(i, c) ==
    /\ "replay" \in Callers
    /\ Fresh(i) /\ HasCapacity
    /\ Put(i, [NewUpload(i, None, None) EXCEPT
                 !.replay = TRUE, !.cmd = c, !.start = "reserved"])
    /\ UNCHANGED claims

\* receive() ran to its end: fsync, then one commit.
Seal(i) ==
    /\ uploads[i].state = "receiving"
    /\ Put(i, [uploads[i] EXCEPT !.state = "stored", !.sealed = TRUE])
    /\ UNCHANGED claims

FailKeepingStart(i) ==
    /\ uploads[i].state \in {"receiving", "stored", "delivering", "failed"}
    /\ Put(i, [uploads[i] EXCEPT !.state = "failed", !.dismissed = FALSE])
    /\ UNCHANGED claims

\* fail(), called when a transfer in or a delivery out did not complete.  It asks
\* for no state: a receive that is cancelled fails its row though the thread of
\* _seal() has committed or abandon_replay() has failed it before.
Fail(i) ==
    /\ uploads[i].state \in {"receiving", "stored", "delivering", "failed"}
    /\ Put(i, [uploads[i] EXCEPT
                 !.state = "failed", !.dismissed = FALSE,
                 !.start = IF @ \in PendingStates THEN "blocked" ELSE @])
    /\ UNCHANGED claims

QueueReplay(i) ==
    /\ uploads[i].replay
    /\ uploads[i].state \in {"stored", "delivered"}
    /\ uploads[i].start = "reserved"
    /\ Put(i, [uploads[i] EXCEPT !.start = "queued", !.age = 0])
    /\ UNCHANGED claims

AbandonReplay(i) ==
    /\ uploads[i].replay
    /\ uploads[i].start \in PendingStates
    /\ Put(i, [uploads[i] EXCEPT !.state = "failed", !.start = "cancelled"])
    /\ UNCHANGED claims

(***************************************************************************)
(* Holding a start from the slicer until its upload is delivered.          *)
(***************************************************************************)
\* The uploads a start from peer p naming n can mean, and the newest of them.
Candidates(n, p) ==
    {i \in Ids : /\ uploads[i].kind = "upload"
                 /\ uploads[i].name = n
                 /\ uploads[i].peer \in {p, None}}
Newest(S) == CHOOSE i \in S : \A j \in S : uploads[j].rowid <= uploads[i].rowid

\* Another generation of the same command is still open or under review.  The
\* commands of replays and adopted prints are encoded otherwise and never equal.
AmbiguousGeneration(i, c) ==
    \E j \in Ids \ {i} :
        /\ uploads[j].cmd = c
        /\ ~ uploads[j].replay /\ uploads[j].kind # "observed"
        /\ uploads[j].start \notin {None, "completed", "interrupted",
                                    "rejected", "cancelled", "resolved"}

\* No other row owns the printer.
FreeForTracked(i) == \A j \in Ids \ {i} : uploads[j].start \notin TrackedStates
FreeFor(i) == Owner \subseteq {i}

\* The row with the command attached: queued, unless its start has a state.
HeldAgain(i, c) ==
    [uploads[i] EXCEPT !.cmd = c, !.start = "queued", !.age = 0]
HeldAfterEnd(i, c) ==
    IF uploads[i].start \in {None} \union TerminalStates
    THEN [uploads[i] EXCEPT !.cmd = c, !.start = "queued", !.age = 0]
    ELSE [uploads[i] EXCEPT !.cmd = c]
Held(i, c) ==
    IF uploads[i].start = None
    THEN [uploads[i] EXCEPT !.cmd = c, !.start = "queued", !.age = 0]
    ELSE [uploads[i] EXCEPT !.cmd = c]

\* hold_start() in its BEGIN IMMEDIATE transaction; a refusal changes nothing.
HoldStart(p, c) ==
    /\ "orca" \in Callers
    /\ Candidates(c.name, p) # {}
    /\ LET i == Newest(Candidates(c.name, p))
       IN  /\ ~ AmbiguousGeneration(i, c)
           /\ FreeFor(i)
           /\ uploads[i].start \notin {"unknown", "blocked", "cancelled"}
           /\ uploads[i].cmd \in {None, c}
           /\ uploads[i].state \in {"stored", "delivering", "delivered"}
           /\ Put(i, Held(i, c))
    /\ UNCHANGED claims

(***************************************************************************)
(* Delivery to the printer and dispatch of the start.                      *)
(***************************************************************************)
BeginDelivery(i) ==
    /\ uploads[i].state = "stored"
    /\ Put(i, [uploads[i] EXCEPT !.state = "delivering"])
    /\ UNCHANGED claims

Delivered(i) ==
    /\ uploads[i].state = "delivering"
    /\ Put(i, [uploads[i] EXCEPT !.state = "delivered"])
    /\ UNCHANGED claims

\* freeze_accounting(): only before the dispatch, and only for known bytes.
FreezeAccounting(i) ==
    /\ "inventory" \in Callers
    /\ Present(i) /\ ~ uploads[i].frozen
    /\ uploads[i].start \in {None} \union PendingStates
    /\ uploads[i].kind = "upload" => uploads[i].sealed
    /\ Put(i, [uploads[i] EXCEPT !.frozen = TRUE])
    /\ UNCHANGED claims

BlockStartAsFailed(i) ==
    /\ uploads[i].start = "queued"
    /\ Put(i, [uploads[i] EXCEPT !.start = "failed", !.dismissed = FALSE])
    /\ UNCHANGED claims

\* block_start(): the printer was not ready for a start that waited for it.
BlockStart(i) ==
    /\ uploads[i].start = "queued"
    /\ Put(i, [uploads[i] EXCEPT !.start = "blocked", !.dismissed = FALSE])
    /\ UNCHANGED claims

Claimed(i, row) ==
    /\ Put(i, [row EXCEPT !.start = "dispatching", !.dispatched = TRUE,
                          !.age = 0])
    /\ claims' = [claims EXCEPT ![i] = @ + 1]

ClaimStartEarly(i) ==
    /\ uploads[i].state \in {"stored", "delivering", "delivered"}
    /\ uploads[i].start = "queued"
    /\ Claimed(i, uploads[i])

\* claim_start(): one guarded UPDATE decides who may publish.
ClaimStart(i) ==
    /\ uploads[i].state = "delivered"
    /\ uploads[i].start = "queued"
    /\ Claimed(i, uploads[i])

\* dispatched(): the publication returned ("sent") or raised ("unknown").
Dispatched(i, outcome) ==
    /\ uploads[i].start = "dispatching"
    /\ PutStart(i, outcome)

NewExternal(c) ==
    [Absent EXCEPT !.kind = "external", !.state = "external",
                   !.rowid = NextRowid,
                   !.cmd = c, !.name = IF c = None THEN None ELSE c.name]

ClaimExternalBeside(i, c) ==
    /\ "raw" \in Callers
    /\ Fresh(i) /\ \A j \in Ids : uploads[j].start \notin TrackedStates
    /\ Claimed(i, NewExternal(c))

\* claim_external() for a start the app or a raw client publishes now.
ClaimExternal(i, c) ==
    /\ "raw" \in Callers
    /\ Fresh(i) /\ Owner = {}
    /\ Claimed(i, NewExternal(c))

\* claim_external(reserved=True): a managed job takes the printer before its
\* upload, and says what it starts only in activate_reserved().
ReserveExternal(i) ==
    /\ "managed" \in Callers
    /\ Fresh(i) /\ Owner = {}
    /\ Put(i, [NewExternal(None) EXCEPT !.start = "reserved",
                                        !.dispatched = TRUE])
    /\ UNCHANGED claims

ActivateReserved(i, c) ==
    /\ uploads[i].kind = "external"
    /\ uploads[i].start = "reserved"
    /\ Claimed(i, [uploads[i] EXCEPT !.cmd = c, !.name = c.name])

AbandonReserved(i) ==
    /\ uploads[i].kind = "external"
    /\ uploads[i].start = "reserved"
    /\ PutStart(i, "cancelled")

\* adopt_running_print(): a print the bridge did not send, born running.
AdoptRunningPrint(i, c) ==
    /\ "adopt" \in Callers
    /\ Fresh(i) /\ Owner = {}
    /\ Put(i, [NewExternal(c) EXCEPT
                 !.kind = "observed", !.start = "running", !.sealed = TRUE,
                 !.frozen = TRUE, !.ack = TRUE, !.active = TRUE,
                 !.dispatched = TRUE])
    /\ UNCHANGED claims

(***************************************************************************)
(* observe(): what a fresh report means for each tracked row.              *)
(***************************************************************************)
\* The path a row's start was published under.
Remote(i) == IF uploads[i].kind = "upload" THEN i ELSE uploads[i].name

\* empty_idle_report(): IDLE with an explicitly empty job identity, completed
\* by an edge of this report.
EmptyIdle(e) ==
    /\ e.report.state # None \/ e.report.names
    /\ e.merged.state = "IDLE" /\ e.merged.gcode = None /\ e.merged.task = None

\* Whether the merged state names the row's print; acked is the row's
\* acknowledgment, counting the one in this report.
Matches(i, e, acked) ==
    \/ e.merged.gcode # None /\ e.merged.gcode = Remote(i)
    \/ /\ e.merged.file # None /\ e.merged.file = Remote(i)
       /\ acked \/ uploads[i].kind = "observed"
    \/ /\ acked /\ e.merged.task # None
       /\ uploads[i].cmd # None /\ uploads[i].cmd.name = e.merged.task

\* The print of a row is over: its name, seen active and acknowledged, in a
\* state the printer rests in.
OverUnseen(e, matches, active, ack) ==
    matches /\ ack /\ e.report.state \in ReadyStates
Over(e, matches, active, ack) ==
    matches /\ active /\ ack /\ e.report.state \in ReadyStates

\* A report may predate a start by less than LOST_START_GRACE.
AnyReport(i) == TRUE
PastGrace(i) == uploads[i].age >= 1

\* The start_state and flags observe() computes for row i, in the order of its
\* tests: acknowledgment, activity, an end, a lost job, the end of an adopted
\* print, and the release of a start that was never seen active.
Lifecycle(i, e) ==
    LET row == uploads[i]
        answered == e.report.ack = i /\ row.kind # "observed"
        acked == row.ack \/ (answered /\ e.report.ok)
        matches == Matches(i, e, acked)
        printing == matches /\ e.report.state \in ActiveStates
        active == row.active \/ printing
        ack == acked \/ (printing /\ row.kind = "upload")
        s1 == CASE answered /\ e.report.ok
                     /\ row.start \in {"dispatching", "sent", "unknown"} -> "accepted"
                [] answered /\ ~ e.report.ok -> "rejected"
                [] OTHER -> row.start
        s2 == IF printing /\ ack THEN "running" ELSE s1
        over == Over(e, matches, active, ack)
        s3 == IF ~ over THEN s2
              ELSE IF e.report.state = "FINISH" THEN "completed" ELSE "resolved"
        lost == active /\ ack /\ EmptyIdle(e)
        s4 == IF lost THEN "interrupted" ELSE s3
        replaced == /\ row.kind = "observed" /\ s4 = "running"
                    /\ \/ e.merged.state \in ReadyStates
                       \/ /\ e.report.state \in ActiveStates
                          /\ \/ ~ matches /\ e.report.names /\ e.merged.file # None
                             \/ e.report.rewound
        s5 == IF ~ replaced THEN s4
              ELSE IF matches /\ e.merged.state = "FINISH" THEN "completed"
                   ELSE "resolved"
        silent == ~ active /\ s5 \in {"sent", "accepted", "unknown"}
        s6 == CASE silent /\ PastGrace(i) /\ EmptyIdle(e) -> "interrupted"
                [] silent /\ row.age = 2 /\ ~ EmptyIdle(e)
                     /\ e.report.state \in ReadyStates -> "resolved"
                [] OTHER -> s5
    IN  [start |-> s6, ack |-> ack, active |-> active,
         ended |-> s6 = "resolved" /\ (over \/ replaced)]

Changed(i, v) ==
    <<v.start, v.ack, v.active>> #
        <<uploads[i].start, uploads[i].ack, uploads[i].active>>

\* The SELECT of observe() and the decision it takes on those rows.  No
\* transaction is open yet: the rows may change before they are written.
ObserveRead(e) ==
    /\ "printer" \in Callers
    /\ \A i \in Ids : verdicts[i] = NoVerdict
    /\ verdicts' = [i \in Ids |->
          IF uploads[i].start \in TrackedStates /\ Changed(i, Lifecycle(i, e))
          THEN Lifecycle(i, e) ELSE NoVerdict]
    /\ UNCHANGED <<uploads, events, deleting, resolving, claims>>

\* The UPDATEs of observe(), by identity alone, committed together.
ObserveWrite ==
    /\ \E i \in Ids : verdicts[i] # NoVerdict
    /\ LET due == {i \in Ids : verdicts[i] # NoVerdict /\ Present(i)}
       IN  /\ uploads' = [i \in Ids |->
                 IF i \in due
                 THEN [uploads[i] EXCEPT !.start = verdicts[i].start,
                                         !.ack = verdicts[i].ack,
                                         !.active = verdicts[i].active]
                 ELSE uploads[i]]
           /\ events' = [i \in Ids |->
                 IF i \in due
                 THEN Recorded(i, verdicts[i].start, verdicts[i].ended)
                 ELSE events[i]]
    /\ verdicts' = [i \in Ids |-> NoVerdict]
    /\ UNCHANGED <<deleting, resolving, claims>>

(***************************************************************************)
(* Expiry.                                                                 *)
(***************************************************************************)
UpdateAll(S, row(_)) ==
    /\ uploads' = [i \in Ids |-> IF i \in S THEN row(i) ELSE uploads[i]]
    /\ UNCHANGED <<events, verdicts, deleting, resolving, claims>>

ExpireDispatch ==
    UpdateAll({i \in Ids : /\ uploads[i].start \in {"dispatching", "sent", "accepted"}
                           /\ uploads[i].age = 2},
              LAMBDA i : [uploads[i] EXCEPT !.start = "unknown",
                                            !.dismissed = FALSE])

ExpireQueued ==
    UpdateAll({i \in Ids : /\ uploads[i].start \in PendingStates
                           /\ ~ uploads[i].dispatched
                           /\ uploads[i].age = 2},
              LAMBDA i : [uploads[i] EXCEPT !.start = "blocked",
                                            !.dismissed = FALSE])

\* recoverable(): a fresh status report could release a lost start.
RecoverableSent ==
    \E i \in Ids : /\ ~ uploads[i].active
                   /\ uploads[i].start \in {"sent", "accepted"}
                   /\ PastGrace(i)
Recoverable ==
    \E i \in Ids : /\ ~ uploads[i].active
                   /\ uploads[i].start \in {"sent", "accepted", "unknown"}
                   /\ PastGrace(i)

\* Time passes for one row; a threshold a row has crossed stays crossed.
Elapse(i) ==
    /\ uploads[i].start \in OwnerStates \ {"running"}
    /\ uploads[i].age < 2
    /\ Put(i, [uploads[i] EXCEPT !.age = @ + 1])
    /\ UNCHANGED claims

(***************************************************************************)
(* The owner's actions, cache retention and restart.                       *)
(***************************************************************************)
\* resolve() reads the row, opening no transaction (the owner API runs one
\* resolution at a time) ...
ResolveRead(i) ==
    /\ "owner" \in Callers
    /\ resolving = None
    /\ uploads[i].start \in {"unknown", "blocked", "cancelled", "rejected",
                             "accepted", "sent", "running"}
    /\ resolving' = i
    /\ UNCHANGED <<uploads, events, verdicts, deleting, claims>>

\* ... and updates it by identity alone.
ResolveWrite ==
    /\ resolving # None
    /\ uploads' = [uploads EXCEPT ![resolving] =
                     IF Present(resolving) THEN [@ EXCEPT !.start = "resolved"] ELSE @]
    /\ resolving' = None
    /\ UNCHANGED <<events, verdicts, deleting, claims>>

Cancel(i) ==
    /\ "owner" \in Callers
    /\ uploads[i].start \in PendingStates
    /\ PutStart(i, "cancelled")

\* Stop and pause drop the starts still queued behind them.
CancelQueued ==
    UpdateAll({i \in Ids : uploads[i].start = "queued"},
              LAMBDA i : [uploads[i] EXCEPT !.start = "cancelled"])

RetryDeliveryHidden(i) ==
    /\ "owner" \in Callers
    /\ uploads[i].state = "failed" /\ uploads[i].sealed
    /\ uploads[i].start \in {None, "queued", "cancelled", "blocked"}
    /\ Put(i, [uploads[i] EXCEPT !.state = "stored"])
    /\ UNCHANGED claims

\* retry_delivery() reads in one transaction and writes in another; under the
\* dispatch lock only a DELE comes between, which leaves the row as a stop between
\* the halves of deleted() does: stored, and no payload.
RetryDelivery(i) ==
    /\ "owner" \in Callers
    /\ uploads[i].state = "failed" /\ uploads[i].sealed
    /\ uploads[i].start \in {None, "queued", "cancelled", "blocked"}
    /\ Put(i, [uploads[i] EXCEPT !.state = "stored", !.dismissed = FALSE])
    /\ UNCHANGED claims

Discardable(i) ==
    /\ Present(i)
    /\ uploads[i].state \notin {"receiving", "stored", "delivering"}
    /\ ~ Owns(i)

\* discard() and prune() select and write apart.  What they write, retained, is asked
\* only where capacity is counted: what comes between could as well have come after.
Discard(i) ==
    /\ "owner" \in Callers
    /\ Discardable(i) /\ uploads[i].retained
    /\ Put(i, [uploads[i] EXCEPT !.retained = FALSE])
    /\ UNCHANGED claims

\* deleted(): discard() commits first ...
DeletedDiscard(i) ==
    /\ "ftp_delete" \in Callers
    /\ Discardable(i) /\ uploads[i].kind = "upload"
    /\ uploads[i].state # "deleted" /\ i \notin deleting
    /\ uploads' = [uploads EXCEPT ![i].retained = FALSE]
    /\ deleting' = deleting \union {i}
    /\ UNCHANGED <<events, verdicts, resolving, claims>>

\* ... and the state follows in a transaction of its own, unconditionally.
DeletedMark(i) ==
    /\ i \in deleting
    /\ uploads' = [uploads EXCEPT ![i].state =
                     IF @ = "forgotten" THEN @ ELSE "deleted"]
    /\ deleting' = deleting \ {i}
    /\ UNCHANGED <<events, verdicts, resolving, claims>>

\* prune(), first statement: a redundant local copy goes after seven days.
PruneLocal(i) ==
    /\ "prune" \in Callers
    /\ uploads[i].retained /\ uploads[i].state = "delivered" /\ Settled(i)
    /\ Put(i, [uploads[i] EXCEPT !.retained = FALSE])
    /\ UNCHANGED claims

\* prune(), second statement: the receipt itself goes after ninety days.
PruneReceipt(i) ==
    /\ "prune" \in Callers
    /\ Present(i) /\ ~ uploads[i].retained /\ Settled(i)
    /\ Put(i, [Absent EXCEPT !.state = "forgotten", !.rowid = uploads[i].rowid])
    /\ UNCHANGED claims

NeedsReview(i) == uploads[i].state = "failed" \/ uploads[i].start \in {"blocked", "unknown"}

\* acknowledge_past_reviews(): hide warnings, never those of a start owner.
AcknowledgePastReviews ==
    /\ "owner" \in Callers
    /\ UpdateAll({i \in Ids : /\ Present(i) /\ ~ uploads[i].dismissed
                              /\ NeedsReview(i) /\ ~ Owns(i)},
                 LAMBDA i : [uploads[i] EXCEPT !.dismissed = TRUE])

RecoveredToQueue(row) ==
    [row EXCEPT
       !.state = IF @ \in {"receiving", "delivering"} THEN "failed" ELSE @,
       !.start = CASE @ = "dispatching" -> "queued"
                   [] @ = "reserved" -> "cancelled"
                   [] OTHER -> @]

RecoveredReserved(row) ==
    LET interrupted == row.state \in {"receiving", "delivering"}
        state == IF interrupted THEN "failed" ELSE row.state
    IN  [row EXCEPT
           !.state = state,
           !.start = CASE @ = "dispatching" -> "unknown"
                       [] state = "failed" /\ @ \in PendingStates -> "blocked"
                       [] OTHER -> @]

\* The process died; recover() runs before anything else, and what observe(),
\* resolve() or deleted() had not written is gone.
Recovered(row) ==
    LET interrupted == row.state \in {"receiving", "delivering"}
        state == IF interrupted THEN "failed" ELSE row.state
    IN  [row EXCEPT
           !.state = state,
           !.start = CASE @ = "dispatching" -> "unknown"
                       [] state = "failed" /\ @ \in PendingStates -> "blocked"
                       [] state # "failed" /\ @ = "reserved" -> "cancelled"
                       [] OTHER -> @]

Restart ==
    /\ "restart" \in Callers
    /\ uploads' = [i \in Ids |-> Recovered(uploads[i])]
    /\ verdicts' = [i \in Ids |-> NoVerdict]
    /\ deleting' = {}
    /\ resolving' = None
    /\ UNCHANGED <<events, claims>>

-----------------------------------------------------------------------------
Receiving ==
    \E i \in Ids : \/ \E n \in Names, p \in Peers : Reserve(i, n, p)
                   \/ \E c \in Command : ReserveReplay(i, c)
                   \/ Seal(i) \/ Fail(i) \/ QueueReplay(i) \/ AbandonReplay(i)

Starting ==
    \/ \E p \in Peers, c \in Command : HoldStart(p, c)
    \/ \E i \in Ids :
          \/ BeginDelivery(i) \/ Delivered(i) \/ FreezeAccounting(i)
          \/ BlockStart(i) \/ ClaimStart(i)
          \/ \E outcome \in {"sent", "unknown"} : Dispatched(i, outcome)
          \/ ReserveExternal(i) \/ AbandonReserved(i)
          \/ \E c \in Command : \/ ClaimExternal(i, c)
                                \/ ActivateReserved(i, c)
                                \/ AdoptRunningPrint(i, c)

Observing ==
    \/ \E e \in Evidence : ObserveRead(e)
    \/ ObserveWrite
    \/ ExpireDispatch \/ ExpireQueued
    \/ \E i \in Ids : Elapse(i)

Managing ==
    \/ \E i \in Ids : \/ ResolveRead(i) \/ Cancel(i) \/ RetryDelivery(i) \/ Discard(i)
                      \/ DeletedDiscard(i) \/ DeletedMark(i)
                      \/ PruneLocal(i) \/ PruneReceipt(i)
    \/ ResolveWrite \/ CancelQueued \/ AcknowledgePastReviews \/ Restart

Next == Receiving \/ Starting \/ Observing \/ Managing

Spec == Init /\ [][Next]_inboxVars

(***************************************************************************)
(* What the inbox promises.                                                *)
(***************************************************************************)
\* A start is claimed for publication at most once, whatever restarts, retries,
\* owner decisions and late reports come between: claim_start(),
\* claim_external() and activate_reserved() are the only doors to the wire, and
\* no path leads a claimed row back to a pending state.
ClaimOnce == \A i \in Ids : claims[i] <= 1

\* A row whose transfer failed does not keep the printer: fail(),
\* abandon_replay() and recover() release its start with the failure.
FailedNeverOwns == \A i \in Ids : uploads[i].state = "failed" => ~ Owns(i)

\* An upload's start is dispatched only for a payload received to its end and
\* sent to the printer, and that stays so: no retry or recovery takes the file
\* of a dispatched start back to an earlier stage.
DispatchedWasDelivered ==
    \A i \in Ids : uploads[i].kind = "upload" /\ claims[i] > 0
        => uploads[i].sealed /\ uploads[i].state \in {"delivered", "deleted"}

\* A queued start can still be claimed: its file is on its way to the printer or
\* there (the comment above QUEUED_EXPIRY).
QueuedCanBeClaimed ==
    \A i \in Ids : uploads[i].start = "queued"
        => uploads[i].state \in {"stored", "delivering", "delivered"}

\* At most one row owns the printer (the comment above OWNER_STATES).
OneOwner == \A i, j \in Owner : i = j

\* A recorded usage event belongs to a start that was published or adopted, and
\* a completed one to a print the printer was seen to work on.
ChargedPrintRan ==
    \A i \in Ids : events[i] # None /\ Present(i) =>
        /\ uploads[i].frozen
        /\ claims[i] > 0 \/ uploads[i].kind = "observed"
        /\ events[i] = "completed" => uploads[i].active /\ uploads[i].ack

\* Dismissing old warnings never hides a row that owns the printer: whatever
\* lets a dismissed row be started again shows it again first.
NoHiddenOwner == \A i \in Ids : uploads[i].dismissed => ~ Owns(i)

\* A row that keeps the printer is neither given up nor out of sight.
OwnersAreLive == FailedNeverOwns /\ NoHiddenOwner

\* What was started was received whole, and what was charged was printed.
StartsWereReal == DispatchedWasDelivered /\ ChargedPrintRan

\* A settled start stays settled: no late report, retry, repeated start command
\* or restart makes its row an owner of the printer again.
SettledStays == \A i \in Ids : uploads[i].start \in TerminalStates => ~ Owns(i)'
SettledStaysSettled == [][SettledStays]_inboxVars

\* A delivery that a restart interrupts is put before the owner
\* (docs/NATIVE-DURABLE-INBOX.md: "Interrupted delivery is marked for review").
InterruptedDeliveryIsShown ==
    [][\A i \in Ids : uploads[i].state # "failed" /\ uploads'[i].state = "failed"
                         => ~ uploads'[i].dismissed]_inboxVars
=============================================================================
