--------------------------- MODULE InboxRecovery ---------------------------
(***************************************************************************)
(* Backing the native inbox up and restoring it (native_recovery.py and the    *)
(* recovery routes of api/native.py), while uploads arrive, are delivered and   *)
(* started.  An inbox directory is a row per upload; NativeInbox has the rows   *)
(* in detail.  A restore stages the backup, saves the present inbox as another   *)
(* backup, closes the gateway and swaps the directories by two renames.         *)
(***************************************************************************)
EXTENDS Naturals

CONSTANTS Uploads, Zips, RecoveryLimits

VARIABLES up,      \* the gateway runs on the active inbox
          inbox,   \* the directory native-inbox: a row per upload, Missing when renamed away
          aside,   \* the directory rollback-<id>
          zips,    \* per name of a backup: its rows, Missing when there is none
          away,    \* a backup the owner keeps off the device
          restore, \* the restore under way: [at, rows]
          told,    \* per upload: "new", "begun", "kept" once the slicer knows it stored, "given up"
          asked,   \* per upload: starts asked for
          sent,    \* per upload: print commands sent for it
          room     \* what is left of the bounds

recoveryVars == <<up, inbox, aside, zips, away, restore, told, asked, sent, room>>
copies == <<aside, zips, away>>

Row(state, start) == [there |-> TRUE, state |-> state, start |-> start]
NoRow == [there |-> FALSE, state |-> "none", start |-> "none"]
Directory(row(_)) == [there |-> TRUE, rows |-> [u \in Uploads |-> row(u)]]
NoRowOf(u) == NoRow
Empty == Directory(NoRowOf)
Missing == [Empty EXCEPT !.there = FALSE]
AtRest == [at |-> "rest", rows |-> Missing]
Takes(what) == room[what] > 0 /\ room' = [room EXCEPT ![what] = @ - 1]

RecoveryInit ==
    /\ up = TRUE /\ inbox = Empty /\ aside = Missing /\ away = Missing /\ zips = [z \in Zips |-> Missing]
    /\ restore = AtRest /\ told = [u \in Uploads |-> "new"] /\ asked = [u \in Uploads |-> 0] /\ sent = asked /\ room \in RecoveryLimits

------------------------------------------------------------------------------
(* The inbox at work, until the restore closes it.                          *)

Owners == {"queued", "dispatching", "sent", "running", "unknown"}
Becomes(u, row) == /\ up /\ inbox' = [inbox EXCEPT !.rows[u] = row]
                   /\ UNCHANGED <<up, copies, restore>>
Moves(u, from, to) == inbox.rows[u].state = from /\ Becomes(u, [inbox.rows[u] EXCEPT !.state = to])
Starts(u, from, to) == inbox.rows[u].start = from /\ Becomes(u, [inbox.rows[u] EXCEPT !.start = to])
Same(extra) == UNCHANGED <<told, asked, sent>> /\ UNCHANGED extra

Receives(u) ==
    /\ told[u] = "new" /\ Becomes(u, Row("receiving", "none"))
    /\ told' = [told EXCEPT ![u] = "begun"] /\ UNCHANGED <<asked, sent, room>>
\* Sealed, and the slicer told so.  Between the safety backup and the close it is a deviation.
Acks(u) ==
    /\ Moves(u, "receiving", "stored") /\ told' = [told EXCEPT ![u] = "kept"] /\ UNCHANGED <<asked, sent>>
    /\ IF restore.at = "saved" THEN Takes("window") ELSE UNCHANGED room
Delivers(u) == (Moves(u, "stored", "delivering") \/ Moves(u, "delivering", "delivered")) /\ Same(room)
\* fail() blocks the start that waits for the delivery.
Fails(u) ==
    /\ inbox.rows[u].state \in {"receiving", "delivering"} /\ Takes("faults")
    /\ Becomes(u, Row("failed", IF inbox.rows[u].start = "queued" THEN "blocked" ELSE inbox.rows[u].start))
    /\ Same(<<>>)
\* hold_start(): one owner on the printer at a time.
Queues(u) ==
    /\ inbox.rows[u].state \in {"stored", "delivering", "delivered"}
    /\ \A other \in Uploads \ {u} : inbox.rows[other].start \notin Owners
    /\ Starts(u, "none", "queued") /\ asked' = [asked EXCEPT ![u] = @ + 1]
    /\ UNCHANGED <<told, sent, room>>
\* From the claim to the publication under inbox_dispatch_lock, which the restore holds too.
Claims(u) == /\ restore.at = "rest" /\ inbox.rows[u].state = "delivered"
             /\ Starts(u, "queued", "dispatching") /\ Same(room)
Sends(u) == /\ Starts(u, "dispatching", "sent") /\ sent' = [sent EXCEPT ![u] = @ + 1]
            /\ UNCHANGED <<told, asked, room>>
Observed(u) == (Starts(u, "sent", "running") \/ Starts(u, "running", "completed")) /\ Same(room)
Act(u, row) == restore.at = "rest" /\ Becomes(u, row)       \* upload_action() holds both locks
Resolves(u) == /\ inbox.rows[u].start \in {"unknown", "blocked", "sent", "running"}
               /\ Act(u, [inbox.rows[u] EXCEPT !.start = "resolved"]) /\ Same(room)
\* A delivery is retried only for a whole upload: one that was acknowledged.
Retries(u) == /\ inbox.rows[u].state = "failed" /\ inbox.rows[u].start \in {"none", "blocked"} /\ told[u] = "kept"
              /\ Act(u, [inbox.rows[u] EXCEPT !.state = "stored"]) /\ Same(room)
Discards(u) == /\ inbox.rows[u].state \in {"delivered", "failed"} /\ inbox.rows[u].start \notin Owners
               /\ Act(u, [inbox.rows[u] EXCEPT !.there = FALSE, !.state = "discarded"])
               /\ told' = [told EXCEPT ![u] = "given up"] /\ UNCHANGED <<asked, sent, room>>

------------------------------------------------------------------------------
(* Backups: create_backup() copies the database under its write lock.        *)

Saved(z, directory) == ~ zips[z].there /\ zips' = [zips EXCEPT ![z] = directory]
Backup(z) == /\ up /\ restore.at = "rest" /\ Saved(z, inbox)
             /\ Same(<<up, inbox, aside, away, restore, room>>)
Imports(z) == /\ up /\ away.there /\ Saved(z, away)
              /\ Same(<<up, inbox, aside, away, restore, room>>)
Held(u, places) == \E place \in places : place.there /\ place.rows[u].there
\* What an earlier restore left aside is under a name no route shows.
Places == {inbox, away} \union {zips[z] : z \in Zips} \union (IF restore.at = "rest" THEN {} ELSE {aside})
Downloads(z) == /\ zips[z].there /\ ~ away.there /\ away' = zips[z] /\ Takes("copies")
                /\ Same(<<up, inbox, aside, zips, restore>>)
\* The owner gives up what only this backup held.
Deletes(z) ==
    /\ up /\ restore.at = "rest" /\ zips[z].there
    /\ zips' = [zips EXCEPT ![z] = Missing]
    /\ UNCHANGED <<up, inbox, aside, away, restore, asked, sent, room>>
    /\ told' = [u \in Uploads |-> IF told[u] = "kept" /\ ~ Held(u, Places') THEN "given up" ELSE told[u]]

------------------------------------------------------------------------------
(* A restore, under change_lock and inbox_dispatch_lock.                     *)

QueuedKept(row) ==
    [row EXCEPT !.state = IF @ \in {"receiving", "stored", "delivering"} THEN "failed" ELSE @,
                !.start = IF @ \in {"dispatching", "sent", "running"} THEN "unknown" ELSE @]
Reviewed(row) ==
    [row EXCEPT !.state = IF @ \in {"receiving", "stored", "delivering"} THEN "failed" ELSE @,
                !.start = IF @ = "queued" THEN "blocked"
                          ELSE IF @ \in {"dispatching", "sent", "running"} THEN "unknown" ELSE @]
\* recover(), at every start of the gateway.
Recovered(row) ==
    [row EXCEPT !.state = IF @ \in {"receiving", "delivering"} THEN "failed" ELSE @,
                !.start = IF @ = "dispatching" THEN "unknown"
                          ELSE IF @ = "queued" /\ row.state \in {"receiving", "delivering", "failed"} THEN "blocked" ELSE @]
Opened(directory) == [there |-> TRUE, rows |-> [u \in Uploads |-> Recovered(directory.rows[u])]]
Goes(at) == restore' = [restore EXCEPT !.at = at]

Owed == \E u \in Uploads : inbox.rows[u].start \in Owners
Stages(z) ==
    /\ up /\ restore.at = "rest" /\ zips[z].there
    /\ \A u \in Uploads : inbox.rows[u].start # "dispatching"
    /\ (Owed => room.owed > 0) /\ Takes("restores")
    /\ restore' = [at |-> "staged", rows |-> [there |-> TRUE, rows |-> [u \in Uploads |-> Reviewed(zips[z].rows[u])]]]
    /\ aside' = Missing /\ Same(<<up, inbox, zips, away>>)
Saves(z) == /\ restore.at = "staged" /\ up /\ Saved(z, inbox) /\ Goes("saved")
            /\ Same(<<up, inbox, aside, away, room>>)
NoSpace == /\ restore.at = "staged" /\ up /\ Takes("faults") /\ restore' = AtRest
           /\ Same(<<up, inbox, copies>>)
\* close(): a receive that is cancelled fails its row.
Cancelled(row) == IF row.state = "receiving" THEN [row EXCEPT !.state = "failed"] ELSE row
Shuts == /\ restore.at = "saved" /\ up /\ up' = FALSE /\ Goes("closed")
         /\ inbox' = [inbox EXCEPT !.rows = [u \in Uploads |-> Cancelled(@[u])]]
         /\ Same(<<copies, room>>)
MovesAside == /\ restore.at = "closed" /\ aside' = inbox /\ inbox' = Missing /\ Goes("aside")
              /\ Same(<<up, zips, away, room>>)
Swaps == /\ restore.at = "aside" /\ inbox' = restore.rows /\ Goes("placed")
          /\ Same(<<up, copies, room>>)
Reopens == /\ restore.at = "placed" /\ inbox' = Opened(inbox) /\ up' = TRUE /\ Goes("opened")
           /\ Same(<<copies, room>>)
Cleans == /\ restore.at = "opened" /\ aside' = Missing /\ restore' = AtRest
          /\ Same(<<up, inbox, zips, away, room>>)
\* A rename or the start fails: the inbox stays where it is or is reinstated, and is started.
Undoes == /\ restore.at \in {"closed", "aside", "placed"} /\ Takes("faults")
          /\ inbox' = IF restore.at = "closed" THEN inbox ELSE aside
          /\ aside' = Missing /\ Goes("back") /\ Same(<<up, zips, away>>)
Resumes == /\ restore.at = "back" /\ restore' = AtRest
           /\ (up' = TRUE /\ inbox' = Opened(inbox) /\ UNCHANGED room) \/ (Takes("faults") /\ UNCHANGED <<up, inbox>>)
           /\ Same(copies)
\* The process stops anywhere; between the two renames only as a deviation.
Crashes == /\ IF restore.at = "aside" THEN Takes("torn") ELSE Takes("faults")
           /\ up' = FALSE /\ restore' = AtRest /\ Same(<<inbox, copies>>)
\* NativeInbox.__init__ makes the directory when there is none.
Restarts == /\ ~ up /\ restore.at = "rest" /\ up' = TRUE
            /\ inbox' = Opened(inbox) /\ Same(<<copies, restore, room>>)

RecoveryNext ==
    \/ \E u \in Uploads : Receives(u) \/ Acks(u) \/ Delivers(u) \/ Fails(u) \/ Queues(u) \/ Claims(u) \/ Sends(u)
                          \/ Observed(u) \/ Resolves(u) \/ Retries(u) \/ Discards(u)
    \/ \E z \in Zips : Backup(z) \/ Downloads(z) \/ Imports(z) \/ Deletes(z) \/ Stages(z) \/ Saves(z)
    \/ NoSpace \/ Shuts \/ MovesAside \/ Swaps \/ Reopens \/ Cleans \/ Undoes \/ Resumes \/ Crashes \/ Restarts
RecoverySpec == RecoveryInit /\ [][RecoveryNext]_recoveryVars

------------------------------------------------------------------------------
(* Properties.                                                              *)

\* Whatever is restored and however often, the printer is sent a start once per request.
SentOnce == \A u \in Uploads : sent[u] <= asked[u]
\* What a slicer was told is stored is in the inbox or in a copy the owner can reach.
NothingLost == \A u \in Uploads : told[u] = "kept" => Held(u, Places)
\* A restore that is cut short leaves an inbox to start from, the previous or the restored.
InboxIsThere == restore.at = "rest" => inbox.there
RecoverySound == SentOnce /\ NothingLost /\ InboxIsThere
=============================================================================
