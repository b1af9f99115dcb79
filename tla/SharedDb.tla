------------------------------- MODULE SharedDb -------------------------------
(***************************************************************************)
(* The one database connection all parts of the bridge share (db/jobs.py), with   *)
(* three of its users: the migration at a start, the print queue, and the label     *)
(* an owner gives to what is loaded in an AMS slot (api/filament.py), which is      *)
(* cached and dropped when the printer reports another material (service/printer).  *)
(*                                                                         *)
(* Statements run one by one in the order they were issued, in one transaction      *)
(* for everybody: a commit commits whatever is pending, whoever wrote it.          *)
(***************************************************************************)
EXTENDS Naturals, FiniteSets

CONSTANTS Items,          \* queued prints from before the migration
          Materials,      \* what may be loaded
          Clients,        \* requests
          DbLimits        \* bounds: [requests, swaps, crashes]

VARIABLES up,          \* "down", "open" (migrating) or "up"
          todo,        \* the rows the migration read and has not written
          pending,     \* what the connection sees: [version, shifts, queue, label]
          disk,        \* what is committed
          task,        \* per client: [op, at, arg]
          labels,      \* the service's cache: [loaded, label]
          loaded,      \* the material in the slot
          heard,       \* the merged state's material of the slot
          report,      \* the handler of a report: [at, read]
          set,         \* the cache was set since the last check of it began
          spare

dbVars == <<up, todo, pending, disk, task, labels, loaded, heard, report, set, spare>>
NoLabel == {}
Blank == "empty"
Idle == [op |-> "none", at |-> "none", arg |-> Blank]
Quiet == [at |-> "none", read |-> NoLabel]
DbInit ==
    /\ up = "down" /\ todo = {} /\ disk = [version |-> 0, shifts |-> [i \in Items |-> 0], queue |-> Items, label |-> NoLabel]
    /\ pending = disk /\ task = [c \in Clients |-> Idle] /\ labels = [loaded |-> FALSE, label |-> NoLabel]
    /\ loaded = Blank /\ heard = Blank /\ report = Quiet /\ set = FALSE /\ spare \in DbLimits
Uses(what) == spare[what] > 0 /\ spare' = [spare EXCEPT ![what] = @ - 1]
Commit == disk' = pending
Slot == <<labels, loaded, heard, report, set>>

------------------------------------------------------------------------------
(* connect(): the queued trays are shifted once, with the version, in one commit. *)

InTransaction(after) == disk
EachByItself(after) == after
Kept(after) == InTransaction(after)
Writes(after) == pending' = after /\ disk' = Kept(after)
Opens == /\ up = "down" /\ up' = "open" /\ todo' = (IF disk.version = 0 THEN disk.queue ELSE {})
         /\ UNCHANGED <<pending, disk, task, Slot, spare>>
Shifts(i) == /\ up = "open" /\ i \in todo /\ todo' = todo \ {i} /\ Writes([pending EXCEPT !.shifts[i] = @ + 1])
             /\ UNCHANGED <<up, task, Slot, spare>>
Versions == /\ up = "open" /\ pending.version = 0 /\ todo = {} /\ Writes([pending EXCEPT !.version = 1])
            /\ UNCHANGED <<up, todo, task, Slot, spare>>
Migrates == /\ up = "open" /\ pending.version = 1 /\ up' = "up" /\ Commit
            /\ UNCHANGED <<todo, pending, task, Slot, spare>>
\* Nothing rolls back but the end of the process.
Crashes == /\ up # "down" /\ Uses("crashes") /\ up' = "down" /\ pending' = disk
           /\ task' = [c \in Clients |-> Idle] /\ labels' = [loaded |-> FALSE, label |-> NoLabel]
           /\ heard' = Blank /\ report' = Quiet /\ set' = FALSE /\ todo' = {} /\ UNCHANGED <<disk, loaded>>

------------------------------------------------------------------------------
(* Requests: a statement, its commit, and for a label then the cache.           *)

Does(c, at) == task' = [task EXCEPT ![c].at = at]
Begins(c, op, arg) == up = "up" /\ task[c] = Idle /\ Uses("requests") /\ task' = [task EXCEPT ![c] = [op |-> op, at |-> "commit", arg |-> arg]]
\* QueueRepo.delete(): the row, then the others' positions, then the commit.
Dequeues(c, i) == /\ i \in pending.queue /\ Begins(c, "dequeue", Blank) /\ pending' = [pending EXCEPT !.queue = @ \ {i}]
                  /\ UNCHANGED <<up, todo, disk, Slot>>
\* A label is bound to the material that is loaded by the merged state when the request starts.
Labels(c) == /\ Begins(c, "label", heard) /\ pending' = [pending EXCEPT !.label = {heard}]
             /\ UNCHANGED <<up, todo, disk, Slot>>
Unlabels(c) == /\ Begins(c, "unlabel", Blank) /\ pending' = [pending EXCEPT !.label = NoLabel]
               /\ UNCHANGED <<up, todo, disk, Slot>>
WithCommit(c) == Commit
NoCommit(c) == IF task[c].op = "unlabel" THEN UNCHANGED disk ELSE Commit
Committed(c) == WithCommit(c)
Persists(c) == /\ up = "up" /\ task[c].at = "commit" /\ Committed(c) /\ Does(c, "cache")
              /\ UNCHANGED <<up, todo, pending, Slot, spare>>
Caches(c) == /\ up = "up" /\ task[c].at = "cache" /\ task' = [task EXCEPT ![c] = Idle]
             /\ CASE task[c].op = "label" -> labels' = [loaded |-> TRUE, label |-> {task[c].arg}] /\ set' = TRUE
                  [] task[c].op = "unlabel" -> labels' = [labels EXCEPT !.label = NoLabel] /\ UNCHANGED set
                  [] OTHER -> UNCHANGED <<labels, set>>
             /\ UNCHANGED <<up, todo, pending, disk, loaded, heard, report, spare>>

------------------------------------------------------------------------------
(* Reports.                                                                 *)

Swaps(m) == /\ loaded # m /\ Uses("swaps") /\ loaded' = m
            /\ UNCHANGED <<up, todo, pending, disk, task, labels, heard, report, set>>
\* touch_last_seen() first; then the report is merged and, with the first, the labels are read.
Reports == /\ up = "up" /\ report = Quiet /\ report' = [Quiet EXCEPT !.at = "seen"] /\ Commit
           /\ UNCHANGED <<up, todo, pending, task, labels, loaded, heard, set, spare>>
ByLabel(m, now, was) == m # now
ByChange(m, now, was) == was # now
Other(m, now, was) == ByLabel(m, now, was)
\* A slot that is empty keeps its label, and so does a label given to an empty slot.
Stale(label, now, was) == now # Blank /\ \E m \in label : m # Blank /\ Other(m, now, was)
Check(label, now, was) ==
    /\ set' = FALSE
    /\ IF Stale(label, now, was)
       THEN /\ labels' = [loaded |-> TRUE, label |-> NoLabel] /\ pending' = [pending EXCEPT !.label = NoLabel]
            /\ report' = [Quiet EXCEPT !.at = "commit"]
       ELSE labels' = [loaded |-> TRUE, label |-> label] /\ report' = Quiet /\ UNCHANGED pending
Merges == /\ up = "up" /\ report.at = "seen" /\ heard' = loaded
          /\ IF labels.loaded THEN Check(labels.label, loaded, heard)
             ELSE report' = [at |-> "load", read |-> pending.label] /\ UNCHANGED <<labels, pending, set>>
          /\ UNCHANGED <<up, todo, disk, task, loaded, spare>>
Loads == /\ up = "up" /\ report.at = "load" /\ Check(report.read, heard, heard)
         /\ UNCHANGED <<up, todo, disk, task, loaded, heard, spare>>
Invalidated == /\ up = "up" /\ report.at = "commit" /\ Commit /\ report' = Quiet
               /\ UNCHANGED <<up, todo, pending, task, labels, loaded, heard, set, spare>>

DbNext ==
    \/ Opens \/ Versions \/ Migrates \/ Crashes \/ Reports \/ Merges \/ Loads \/ Invalidated
    \/ \E i \in Items : Shifts(i) \/ \E c \in Clients : Dequeues(c, i)
    \/ \E c \in Clients : Labels(c) \/ Unlabels(c) \/ Persists(c) \/ Caches(c)
    \/ \E m \in Materials \cup {Blank} : Swaps(m)
DbSpec == DbInit /\ [][DbNext]_dbVars

------------------------------------------------------------------------------
(* Properties.                                                              *)

Nothing == (\A c \in Clients : task[c] = Idle) /\ report = Quiet
\* Trays queued by an earlier version are shifted exactly once, whenever a start is cut short.
ShiftedOnce == up = "up" => \A i \in pending.queue : pending.shifts[i] = 1
\* When no operation is under way, everything that was answered is on the disk.
DoneIsDurable == up = "up" /\ Nothing => disk = pending
\* A label does not outlive a report of another material, also when it was being given while the
\* report came.
LabelFits == up = "up" /\ report = Quiet /\ ~ set /\ heard # Blank =>
    \A m \in labels.label : m \in {Blank, heard}
DbSound == ShiftedOnce /\ DoneIsDurable /\ LabelFits

\* What is shown of the labels is what a restart will show.
ShownIsStored == up = "up" /\ labels.loaded /\ Nothing => labels.label = pending.label
=============================================================================
