----------------------------- MODULE PrintJobs -----------------------------
(***************************************************************************)
(* The print jobs of one printer: service/jobs.py (JobManager, JobRun and   *)
(* the watcher), the part of service/printer.py it reads (print_view and    *)
(* the named events) and the job table of db/jobs.py.                       *)
(*                                                                         *)
(* A bridge job has one row and, in the process that took it, one JobRun    *)
(* task.  External prints, and jobs left by a restart, have a row only: the *)
(* watcher closes those.  Both read the printer as levels; nothing they do  *)
(* depends on the content of an event, except that "print_started" may add  *)
(* an external row.                                                         *)
(*                                                                         *)
(* One action is what runs between two awaits.  PAUSE is read like RUNNING  *)
(* everywhere in this module's code and is not told apart.  Prints are      *)
(* numbered: a bridge job's print has the number of its row, a print        *)
(* started at the panel has a number above every row's.                     *)
(***************************************************************************)
EXTENDS Integers, Sequences, FiniteSets, FiniteSetsExt

CONSTANTS MaxRows,    \* rows the table may hold (a bound)
          MaxPanel,   \* prints started at the printer's panel (a bound)
          Worlds      \* what may happen, and how often

\* cancel: someone cancels; restart: the bridge ends and starts again; reconnect: its link
\* does; panel: prints start at the printer; split: reports carry one field; ignore: the
\* printer drops a start; power: it is switched off and on; unsent: publishing fails;
\* refuse: the gateway's job guard refuses; overflow: the bus queue is full; ends: a print
\* at work ends in time.
WorldMenu == {"cancel", "restart", "reconnect", "panel", "split", "ignore", "power",
              "unsent", "refuse", "overflow", "ends"}

ASSUME JobsAssumption ==
    /\ MaxRows \in Nat \ {0} /\ MaxPanel \in Nat
    /\ Worlds \subseteq [rows : 0 .. MaxRows, jobs : 0 .. MaxRows, panel : 0 .. MaxPanel,
                         faults : Nat, events : SUBSET WorldMenu]

VARIABLES rows,           \* the jobs table, in creation order
          run,            \* the JobRun of JobManager._runs, at most one (_busy)
          orphanCancels,  \* JobManager._orphan_cancels
          watch,          \* the watcher task and its bus queue
          view,           \* the printer's state as PrinterService has merged it
          printer,        \* the printer itself
          wire,           \* commands published and not yet handled by the printer
          printed,        \* history: the prints that reached their end
          hits,           \* history: <<job, print>> for each stop that ended a print
          world           \* what may happen: rows, jobs, panel prints; faults still to come

vars == <<rows, run, orphanCancels, watch, view, printer, wire, printed, hits, world>>

Live == {"SUBMITTED", "PREPARING", "PRINTING"}
Terminal == {"COMPLETED", "FAILED", "CANCELED", "INTERRUPTED"}
JobState == Live \cup Terminal \cup {"QUEUED", "UPLOADING"}
Active == {"PREPARE", "RUNNING"}
GcodeState == Active \cup {"IDLE", "FINISH", "FAILED"}

Allowed ==
    [s \in JobState |->
        CASE s = "QUEUED"    -> {"UPLOADING", "CANCELED", "FAILED"}
          [] s = "UPLOADING" -> {"SUBMITTED", "FAILED", "CANCELED"}
          [] s = "SUBMITTED" -> {"PREPARING", "FAILED", "CANCELED", "INTERRUPTED"}
          [] s = "PREPARING" -> {"PRINTING"} \cup Terminal
          [] s = "PRINTING"  -> Terminal
          [] OTHER           -> {}]

None == 0      \* no print, no job name, no key
Unnamed == -1  \* a name not reported yet, or an external row's placeholder

Prints == 1 .. MaxRows + MaxPanel
PanelPrints == MaxRows + 1 .. MaxRows + MaxPanel
NameOf(print) == print  \* every print has a file name of its own

Row == [state : JobState, name : Prints \cup {Unnamed}, external : BOOLEAN,
        late : BOOLEAN, print : Prints]
Ids == DOMAIN rows
JobsOf(table) == {j \in DOMAIN table : ~ table[j].external}

-----------------------------------------------------------------------------
(* The view: print_view()'s gcode_state is known once a report since the    *)
(* last connect carried it; name and layer are the last ones merged.        *)

Unseen == [gs |-> "UNKNOWN", fresh |-> FALSE, name |-> Unnamed, fed |-> FALSE]
Gs(v) == IF v.fresh THEN v.gs ELSE "UNKNOWN"
JobLost(v) == v.gs = "IDLE" /\ v.name = None
Current(v) == IF v.name \in Prints THEN v.name ELSE None
KeyOfName(v) == <<JobLost(v), Current(v)>>
Key(v) == <<Gs(v), JobLost(v), Current(v)>>
Matches(v) == v = [gs |-> printer.gs, fresh |-> TRUE, name |-> printer.name, fed |-> printer.fed]

Delta == [kind |-> "delta", name |-> None, print |-> None]
StartedUnnamed(v) == [kind |-> "print_started", name |-> Unnamed, print |-> printer.print]

Started(v) == [kind |-> "print_started",
               name |-> IF Current(v) = None THEN Unnamed ELSE v.name, print |-> printer.print]

\* EventBus.publish to the watcher; a change that finds a change waiting adds nothing
\* to read, since the watcher reads the view when it takes the event.
Published(events) ==
    IF events[1].kind = "delta" /\ watch.queue # <<>>
         /\ watch.queue[Len(watch.queue)].kind = "delta"
    THEN watch.queue \o Tail(events) ELSE watch.queue \o events

WatcherIdle == watch.queue = <<>> /\ watch.pc = "idle"

Woken == IF run = <<>> THEN run ELSE [run EXCEPT ![1].wake = TRUE]

-----------------------------------------------------------------------------
(* A job's run: <<>> or a one-element sequence.                             *)

Idle == [pc |-> "idle", queue |-> <<>>, seen |-> <<>>, view |-> Unseen,
         todo |-> {}, event |-> Delta]

JobsInit ==
    /\ rows = <<>> /\ run = <<>> /\ orphanCancels = {}
    /\ watch = Idle
    /\ view = Unseen
    /\ printer = [gs |-> "IDLE", name |-> None, fed |-> FALSE, print |-> None,
                next |-> None, panels |-> 0]
    /\ wire = <<>> /\ printed = {} /\ hits = {} /\ world \in Worlds

NewRow(state, name, external, print) ==
    [state |-> state, name |-> name, external |-> external, late |-> FALSE, print |-> print]

NewRun(j) == [job |-> j, pc |-> "create", cancel |-> FALSE, stop |-> "none", sent |-> FALSE,
              ran |-> FALSE, overdue |-> FALSE, wake |-> FALSE, beforeFailed |-> FALSE]

R == run[1]
At(pc) == run # <<>> /\ R.pc = pc
InRuns(j) == run # <<>> /\ R.job = j /\ R.pc # "create"

\* JobRun._set: a transition the table does not allow is logged and dropped.
Set(new) == IF new \in Allowed[rows[R.job].state]
            THEN [rows EXCEPT ![R.job].state = new] ELSE rows

EndRunLeavingIt(new) == rows' = Set(new) /\ run' = run

\* The row is closed and the task ends: _runs and _busy forget it.
EndRun(new) == rows' = Set(new) /\ run' = <<>>
Goto(pc) == run' = [run EXCEPT ![1].pc = pc]

\* submit(): one run per printer, after the start gate every caller applies.
Submit ==
    /\ run = <<>> /\ Cardinality(JobsOf(rows)) < world.jobs /\ Len(rows) < world.rows
    /\ view.gs \in {"IDLE", "FINISH", "FAILED"}
    /\ LET j == Len(rows) + 1 IN
       /\ rows' = Append(rows, NewRow("QUEUED", NameOf(j), FALSE, j))
       /\ run' = <<NewRun(j)>>
    /\ UNCHANGED <<orphanCancels, watch, view, printer, wire, printed, hits, world>>

RunStarts ==
    /\ At("create") /\ Goto("guard")
    /\ UNCHANGED <<rows, orphanCancels, watch, view, printer, wire, printed, hits, world>>

\* The gateway's job guard refuses (the printer is busy or owned): the run fails.
RunRefused ==
    /\ At("guard") /\ "refuse" \in world.events
    /\ EndRun("FAILED")
    /\ UNCHANGED <<orphanCancels, watch, view, printer, wire, printed, hits, world>>

RunBegins ==
    /\ At("guard")
    /\ IF R.cancel THEN EndRun("CANCELED") ELSE rows' = Set("UPLOADING") /\ Goto("upload")
    /\ UNCHANGED <<orphanCancels, watch, view, printer, wire, printed, hits, world>>

UploadFails ==
    /\ At("upload") /\ EndRun("FAILED")
    /\ UNCHANGED <<orphanCancels, watch, view, printer, wire, printed, hits, world>>

\* Canceled during the upload: the print is never started.
UploadEnds ==
    /\ At("upload")
    /\ IF R.cancel THEN EndRun("CANCELED") ELSE rows' = Set("SUBMITTED") /\ Goto("send")
    /\ UNCHANGED <<orphanCancels, watch, view, printer, wire, printed, hits, world>>

Command(kind, j) == [kind |-> kind, job |-> j]

SendStart ==
    /\ At("send")
    /\ run' = [run EXCEPT ![1].pc = "track", ![1].beforeFailed = (Gs(view) = "FAILED")]
    /\ wire' = Append(wire, Command("start", R.job))
    /\ UNCHANGED <<rows, orphanCancels, watch, view, printer, printed, hits, world>>

StartNotSent ==
    /\ At("send") /\ "unsent" \in world.events
    /\ EndRun("FAILED")
    /\ UNCHANGED <<orphanCancels, watch, view, printer, wire, printed, hits, world>>

-----------------------------------------------------------------------------
(* _track: clear the wake flag, deliver a pending stop, read the view,      *)
(* decide, wait.                                                            *)

StopPending == R.stop # "none" /\ ~ R.sent

TrackNoStop ==
    /\ At("track") /\ ~ StopPending
    /\ run' = [run EXCEPT ![1].pc = "read", ![1].wake = FALSE]
    /\ UNCHANGED <<rows, orphanCancels, watch, view, printer, wire, printed, hits, world>>

TrackStop ==
    /\ At("track") /\ StopPending
    /\ run' = [run EXCEPT ![1].pc = "read", ![1].wake = FALSE, ![1].sent = TRUE]
    /\ wire' = Append(wire, Command("stop", R.job))
    /\ UNCHANGED <<rows, orphanCancels, watch, view, printer, printed, hits, world>>

TrackStopForgotten ==
    /\ At("track") /\ StopPending /\ "unsent" \in world.events
    /\ run' = [run EXCEPT ![1].pc = "read", ![1].wake = FALSE, ![1].sent = TRUE]
    /\ UNCHANGED <<rows, orphanCancels, watch, view, printer, wire, printed, hits, world>>

\* The link is down: the job stays live and the stop is retried at the next wake.
TrackStopFails ==
    /\ At("track") /\ StopPending /\ "unsent" \in world.events
    /\ run' = [run EXCEPT ![1].pc = "read", ![1].wake = FALSE]
    /\ UNCHANGED <<rows, orphanCancels, watch, view, printer, wire, printed, hits, world>>

ReadSubmittedOver ==
    LET gs == Gs(view) IN
    IF R.sent THEN EndRun("CANCELED")
    ELSE IF gs \in Active \cup {"FINISH"} THEN rows' = Set("PREPARING") /\ Goto("track")
    ELSE IF (gs = "FAILED" /\ ~ R.beforeFailed) \/ rows[R.job].late THEN EndRun("FAILED")
    ELSE rows' = rows /\ Goto("wait")

ReadSubmittedFailed ==
    LET gs == Gs(view) IN
    IF R.sent THEN EndRun("CANCELED")
    ELSE IF gs \in Active THEN rows' = Set("PREPARING") /\ Goto("track")
    ELSE IF gs = "FAILED" \/ rows[R.job].late THEN EndRun("FAILED")
    ELSE rows' = rows /\ Goto("wait")

\* A job in SUBMITTED: stopped, accepted, refused by the printer, overdue, or still waiting.
ReadSubmitted ==
    LET gs == Gs(view) IN
    IF R.sent THEN EndRun("CANCELED")
    ELSE IF gs \in Active THEN rows' = Set("PREPARING") /\ Goto("track")
    ELSE IF (gs = "FAILED" /\ ~ R.beforeFailed) \/ rows[R.job].late THEN EndRun("FAILED")
    ELSE rows' = rows /\ Goto("wait")

JobDoneUnlost == LET gs == Gs(view) IN
    \/ gs \in {"FINISH", "FAILED"}
    \/ gs = "IDLE" /\ (R.sent \/ ~ R.ran)

JobDone == LET gs == Gs(view) IN
    \/ gs \in {"FINISH", "FAILED"}
    \/ gs # "UNKNOWN" /\ JobLost(view)
    \/ gs = "IDLE" /\ (R.sent \/ ~ R.ran)

\* _close: how the printer left the job.
CloseAs == IF R.sent THEN (IF R.stop = "user_cancel" THEN "CANCELED" ELSE "FAILED")
           ELSE IF view.gs = "FINISH" THEN "COMPLETED"
           ELSE IF JobLost(view) /\ R.ran THEN "INTERRUPTED" ELSE "FAILED"

ReadOngoingEager ==
    LET ran == R.ran \/ Gs(view) = "RUNNING" IN
    /\ rows' = IF rows[R.job].state = "PREPARING" /\ ran THEN Set("PRINTING") ELSE rows
    /\ run' = [run EXCEPT ![1].pc = "wait", ![1].ran = ran]

\* A job in PREPARING or PRINTING that goes on: RUNNING is noted, and PREPARING ends on
\* progress or, past the feed deadline, in a stop.
ReadOngoing ==
    LET ran == R.ran \/ Gs(view) = "RUNNING"
        preparing == rows[R.job].state = "PREPARING" /\ ran /\ Gs(view) # "UNKNOWN"
        starved == preparing /\ ~ view.fed /\ R.overdue /\ R.stop = "none"
    IN /\ rows' = IF preparing /\ view.fed THEN Set("PRINTING") ELSE rows
       /\ run' = [run EXCEPT ![1].pc = "wait", ![1].ran = ran,
                             ![1].stop = IF starved THEN "watchdog" ELSE @,
                             ![1].wake = @ \/ starved]

TrackRead ==
    /\ At("read")
    /\ IF rows[R.job].state = "SUBMITTED" THEN ReadSubmitted
       ELSE IF JobDone THEN EndRun(CloseAs) ELSE ReadOngoing
    /\ UNCHANGED <<orphanCancels, watch, view, printer, wire, printed, hits, world>>

DeadlinePassed == \/ rows[R.job].state = "SUBMITTED" /\ rows[R.job].late
                  \/ rows[R.job].state = "PREPARING" /\ R.overdue /\ R.stop = "none"

TrackWakes ==
    /\ At("wait") /\ (R.wake \/ DeadlinePassed)
    /\ Goto("track")
    /\ UNCHANGED <<rows, orphanCancels, watch, view, printer, wire, printed, hits, world>>

\* feed_by passes for a print that has run without any progress.
FeedOverdue ==
    /\ At("wait") /\ rows[R.job].state = "PREPARING" /\ R.ran /\ ~ R.overdue
    /\ run' = [run EXCEPT ![1].overdue = TRUE]
    /\ UNCHANGED <<rows, orphanCancels, watch, view, printer, wire, printed, hits, world>>

\* The camera watch of a PRINTING job asks for a stop; the first reason stays.
Spaghetti ==
    /\ run # <<>> /\ rows[R.job].state = "PRINTING" /\ R.stop = "none"
    /\ run' = [run EXCEPT ![1].stop = "watchdog", ![1].wake = TRUE]
    /\ UNCHANGED <<rows, orphanCancels, watch, view, printer, wire, printed, hits, world>>

\* 300 s since the row became SUBMITTED: ack_by of its run, or started_at of an orphan.
\* The printer begins a print it took, and the bridge hears of it, sooner than that.
Elapse(j) ==
    /\ rows[j].state = "SUBMITTED" /\ ~ rows[j].late
    /\ InRuns(j) => R.pc # "send"
    /\ Command("start", j) \notin {wire[i] : i \in DOMAIN wire}
    /\ printer.next # j /\ WatcherIdle
    /\ printer.print = j => printer.gs \notin Active /\ Matches(view)
    /\ rows' = [rows EXCEPT ![j].late = TRUE]
    /\ UNCHANGED <<run, orphanCancels, watch, view, printer, wire, printed, hits, world>>

-----------------------------------------------------------------------------
(* cancel()                                                                 *)

CancelRun(j) ==
    /\ "cancel" \in world.events /\ InRuns(j) /\ ~ R.cancel /\ rows[j].state \notin Terminal
    /\ run' = [run EXCEPT ![1].cancel = TRUE, ![1].wake = @ \/ R.stop = "none",
                          ![1].stop = IF R.stop = "none" THEN "user_cancel" ELSE @]
    /\ UNCHANGED <<rows, orphanCancels, watch, view, printer, wire, printed, hits, world>>

PrintingSomething(j) == Gs(view) \in Active

PrintingIt(j) == Gs(view) \in Active /\ Current(view) = rows[j].name

\* A row without a run stops the printer only while the view shows the row's own file.
CancelOrphan(j) ==
    /\ "cancel" \in world.events /\ ~ InRuns(j) /\ rows[j].state \notin Terminal
    /\ PrintingIt(j)
    /\ j \notin orphanCancels
    /\ wire' = Append(wire, Command("stop", j))
    /\ orphanCancels' = orphanCancels \cup {j}
    /\ UNCHANGED <<rows, run, watch, view, printer, printed, hits, world>>

-----------------------------------------------------------------------------
(* The watcher: _watch_printer, _close_orphans, _maybe_create_external_job. *)

AfterClose == IF watch.event.kind = "print_started" THEN "look" ELSE "idle"

WatchTakes ==
    /\ watch.pc = "idle" /\ watch.queue # <<>>
    /\ LET fresh == Gs(view) # "UNKNOWN" /\ Key(view) # watch.seen
           event == Head(watch.queue)
           taken == [watch EXCEPT !.queue = Tail(@), !.event = event]
       IN watch' = IF fresh
                   THEN [taken EXCEPT !.seen = Key(view), !.view = view, !.pc = "list"]
                   ELSE [taken EXCEPT !.pc = IF event.kind = "print_started" THEN "look" ELSE "idle"]
    /\ UNCHANGED <<rows, run, orphanCancels, view, printer, wire, printed, hits, world>>

VerdictHasty(j, s, v) ==
    IF s = "SUBMITTED" THEN (IF v.gs \in Active THEN "PREPARING" ELSE "FAILED")
    ELSE IF v.gs = "FINISH" THEN "COMPLETED" ELSE IF v.gs = "FAILED" THEN "FAILED"
    ELSE IF JobLost(v) THEN "INTERRUPTED" ELSE s

\* What _close_orphans writes to a row it listed in state s, or s: nothing.
Verdict(j, s, v) ==
    LET replaced == Current(v) # None /\ v.gs # "IDLE" /\ rows[j].name # Current(v)
        over == v.gs \in {"FINISH", "FAILED"} \/ JobLost(v)
    IN CASE replaced -> "INTERRUPTED"
         [] ~ replaced /\ s = "SUBMITTED" ->
              (IF v.gs \in Active THEN "PREPARING" ELSE IF rows[j].late THEN "FAILED" ELSE s)
         [] ~ replaced /\ s # "SUBMITTED" /\ j \in orphanCancels /\ (over \/ v.gs = "IDLE") -> "CANCELED"
         [] ~ replaced /\ s # "SUBMITTED" /\ j \notin orphanCancels /\ over ->
              (IF v.gs = "FINISH" THEN "COMPLETED" ELSE IF v.gs = "FAILED" THEN "FAILED"
               ELSE "INTERRUPTED")
         [] OTHER -> s

\* Of the listed rows still to look at, those the loop will write now: no run owns them.
Due(todo) == {e \in todo : ~ InRuns(e[1]) /\ Verdict(e[1], e[2], watch.view) # e[2]}

\* The loop goes on, newest row first, up to its next write (_close_row).
CloseNext(todo) ==
    IF Due(todo) = {}
    THEN /\ watch' = [watch EXCEPT !.pc = AfterClose, !.todo = {}]
         /\ UNCHANGED <<rows, orphanCancels>>
    ELSE LET j == Max({e[1] : e \in Due(todo)})
             listed == CHOOSE e \in todo : e[1] = j
             new == Verdict(j, listed[2], watch.view)
         IN /\ watch' = [watch EXCEPT !.pc = "close", !.todo = {e \in todo : e[1] < j}]
            /\ rows' = [rows EXCEPT ![j].state = new]
            /\ orphanCancels' = IF new = "CANCELED" THEN orphanCancels \ {j} ELSE orphanCancels

WatchLists ==
    /\ watch.pc = "list"
    /\ CloseNext({<<j, rows[j].state>> : j \in {i \in Ids : rows[i].state \in Live}})
    /\ UNCHANGED <<run, view, printer, wire, printed, hits, world>>

WatchCloses ==
    /\ watch.pc = "close"
    /\ CloseNext(watch.todo)
    /\ UNCHANGED <<run, view, printer, wire, printed, hits, world>>

WatchLooksPrinting ==
    /\ watch.pc = "look"
    /\ watch' = [watch EXCEPT !.pc = IF \E j \in Ids : rows[j].state = "PRINTING"
                                     THEN "idle" ELSE "create"]
    /\ UNCHANGED <<rows, run, orphanCancels, view, printer, wire, printed, hits, world>>

\* print_started: an external row is added when the listing shows no live row.
WatchLooks ==
    /\ watch.pc = "look"
    /\ watch' = [watch EXCEPT !.pc = IF \E j \in Ids : rows[j].state \in Live
                                     THEN "idle" ELSE "create"]
    /\ UNCHANGED <<rows, run, orphanCancels, view, printer, wire, printed, hits, world>>

WatchCreates ==
    /\ watch.pc = "create"
    /\ watch' = [watch EXCEPT !.pc = "idle"]
    /\ rows' = IF Len(rows) = world.rows THEN rows
               ELSE Append(rows, NewRow("PRINTING", watch.event.name, TRUE, watch.event.print))
    /\ UNCHANGED <<run, orphanCancels, view, printer, wire, printed, hits, world>>

\* A full bus queue drops its oldest event for a new one.
Overflow ==
    /\ "overflow" \in world.events /\ Len(watch.queue) > 1
    /\ watch' = [watch EXCEPT !.queue = Tail(@)]
    /\ UNCHANGED <<rows, run, orphanCancels, view, printer, wire, printed, hits, world>>

-----------------------------------------------------------------------------
(* PrinterService: reports and reconnects.                                  *)

\* _handle_report with a report that carries these fields: merge, publish the change,
\* and "print_started" on the edge to RUNNING.
Carry(fields) ==
    LET new == [gs    |-> IF "gs" \in fields THEN printer.gs ELSE view.gs,
                fresh |-> view.fresh \/ "gs" \in fields,
                name  |-> IF "name" \in fields THEN printer.name ELSE view.name,
                fed   |-> IF "fed" \in fields THEN printer.fed ELSE view.fed]
        edge == new.gs = "RUNNING" /\ view.gs \in {"IDLE", "PREPARE", "FINISH", "FAILED"}
    IN /\ view' = new
       /\ watch' = [watch EXCEPT !.queue = Published(<<Delta>> \o (IF edge THEN <<Started(new)>> ELSE <<>>))]
       /\ run' = Woken

\* Two states of the printer are reported further apart than the watcher needs to record
\* one.
Report ==
    /\ \/ Carry({"gs", "name", "fed"})
       \/ "split" \in world.events /\ \E field \in {"gs", "name", "fed"} : Carry({field})
    /\ view'.gs = view.gs \/ WatcherIdle
    /\ UNCHANGED <<rows, orphanCancels, printer, wire, printed, hits, world>>

\* The link drops and comes back: the state is unknown until a report carries it.
Reconnect ==
    /\ "reconnect" \in world.events /\ world.faults > 0
    /\ world' = [world EXCEPT !.faults = @ - 1]
    /\ view' = [view EXCEPT !.fresh = FALSE]
    /\ watch' = [watch EXCEPT !.queue = Published(<<Delta>>)]
    /\ run' = Woken
    /\ UNCHANGED <<rows, orphanCancels, printer, wire, printed, hits>>

JobsRecoveredAll ==
    [j \in Ids |-> IF rows[j].state \notin Live
                   THEN [rows[j] EXCEPT !.state = "FAILED"] ELSE rows[j]]

\* recover(), in the process that follows.
JobsRecovered ==
    [j \in Ids |-> IF rows[j].state \in {"QUEUED", "UPLOADING"}
                   THEN [rows[j] EXCEPT !.state = "FAILED"] ELSE rows[j]]

\* The process ends at any moment.
BridgeRestart ==
    /\ "restart" \in world.events /\ world.faults > 0
    /\ world' = [world EXCEPT !.faults = @ - 1]
    /\ rows' = JobsRecovered
    /\ run' = <<>> /\ orphanCancels' = {} /\ watch' = Idle /\ view' = Unseen
    /\ UNCHANGED <<printer, wire, printed, hits>>

-----------------------------------------------------------------------------
(* The printer.  Commands are handled in order, and sooner than a print      *)
(* changes phase by itself.                                                 *)

Quiet == wire = <<>>

Become(gs, name, print) ==
    printer' = [printer EXCEPT !.gs = gs, !.name = name, !.fed = FALSE, !.print = print,
                               !.next = None, !.panels = @ + (IF print \in PanelPrints THEN 1 ELSE 0)]

TakeCommand ==
    /\ wire # <<>> /\ wire' = Tail(wire)
    /\ LET c == Head(wire) IN
       \/ /\ c.kind = "start" /\ printer.gs \notin Active /\ printer.next = None
          /\ printer' = [printer EXCEPT !.next = c.job] /\ hits' = hits
       \/ /\ c.kind = "start"
          /\ printer.gs \in Active \/ printer.next # None \/ "ignore" \in world.events
          /\ UNCHANGED <<printer, hits>>
       \/ /\ c.kind = "stop" /\ printer.gs \notin Active
          /\ UNCHANGED <<printer, hits>>
       \/ /\ c.kind = "stop" /\ printer.gs \in Active
          /\ printer' = [printer EXCEPT !.gs = "FAILED"]
          /\ hits' = hits \cup {<<c.job, printer.print>>}
    /\ UNCHANGED <<rows, run, orphanCancels, watch, view, printed, world>>

\* A P1S reports its old state for up to a minute after it took a start.
BeginPrint ==
    /\ Quiet /\ printer.next # None
    /\ Become("PREPARE", NameOf(printer.next), printer.next)
    /\ UNCHANGED <<rows, run, orphanCancels, watch, view, wire, printed, hits, world>>

\* A person starts a print at the panel, later than the bridge hears of the last one's end.
PanelStart ==
    /\ "panel" \in world.events /\ Quiet /\ printer.gs \notin Active /\ printer.next = None
    /\ printer.panels < world.panel /\ view.gs \notin Active
    /\ LET p == MaxRows + printer.panels + 1 IN Become("PREPARE", NameOf(p), p)
    /\ UNCHANGED <<rows, run, orphanCancels, watch, view, wire, printed, hits, world>>

Advance ==
    /\ Quiet
    /\ \/ printer.gs = "PREPARE" /\ printer' = [printer EXCEPT !.gs = "RUNNING"]
       \/ printer.gs = "RUNNING" /\ ~ printer.fed /\ printer' = [printer EXCEPT !.fed = TRUE]
    /\ UNCHANGED <<rows, run, orphanCancels, watch, view, wire, printed, hits, world>>

EndPrint ==
    /\ Quiet /\ printer.gs \in Active
    /\ \/ /\ printer.fed
          /\ printer' = [printer EXCEPT !.gs = "FINISH"]
          /\ printed' = printed \cup {printer.print}
       \/ printer' = [printer EXCEPT !.gs = "FAILED"] /\ printed' = printed
    /\ UNCHANGED <<rows, run, orphanCancels, watch, view, wire, hits, world>>

\* The printer is switched off and on: IDLE, with an empty job identity.
PrinterPower ==
    /\ "power" \in world.events /\ Quiet /\ world.faults > 0
    /\ world' = [world EXCEPT !.faults = @ - 1]
    /\ Become("IDLE", None, None)
    /\ UNCHANGED <<rows, run, orphanCancels, watch, view, wire, printed, hits>>

-----------------------------------------------------------------------------
RunSteps == \/ RunStarts \/ RunRefused \/ RunBegins \/ UploadFails \/ UploadEnds
            \/ SendStart \/ StartNotSent \/ TrackNoStop \/ TrackStop \/ TrackStopFails
            \/ TrackRead \/ TrackWakes

WatchSteps == WatchTakes \/ WatchLists \/ WatchCloses \/ WatchLooks \/ WatchCreates

JobsNext ==
    \/ Submit \/ RunSteps \/ FeedOverdue \/ Spaghetti
    \/ \E j \in Ids : Elapse(j) \/ CancelRun(j) \/ CancelOrphan(j)
    \/ WatchSteps \/ Overflow
    \/ Report \/ Reconnect \/ BridgeRestart
    \/ TakeCommand \/ BeginPrint \/ Advance \/ EndPrint \/ PrinterPower \/ PanelStart

JobsSpec == JobsInit /\ [][JobsNext]_vars

\* The tasks run on, reports keep coming, the clock runs, the printer handles what it is
\* sent, and a stop that is retried is published in the end.
JobsFairness ==
    /\ WF_vars(RunSteps) /\ SF_vars(TrackStop) /\ WF_vars(WatchSteps)
    /\ WF_vars(Report) /\ WF_vars(TakeCommand) /\ WF_vars(BeginPrint) /\ WF_vars(Advance)
    /\ \A j \in 1 .. MaxRows : SF_vars(j \in Ids /\ Elapse(j))

JobsFairSpec == JobsSpec /\ JobsFairness

\* Where prints end in time, a print at work ends.
JobsLiveSpec == JobsFairSpec /\ WF_vars("ends" \in world.events /\ EndPrint)

-----------------------------------------------------------------------------
(* Properties.                                                              *)

AtWork(print) == \/ printer.gs \in Active /\ printer.print = print
                 \/ printer.next = print
                 \/ \E i \in DOMAIN wire : wire[i] = Command("start", print)

\* Types of the table, the run, the watcher, the view and the printer.
JobTypeOK ==
    /\ rows \in Seq(Row) /\ Len(rows) <= MaxRows
    /\ run = <<>> \/ /\ Len(run) = 1 /\ R.job \in JobsOf(rows)
                     /\ R.pc \in {"create", "guard", "upload", "send", "track", "read", "wait"}
                     /\ rows[R.job].state \notin Terminal
    /\ orphanCancels \subseteq Ids
    /\ watch.pc \in {"idle", "list", "close", "look", "create"}
    /\ watch.todo \subseteq Ids \X Live
    /\ view.gs \in GcodeState \cup {"UNKNOWN"} /\ view.name \in Prints \cup {None, Unnamed}
    /\ printer.gs \in GcodeState /\ printer.next \in Prints \cup {None}
    /\ world.faults \in Nat

\* A row that has ended keeps its end: neither a late listing of the watcher nor the run
\* rewrites it (jobs.py: "Guarded so a late MQTT event can't, say, move a canceled job to
\* completed").
TerminalStays ==
    [][\A j \in Ids : rows[j].state \in Terminal => rows'[j].state = rows[j].state]_vars

\* A job is COMPLETED only if the printer finished that job's print: not on the FINISH the
\* previous print left behind, not on another print's.
CompletedWasPrinted ==
    \A j \in Ids : rows[j].state = "COMPLETED" => rows[j].print \in printed

\* A row ends only when its print is over: the printer is not printing it, and no start of
\* it is on its way - but for a bridge job the user cancels, where the code does not wait
\* for the printer (CanceledJobIsOver).
EndedJobIsOver ==
    \A j \in Ids : rows[j].state \in Terminal /\ (rows[j].external \/ rows[j].state # "CANCELED")
                  => ~ AtWork(rows[j].print)

CanceledJobIsOver ==
    \A j \in Ids : rows[j].state = "CANCELED" => ~ AtWork(rows[j].print)

\* A bridge job at work is PRINTING only once the printer has made progress on it.
PrintingMadeProgress ==
    \A j \in JobsOf(rows) :
        rows[j].state = "PRINTING" /\ AtWork(j) => printer.print = j /\ printer.fed

\* A stop sent for a job never ends another print.
StopHitsItsPrint == \A hit \in hits : rows[hit[1]].print = hit[2]

\* The watcher adds no second row for a print that has one.
OneRowPerPrint == \A i, j \in Ids : i # j => rows[i].print # rows[j].print

\* No run is stranded: whatever events were lost, a job whose print ends reaches its end,
\* and so does one a stop was asked for although its print would go on for ever - the stop
\* is sent, again if the link was down, and the run waits for the printer to stop.
RunEnds == (run # <<>> /\ ("ends" \in world.events \/ R.stop # "none")) ~> run = <<>>

\* A row left without a run, once the printer took the job, is closed when the print ends.
OrphanEnds ==
    \A j \in 1 .. MaxRows :
        ("ends" \in world.events /\ j \in Ids /\ ~ InRuns(j) /\ rows[j].state \in {"PREPARING", "PRINTING"})
            ~> (j \in Ids /\ rows[j].state \in Terminal)

\* A job sent before a restart that the printer never took fails in the end.
SubmittedOrphanEnds ==
    \A j \in 1 .. MaxRows :
        ("ends" \in world.events /\ j \in Ids /\ ~ InRuns(j) /\ rows[j].state = "SUBMITTED")
            ~> (j \in Ids /\ rows[j].state # "SUBMITTED")

\* A job's row says what became of its print, and a stop meets the print it was meant for.
JobsSound == JobTypeOK /\ CompletedWasPrinted /\ EndedJobIsOver /\ PrintingMadeProgress /\ StopHitsItsPrint
=============================================================================
