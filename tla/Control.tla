------------------------------- MODULE Control -------------------------------
(***************************************************************************)
(* The control routes (api/control.py, api/advanced.py) behind their gate          *)
(* (api/capabilities.py): a request waits for a fresh status, is judged by it, and *)
(* its handler runs later, checks what it checks itself, and publishes later still. *)
(* Also the estimate of the toolhead's position a jog needs (service/printer.py).   *)
(***************************************************************************)
EXTENDS Naturals, FiniteSets

CONSTANTS Clients,
          Ops,             \* the commands asked for
          FreshFor,        \* how old a status may be (15 s)
          WaitFor,         \* how long a request waits for one (FRESH_WAIT_S)
          Spacing,         \* between two requests for a full report (FULL_REPORT_INTERVAL_S)
          ControlLimits    \* bounds: [ticks, requests, changes, drops, reports, slow, torn]

VARIABLES clock,
          printer,     \* what it does: [state, homed, hot]
          idleAt,      \* when it last was idle
          linked,      \* the session is connected
          heard,       \* the merged status [state, homed, hot] and when the last report came: at
          arriving,    \* a report received and not merged yet, or Merged
          asked,       \* when a full report was last requested, 0: never
          pushed,      \* when such a request was last published
          crowded,     \* two were published closer than Spacing
          request,     \* per client: [op, at, until, seen]
          sent,        \* the last published command: [op, idleFor]
          position,    \* the dead-reckoned estimate is there
          rehomed,     \* the printer homed at the bridge's command, and nothing has happened since
          refused,     \* a jog was refused for an unknown position right after such a homing
          spare

controlVars == <<clock, printer, idleAt, linked, heard, arriving, asked, pushed, crowded, request, sent, position, rehomed, refused, spare>>
Merged == [state |-> "none", homed |-> FALSE, hot |-> FALSE]
Idle == {"IDLE", "FINISH"}
Nothing == [op |-> "none", at |-> "none", until |-> 0, seen |-> "none", idleFor |-> 0]
Start == FreshFor + Spacing
ControlInit ==
    /\ clock = Start /\ printer = [state |-> "IDLE", homed |-> FALSE, hot |-> FALSE] /\ idleAt = clock /\ linked = TRUE
    /\ heard = [state |-> "IDLE", homed |-> FALSE, hot |-> FALSE, at |-> clock] /\ arriving = Merged /\ asked = 0 /\ pushed = 0 /\ crowded = FALSE
    /\ request = [c \in Clients |-> Nothing] /\ sent = [op |-> "none", idleFor |-> 0] /\ position = FALSE /\ rehomed = FALSE /\ refused = FALSE
    /\ spare \in ControlLimits
Uses(what) == spare[what] > 0 /\ spare' = [spare EXCEPT ![what] = @ - 1]
Asking == <<asked, pushed, crowded>>
Outcome == <<sent, refused>>
World == <<clock, printer, idleAt, linked, heard, arriving>>

------------------------------------------------------------------------------
(* The printer and its reports.                                             *)

\* A publication takes less than a tick, unless it is slow.
Ticks == /\ IF \E c \in Clients : request[c].at = "asking"
            THEN spare.slow > 0 /\ spare.ticks > 0 /\ spare' = [spare EXCEPT !.slow = @ - 1, !.ticks = @ - 1]
            ELSE Uses("ticks")
         /\ arriving = Merged /\ clock' = clock + 1 /\ idleAt' = IF printer.state \in Idle THEN clock + 1 ELSE idleAt
         /\ UNCHANGED <<printer, linked, heard, arriving, Asking, request, Outcome, position, rehomed>>
Follows(s) == CASE s \in Idle -> {"RUNNING"} [] s = "RUNNING" -> {"PAUSE", "FINISH"} [] s = "PAUSE" -> {"RUNNING"}
Changes == /\ Uses("changes") /\ \E s \in Follows(printer.state) :
                printer' = [printer EXCEPT !.state = s, !.homed = @ \/ s = "RUNNING"]
           /\ idleAt' = clock /\ rehomed' = FALSE
           /\ UNCHANGED <<clock, linked, heard, arriving, Asking, request, Outcome, position>>
Heats == /\ Uses("changes") /\ printer' = [printer EXCEPT !.hot = ~ @]
         /\ UNCHANGED <<clock, idleAt, linked, heard, arriving, Asking, request, Outcome, position, rehomed>>
\* A report is stamped and shown to the waiting requests first, and merged only after the awaits
\* between (the native observer, the time in the printer's row).
Receives == /\ linked /\ arriving = Merged /\ Uses("reports")
            /\ arriving' = printer /\ heard' = [heard EXCEPT !.at = clock]
            /\ UNCHANGED <<clock, printer, idleAt, linked, Asking, request, Outcome, position, rehomed>>
\* A change of state forgets the position.
Merges == /\ arriving # Merged /\ arriving' = Merged
          /\ heard' = [state |-> arriving.state, homed |-> arriving.homed, hot |-> arriving.hot, at |-> heard.at]
          /\ position' = (position /\ arriving.state = heard.state)
          /\ UNCHANGED <<clock, printer, idleAt, linked, Asking, request, Outcome, rehomed, spare>>
Drops == /\ linked /\ Uses("drops") /\ arriving = Merged /\ linked' = FALSE /\ position' = FALSE /\ rehomed' = FALSE
         /\ UNCHANGED <<clock, printer, idleAt, heard, arriving, Asking, request, Outcome>>
Returns == /\ ~ linked /\ linked' = TRUE /\ UNCHANGED <<clock, printer, idleAt, heard, arriving, Asking, request, Outcome, position, rehomed, spare>>

------------------------------------------------------------------------------
(* The gate.                                                                *)

Allowed(op) == CASE op \in {"home", "move", "extrude"} -> Idle [] op = "pause" -> {"RUNNING"} [] op = "resume" -> {"PAUSE"}
                 [] op = "stop" -> {"RUNNING", "PAUSE"} [] op = "unload" -> Idle \cup {"RUNNING", "PAUSE"}
TelemetryFresh == linked /\ clock - heard.at <= FreshFor
Turn(c, next) == request' = [request EXCEPT ![c] = next]
Done(c) == Turn(c, Nothing)
Asks(c, op) == /\ request[c] = Nothing /\ Uses("requests") /\ Turn(c, [Nothing EXCEPT !.op = op, !.at = "gate"])
               /\ UNCHANGED <<World, Asking, Outcome, position, rehomed>>
\* request_full_report() marks the time, then publishes.
Due == clock - asked >= Spacing
Published == pushed' = clock /\ crowded' = (crowded \/ (pushed > 0 /\ clock - pushed < Spacing))
MarksFirst == asked' = clock
MarksLast == UNCHANGED asked
Marks == MarksFirst
Waits(c) == /\ request[c].at = "gate" /\ linked /\ ~ TelemetryFresh
            /\ Turn(c, [request[c] EXCEPT !.at = IF Due THEN "asking" ELSE "waiting", !.until = clock + WaitFor, !.seen = heard.state])
            /\ IF Due THEN Marks ELSE UNCHANGED asked
            /\ UNCHANGED <<World, pushed, crowded, Outcome, position, rehomed, spare>>
Pushes(c) == /\ request[c].at = "asking"
             /\ IF linked THEN Published /\ asked' = (IF asked < clock THEN clock ELSE asked) /\ Turn(c, [request[c] EXCEPT !.at = "waiting"])
                ELSE Done(c) /\ UNCHANGED Asking                                         \* 500: nobody catches it
             /\ UNCHANGED <<World, Outcome, position, rehomed, spare>>
\* Whatever the wait brought, the status is read after it: torn, before it is merged.
StateAfter(c) == heard.state
StateBefore(c) == IF request[c].at = "gate" THEN heard.state ELSE request[c].seen
JudgedBy(c) == StateAfter(c)
Judges(c) == /\ \/ request[c].at = "gate" /\ (TelemetryFresh \/ ~ linked)
                \/ request[c].at = "waiting" /\ (TelemetryFresh \/ clock >= request[c].until)
             /\ arriving # Merged => spare.torn > 0
             /\ IF TelemetryFresh /\ JudgedBy(c) \in Allowed(request[c].op)
                THEN Turn(c, [request[c] EXCEPT !.at = "handler", !.seen = "none", !.until = 0,
                                                !.idleFor = IF printer.state \in Idle THEN 0 ELSE clock - idleAt])
                ELSE Done(c)
             /\ UNCHANGED <<World, Asking, Outcome, position, rehomed, spare>>

------------------------------------------------------------------------------
(* The handlers.                                                            *)

Busy == heard.state \in {"RUNNING", "PAUSE"}
Checked(op) == CASE op = "move" -> heard.state # "RUNNING" /\ heard.homed /\ position      \* require_not_busy, _check_jog
                 [] op = "extrude" -> heard.state \in {"IDLE", "PAUSE"} /\ heard.homed /\ heard.hot
                 [] op = "unload" -> ~ Busy                                      \* an AMS tray is loaded
                 [] OTHER -> TRUE
Handles(c) == /\ request[c].at = "handler"
              /\ IF linked /\ Checked(request[c].op) THEN Turn(c, [request[c] EXCEPT !.at = "publish"]) ELSE Done(c)
              /\ refused' = (refused \/ (request[c].op = "move" /\ linked /\ heard.state = printer.state /\ heard.state \in Idle
                                           /\ heard.homed /\ rehomed /\ ~ position))
              /\ UNCHANGED <<World, Asking, sent, position, rehomed, spare>>
\* home() only forgets the position: mark_homed() has no caller.
HomesTo == FALSE
Publishes(c) ==
    /\ request[c].at = "publish" /\ Done(c)
    /\ IF linked
       THEN /\ sent' = [op |-> request[c].op, idleFor |-> request[c].idleFor]
            /\ position' = (IF request[c].op = "home" THEN HomesTo ELSE position)
            /\ rehomed' = IF request[c].op = "home" THEN printer.state \in Idle ELSE rehomed /\ request[c].op # "move"
            /\ printer' = [printer EXCEPT !.homed = @ \/ (request[c].op = "home" /\ printer.state \in Idle)]
       ELSE UNCHANGED <<sent, position, rehomed, printer>>
    /\ UNCHANGED <<clock, idleAt, linked, heard, arriving, Asking, refused, spare>>

ControlNext ==
    \/ Ticks \/ Changes \/ Heats \/ Receives \/ Merges \/ Drops \/ Returns
    \/ \E c \in Clients : Waits(c) \/ Pushes(c) \/ Judges(c) \/ Handles(c) \/ Publishes(c) \/ \E op \in Ops : Asks(c, op)
ControlSpec == ControlInit /\ [][ControlNext]_controlVars

------------------------------------------------------------------------------
(* Properties.                                                              *)

\* However many requests find the status stale at once, the printer is asked for one full report.
AskedOnce == ~ crowded
\* A command that needs an idle printer passed the gate when the printer had been idle at
\* most FreshFor before: no wait and no link gap lets an older status count.
RecentlyIdle == sent.op \in {"home", "move", "extrude"} => sent.idleFor <= FreshFor
ControlSound == AskedOnce /\ RecentlyIdle
\* "re-home to recover": after a homing the printer has reported, a jog is not refused for an
\* unknown position.
HomingRecovers == ~ refused
=============================================================================
