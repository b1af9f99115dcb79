---------------------------- MODULE PrinterLink ----------------------------
(***************************************************************************)
(* One printer as the bridge holds it: the session that reconnects for ever *)
(* (protocol/mqtt.py), the state merged from reports and the named events   *)
(* read off it (service/printer.py), the bus with its bounded queues        *)
(* (service/events.py), a client's status stream (api/status.py), the event *)
(* log (service/event_persister.py), and the requests that change the       *)
(* printer's address, trust its certificate or remove it                    *)
(* (service/registry.py, api/printers.py).                                  *)
(*                                                                         *)
(* A session receives every change of the printer that happens while it is  *)
(* subscribed, in order; what happens without one is never told.            *)
(***************************************************************************)
EXTENDS Naturals, Sequences, FiniteSets

CONSTANTS Runs,       \* the prints, 1..n in the order the printer runs them
          Title,      \* the job name of each run
          Layers,     \* layers of a print
          Editors,    \* requests that may be open at once
          MaxSession, \* sessions the bridge may start (a bound)
          MaxQueue,   \* EventBus maxsize
          LinkWorlds  \* what may happen, and how often (bounds)

Sessions == 1..MaxSession
Readers == {"client", "log"}
InFlight == {"PREPARE", "RUNNING", "PAUSE"}    \* _IN_FLIGHT
Inactive == {"", "IDLE", "PREPARE", "FINISH"}  \* _INACTIVE_STATES, "" for None

VARIABLES printer,   \* the machine: [gs, run, layer, cert]
          link,      \* the run() task of each session
          handle,    \* PrinterService._task, 0 for none
          svc,       \* PrinterService: what the reports said
          pin, trust, \* expected_fingerprint; cert_status
          req,       \* what each request is doing
          listed,    \* the registry still has the printer
          queue,     \* the bus queue of each reader
          view,      \* what the client has been sent
          told, eventLog, \* the named events published, and those in the log
          world      \* what may still happen

linkVars == <<printer, link, handle, svc, pin, trust, req, listed, queue, view, told, eventLog, world>>
certs == <<pin, trust>>

LinkInit ==
    /\ world \in LinkWorlds
    /\ printer = IF ~ world.under THEN [gs |-> "IDLE", run |-> 0, layer |-> 0, cert |-> 1]
                 ELSE [gs |-> "RUNNING", run |-> Cardinality(Runs) - world.prints, layer |-> 0, cert |-> 1]
    /\ link = [s \in Sessions |-> IF s = 1 THEN "dialing" ELSE "none"] /\ handle = 1
    /\ svc = [on |-> FALSE, ever |-> FALSE, fresh |-> FALSE, seed |-> TRUE, gs |-> "", layer |-> 0,
              title |-> "", started |-> 0, run |-> 0, gap |-> <<>>, busy |-> FALSE]
    /\ pin = 1 /\ trust = "unknown"
    /\ req = [e \in Editors |-> [at |-> "rest", cert |-> 0]] /\ listed = TRUE
    /\ queue = [r \in Readers |-> <<>>] /\ view = [gs |-> "", layer |-> 0, missed |-> FALSE]
    /\ told = <<>> /\ eventLog = <<>>

Spare(event) == world[event] > 0 /\ world' = [world EXCEPT ![event] = @ - 1]
Live == {s \in Sessions : link[s] \notin {"none", "ended"}}
Becomes(s, at) == link' = [link EXCEPT ![s] = at]

------------------------------------------------------------------------------
(* EventBus.publish(): a full queue loses its oldest event.                 *)

Offer(q, e) == IF Len(q) = MaxQueue THEN Append(Tail(q), e) ELSE Append(q, e)

\* view.missed: the client's queue has lost an event since the client last looked (a ghost).
PublishAll(events) ==
    LET into(q) == LET f[i \in 0..Len(events)] == IF i = 0 THEN q ELSE Offer(f[i - 1], events[i])
                   IN  f[Len(events)]
    IN  /\ queue' = [r \in Readers |-> into(queue[r])]
        /\ told' = told \o SelectSeq(events, LAMBDA e : e # "state")
        /\ view' = [view EXCEPT !.missed = @ \/ Len(queue.client) + Len(events) > MaxQueue]
Silent == UNCHANGED <<queue, told, view>>

------------------------------------------------------------------------------
(* The session: run(), _session(), _mark_disconnected().                    *)

\* connected; the certificate is looked at before the reconnection is told.
Connects(s) ==
    /\ link[s] = "dialing" /\ Becomes(s, "comparing")
    /\ svc' = [svc EXCEPT !.on = TRUE, !.seed = TRUE, !.fresh = FALSE,
                          !.gap = <<svc.title, svc.layer>>]
    /\ Silent /\ UNCHANGED <<printer, handle, certs, req, listed, eventLog, world>>

Compared(s) ==
    /\ link[s] = "comparing" /\ Becomes(s, "up")
    /\ \E seen \in BOOLEAN :                     \* the probe may fail
         LET status == IF ~ seen THEN trust ELSE IF printer.cert = pin THEN "trusted" ELSE "changed"
         IN  /\ IF seen THEN UNCHANGED world ELSE Spare("fault")
             /\ trust' = status
             /\ PublishAll((IF status # trust /\ (status = "changed" \/ trust = "changed")
                            THEN <<"cert_" \o status>> ELSE <<>>)
                           \o (IF svc.ever THEN <<"connection_restored">> ELSE <<>>))
    /\ svc' = [svc EXCEPT !.ever = TRUE]
    /\ UNCHANGED <<printer, handle, pin, req, listed, eventLog>>

Disconnected(s, then) ==
    /\ Becomes(s, then)
    /\ IF link[s] \in {"comparing", "up", "cancelled"}
       THEN svc' = [svc EXCEPT !.on = FALSE] /\ PublishAll(<<"connection_lost">>)
       ELSE Silent /\ UNCHANGED svc
Drops(s) ==
    /\ link[s] \in {"comparing", "up"} /\ Spare("drops")
    /\ Disconnected(s, "dialing")
    /\ UNCHANGED <<printer, handle, certs, req, listed, eventLog>>
Ends(s) ==                                       \* CancelledError
    /\ link[s] \in {"cancelled", "cancelled dialing"}
    /\ Disconnected(s, "ended")
    /\ UNCHANGED <<printer, handle, certs, req, listed, eventLog, world>>

------------------------------------------------------------------------------
(* _handle_report(): the whole state after pushall, or some fields of it.    *)

KeepsStart(now, same) == [now EXCEPT !.gap = <<>>]
\* _check_gap(): after a reconnect, a print that is not the same one forgets the start time.
CheckGap(now, same) == [now EXCEPT !.gap = <<>>, !.started = IF same THEN @ ELSE 0]
Merged(fields) ==
    [svc EXCEPT !.gs = IF "gs" \in fields THEN printer.gs ELSE @,
                !.run = IF "gs" \in fields THEN printer.run ELSE @,
                !.layer = IF "layer" \in fields THEN printer.layer ELSE @,
                !.title = IF "title" \in fields THEN (IF printer.run = 0 THEN "" ELSE Title[printer.run]) ELSE @]

PrintStarts(now) == svc.gs # "" /\ now.gs # svc.gs /\ now.gs = "RUNNING" /\ svc.gs \in Inactive
PrintOver(now) == svc.gs # "" /\ now.gs # svc.gs /\ now.gs = "FINISH"
PrintLost(now) == now.gs = "IDLE" /\ now.title = "" /\ svc.busy /\ svc.gs # ""

\* The start of the live row of that name, if there is one.
LiveStart(now) == IF world.rows THEN now.run ELSE 0
\* _maybe_recover_started_at(): the first state after a connection is held against the gap, and
\* a start nobody knows is taken from the row.
FirstState(now, fields) ==
    LET same == svc.gap # <<>> /\ now.gs \in {"RUNNING", "PAUSE"} /\ now.title = svc.gap[1] /\ now.layer >= svc.gap[2]
        row == IF now.gs \in {"RUNNING", "PAUSE"} THEN LiveStart(now) ELSE 0
        kept == IF svc.gap = <<>> THEN now ELSE CheckGap(now, same)
    IN  IF svc.fresh \/ "gs" \notin fields THEN now
        ELSE [kept EXCEPT !.fresh = TRUE, !.started = IF @ = 0 THEN row ELSE @]

\* _emit_named_events()
NamedEvents(now) ==
    (IF PrintStarts(now) THEN <<"print_started">> ELSE IF PrintOver(now) THEN <<"print_completed">> ELSE <<>>)
    \o (IF svc.gs # "" /\ svc.layer = 0 /\ now.layer > 0 THEN <<"print_progress">> ELSE <<>>)

Classified(fields) ==
    LET m == Merged(fields)
        now == FirstState(m, fields)
    IN  [next |-> [now EXCEPT !.seed = FALSE,
                              !.started = IF PrintStarts(now) THEN now.run
                                          ELSE IF PrintLost(now) \/ PrintOver(now) THEN 0 ELSE @,
                              !.busy = IF now.gs \in InFlight THEN TRUE
                                       ELSE IF now.gs = "FINISH" \/ (now.gs = "IDLE" /\ now.title = "") THEN FALSE ELSE @],
         events |-> (IF svc.seed \/ <<m.gs, m.layer, m.title>> # <<svc.gs, svc.layer, svc.title>> THEN <<"state">> ELSE <<>>)
                    \o (IF PrintLost(now) THEN <<"print_interrupted">> ELSE <<>>) \o NamedEvents(now)]

\* Which fields come first after a connection: the answer to pushall is whole (see LinkWorlds).
Reports(s, fields) ==
    /\ link[s] = "up" /\ (svc.fresh \/ world.partial \/ {"gs", "title"} \subseteq fields)
    /\ LET c == Classified(fields)
       IN  /\ c.next # svc \/ c.events # <<>>
           /\ svc' = c.next /\ PublishAll(c.events)
    /\ UNCHANGED <<printer, link, handle, certs, req, listed, eventLog, world>>

------------------------------------------------------------------------------
(* The readers of the bus.                                                  *)

Now == [gs |-> svc.gs, layer |-> svc.layer, missed |-> FALSE]
\* _pump(): whatever the event says, the client is sent the state as it is now, and so it is
\* when there was none for a while.
Pumps ==
    /\ queue' = [queue EXCEPT !.client = IF @ = <<>> THEN @ ELSE Tail(@)]
    /\ view' = IF queue.client = <<>> \/ Head(queue.client) = "state" THEN Now ELSE view
    /\ <<queue, view>>' # <<queue, view>>
    /\ UNCHANGED <<printer, link, handle, svc, certs, req, listed, told, eventLog, world>>

\* EventPersister._consume(): named events only; one that cannot be written is left out.
Persists ==
    /\ queue.log # <<>> /\ queue' = [queue EXCEPT !.log = Tail(@)]
    /\ IF Head(queue.log) = "state" THEN UNCHANGED <<eventLog, world>>
       ELSE \/ eventLog' = Append(eventLog, Head(queue.log)) /\ UNCHANGED world
            \/ UNCHANGED eventLog /\ Spare("fault")
    /\ UNCHANGED <<printer, link, handle, svc, certs, req, listed, view, told>>

------------------------------------------------------------------------------
(* Requests: PATCH and DELETE of the printer, POST .../trust.               *)

At(e, step) == req[e].at = step
Goes(e, step) == req' = [req EXCEPT ![e].at = step]
Alone == world.overlap \/ \A e \in Editors : At(e, "rest")

Begins(e, what) ==
    /\ At(e, "rest") /\ Alone /\ listed /\ Spare("edits")
    /\ Goes(e, what)
    /\ listed' = (what # "remove")               \* remove() takes it off the list at once
    /\ Silent /\ UNCHANGED <<printer, link, handle, svc, certs, eventLog>>

\* stop() waits for the task it cancels.
Stops(e, next) ==
    IF handle = 0 THEN Goes(e, next) /\ UNCHANGED link
    ELSE /\ Goes(e, next)
         /\ link' = [link EXCEPT ![handle] = CASE @ \in {"comparing", "up"} -> "cancelled"
                                               [] @ = "dialing" -> "cancelled dialing"
                                               [] OTHER -> @]
Reconnects(e) ==                                  \* update(), once the row is written
    /\ At(e, "edit") /\ Stops(e, "restart")
    /\ Silent /\ UNCHANGED <<printer, handle, svc, certs, listed, eventLog, world>>
Removes(e) ==
    /\ At(e, "remove") /\ Stops(e, "removed")
    /\ Silent /\ UNCHANGED <<printer, handle, svc, certs, listed, eventLog, world>>
Unawaited == TRUE
Stopped == handle = 0 \/ link[handle] = "ended"
Restarts(e) ==
    /\ At(e, "restart") /\ Stopped /\ Goes(e, "rest")
    /\ \E s \in Sessions : /\ link[s] = "none" /\ \A r \in Sessions : r < s => link[r] # "none"
                           /\ Becomes(s, "dialing") /\ handle' = s
    /\ svc' = [svc EXCEPT !.seed = TRUE, !.fresh = FALSE]
    /\ Silent /\ UNCHANGED <<printer, certs, listed, eventLog, world>>
Removed(e) ==
    /\ At(e, "removed") /\ Stopped /\ Goes(e, "rest") /\ handle' = 0
    /\ Silent /\ UNCHANGED <<printer, link, svc, certs, listed, eventLog, world>>
\* trust_printer(): the certificate is read, then pinned.
Trusts(e) ==
    /\ At(e, "trust") /\ req' = [req EXCEPT ![e] = [at |-> "pin", cert |-> printer.cert]]
    /\ Silent /\ UNCHANGED <<printer, link, handle, svc, certs, listed, eventLog, world>>
Pins(e) ==
    /\ At(e, "pin") /\ Goes(e, "rest") /\ pin' = req[e].cert /\ trust' = "trusted"
    /\ Silent /\ UNCHANGED <<printer, link, handle, svc, listed, eventLog, world>>

------------------------------------------------------------------------------
(* The printer.                                                             *)

\* A subscribed session has been told of the last change before the next one.
Heard == (\E s \in Sessions : link[s] \in {"comparing", "up"})
             => svc.fresh /\ svc.gs = printer.gs /\ svc.run = printer.run /\ svc.layer = printer.layer
                /\ svc.title = (IF printer.run = 0 THEN "" ELSE Title[printer.run])
Changes(new) ==
    /\ Heard /\ printer' = new
    /\ Silent /\ UNCHANGED <<link, handle, svc, certs, req, listed, eventLog>>
Prepares == /\ printer.gs \in {"IDLE", "FINISH"} /\ world.prints > 0
            /\ \E r \in Runs : /\ r = Cardinality(Runs) + 1 - world.prints
                               /\ Changes([printer EXCEPT !.gs = "PREPARE", !.run = r, !.layer = 0])
            /\ Spare("prints")
Prints == /\ printer.gs = "PREPARE" /\ Changes([printer EXCEPT !.gs = "RUNNING"]) /\ UNCHANGED world
NextLayer == /\ printer.gs = "RUNNING" /\ printer.layer < Layers
             /\ Changes([printer EXCEPT !.layer = @ + 1]) /\ UNCHANGED world
Pauses == /\ printer.gs \in {"RUNNING", "PAUSE"} /\ Spare("pauses")
          /\ Changes([printer EXCEPT !.gs = IF @ = "PAUSE" THEN "RUNNING" ELSE "PAUSE"])
Finishes == /\ printer.gs = "RUNNING" /\ printer.layer = Layers
            /\ Changes([printer EXCEPT !.gs = "FINISH"]) /\ UNCHANGED world
PowerCycled == /\ Spare("cycles") /\ Changes([printer EXCEPT !.gs = "IDLE", !.run = 0, !.layer = 0])
Renewed == /\ Spare("certs") /\ Changes([printer EXCEPT !.cert = @ + 1])

LinkNext ==
    \/ \E s \in Sessions : Connects(s) \/ Compared(s) \/ Drops(s) \/ Ends(s)
                           \/ \E f \in {{"gs", "layer", "title"}, {"gs"}, {"layer", "title"}} : Reports(s, f)
    \/ Pumps \/ Persists
    \/ \E e \in Editors : \/ \E what \in {"edit", "remove", "trust"} : Begins(e, what)
                          \/ Reconnects(e) \/ Restarts(e) \/ Removes(e) \/ Removed(e) \/ Trusts(e) \/ Pins(e)
    \/ Prepares \/ Prints \/ NextLayer \/ Pauses \/ Finishes \/ PowerCycled \/ Renewed
LinkSpec == LinkInit /\ [][LinkNext]_linkVars

------------------------------------------------------------------------------
(* Properties.                                                              *)

\* The printer takes only a few clients: the bridge holds one session, and none once the
\* printer was removed (requests one after the other).
OneLink == /\ Cardinality(Live) <= 1
           /\ ~ listed /\ (\A e \in Editors : At(e, "rest")) => Live = {}

\* A start time shown for a print that is under way is that print's, also after a reconnect
\* to another one, unless that one bears the same name and is as far.
StartIsOwn ==
    svc.fresh /\ svc.on /\ svc.gs \in InFlight /\ svc.started # 0
        => svc.started = svc.run \/ Title[svc.started] = Title[svc.run]

\* A client that has read everything, and lost nothing, shows the state there is.
ClientCatchesUp == queue.client = <<>> /\ ~ view.missed /\ svc.gs # "" => view = Now

\* The link says it is up exactly while a session is, and between two reconnections it told
\* of there is a loss that it told of.
LinkIsTold ==
    /\ svc.on <=> \E s \in Sessions : link[s] \in {"comparing", "up", "cancelled"}
    /\ \A i, j \in DOMAIN told : i < j /\ told[i] = "connection_restored" /\ told[j] = told[i]
                                 => \E k \in i..j : told[k] = "connection_lost"

\* The log holds what was told, in that order, whatever it had to leave out.
LogIsTold ==
    LET found[i \in 0..Len(told)] ==        \* how much of the log the first i told hold
            IF i = 0 THEN 0
            ELSE LET n == found[i - 1] IN IF n < Len(eventLog) /\ eventLog[n + 1] = told[i] THEN n + 1 ELSE n
    IN  found[Len(told)] = Len(eventLog)

LinkSound == OneLink /\ StartIsOwn /\ ClientCatchesUp /\ LinkIsTold /\ LogIsTold
=============================================================================
