---------------------------- MODULE SkipObjects ----------------------------
(***************************************************************************)
(* Skipping objects of the running print (api/skip_objects.py and the       *)
(* RunLog, plan() and identity checks of skip_objects.py): several clients   *)
(* pick objects from a sheet read off the printer's card, and the bridge     *)
(* sends what still fits the print by the time it is sent.                   *)
(*                                                                         *)
(* Every run here has the same name, the worst case: what tells runs apart   *)
(* is the run token, the pinned content and the layer count.                 *)
(***************************************************************************)
EXTENDS Naturals, FiniteSets

CONSTANTS Clients, Objects,
          Contents,   \* what the file of that name may hold; every one has all Objects
          LayersOf,   \* the layer count of each
          SkipWorlds  \* what may happen, and how often (bounds)

\* What a proof needs of the constants.
SkipConstants == "none" \notin Contents /\ LayersOf \in [Contents -> Nat]

SKIP_STATES == {"RUNNING", "PAUSE"}
None == "none"

VARIABLES machine, \* the printer: [gs, run, of, gone]: the content it runs, the objects skipped
          card,    \* the content of the file of that name now
          said,    \* what its reports said: [on, fresh, gs, run, layers, s_obj]
          runLog,  \* RunLog: [run_id, skips, pinned]
          sheet,   \* what each client looks at: [run_id, of]
          call,    \* the request of each client
          orders,    \* the commands the bridge sent, with the run they met (a ghost)
          chance   \* what may still happen

skipVars == <<machine, card, said, runLog, sheet, call, orders, chance>>
Idle == [at |-> "rest", kind |-> None, ids |-> {}, run_id |-> 0, of |-> None, stop |-> FALSE]

SkipInit ==
    /\ chance \in SkipWorlds
    /\ card \in Contents
    /\ machine = [gs |-> "IDLE", run |-> 0, of |-> None, gone |-> {}]
    /\ said = [on |-> TRUE, fresh |-> TRUE, gs |-> "IDLE", run |-> 0, layers |-> 0, s_obj |-> {}]
    /\ runLog = [run_id |-> 1, skips |-> {}, pinned |-> None]
    /\ sheet = [c \in Clients |-> [run_id |-> 0, of |-> None]]
    /\ call = [c \in Clients |-> Idle]
    /\ orders = {}

May(what) == chance[what] > 0 /\ chance' = [chance EXCEPT ![what] = @ - 1]

------------------------------------------------------------------------------
(* The printer, its reports, and the RunLog that follows them.              *)

Heard == said.on /\ said.fresh => said.gs = machine.gs /\ said.run = machine.run
Machine(new) == Heard /\ machine' = new /\ UNCHANGED <<said, runLog, sheet, call, orders>>
\* A command that was judged waits for the link (5 s), and a stop for the dispatch lock, which
\* may be held for an upload: with chance.late a print may begin while one waits, or before the
\* skip is remembered.
StartsRun == /\ machine.gs \in {"IDLE", "FINISH"} /\ May("runs")
             /\ chance.late > 0 \/ \A c \in Clients : call[c].at \notin {"sending", "sent"}
             /\ Machine([gs |-> "RUNNING", run |-> machine.run + 1, of |-> card, gone |-> {}])
             /\ UNCHANGED card
Finishes == machine.gs \in SKIP_STATES /\ Machine([machine EXCEPT !.gs = "FINISH"]) /\ UNCHANGED <<card, chance>>
Pauses == /\ machine.gs \in SKIP_STATES /\ May("pauses") /\ UNCHANGED card
          /\ Machine([machine EXCEPT !.gs = IF @ = "PAUSE" THEN "RUNNING" ELSE "PAUSE"])

\* The file of that name is replaced. Before it was read during this print only the layer
\* count tells the two apart (layer_reason: a namesake "almost always differs").
Replaces(c) ==
    /\ c # card /\ May("replaces") /\ card' = c
    /\ machine.gs \in SKIP_STATES /\ LayersOf[c] = LayersOf[machine.of]
         => runLog.pinned # None /\ said.fresh /\ said.run = machine.run
    /\ UNCHANGED <<machine, said, runLog, sheet, call, orders>>

Forgets == [runLog EXCEPT !.skips = {}, !.pinned = None]
NewRun == [Forgets EXCEPT !.run_id = @ + 1]

\* _handle_report(), _check_gap() for the first after a reconnect, _emit_named_events().
Reports ==
    /\ said.on
    /\ LET now == [on |-> TRUE, fresh |-> TRUE, gs |-> machine.gs, run |-> machine.run,
                   layers |-> IF machine.run = 0 THEN 0 ELSE LayersOf[machine.of], s_obj |-> machine.gone]
           edge == now.gs # said.gs /\ ({now.gs, said.gs} \cap SKIP_STATES = {} \/ ~ {now.gs, said.gs} \subseteq SKIP_STATES)
       IN  /\ now # said /\ said' = now
           /\ \E further \in BOOLEAN :                    \* another print is as far as the lost one
                (further => chance.further > 0) /\
                LET same == now.gs \in SKIP_STATES /\ now.layers = said.layers
                            /\ (now.run # said.run => further)
                    kept == IF said.fresh \/ same THEN runLog ELSE Forgets
                IN  runLog' = IF edge THEN [Forgets EXCEPT !.run_id = kept.run_id + 1] ELSE kept
    /\ UNCHANGED <<machine, card, sheet, call, orders, chance>>
LinkDrops == /\ said.on /\ May("drops") /\ said' = [said EXCEPT !.on = FALSE]
             /\ UNCHANGED <<machine, card, runLog, sheet, call, orders>>
Reconnects ==                                    \* _handle_connected()
    /\ ~ said.on /\ said' = [said EXCEPT !.on = TRUE, !.fresh = FALSE]
    /\ runLog' = [runLog EXCEPT !.run_id = @ + 1]
    /\ UNCHANGED <<machine, card, sheet, call, orders, chance>>
\* A skip the printer does not echo within PENDING_S is no longer counted.
Expires ==
    /\ May("slow") /\ runLog.skips # {} /\ runLog' = [runLog EXCEPT !.skips = {}]
    /\ UNCHANGED <<machine, card, said, sheet, call, orders>>

------------------------------------------------------------------------------
(* GET: the job is read from the card, pinned, and shown.                   *)

Step(c, to) == call' = [call EXCEPT ![c] = to]
Rests(c) == Step(c, Idle) /\ UNCHANGED <<machine, card, said, runLog, sheet, orders>>
Loads(c) == [call[c] EXCEPT !.at = "reading", !.run_id = runLog.run_id]

\* With chance.early a sheet may be asked for between a reconnection and the first report.
Known == said.fresh \/ chance.early > 0
Asks(c) ==
    /\ call[c].at = "rest" /\ c \in chance.who /\ Known /\ May("asks") /\ machine.run > 0
    /\ Step(c, [Loads(c) EXCEPT !.kind = "get"])
    /\ UNCHANGED <<machine, card, said, runLog, sheet, orders>>
Reads(c) ==                                      \* _source()
    /\ call[c].at = "reading" /\ Step(c, [call[c] EXCEPT !.at = "read", !.of = card])
    /\ UNCHANGED <<machine, card, said, runLog, sheet, orders, chance>>

FreshState == IF said.fresh THEN said.gs ELSE None
Pinning(c) == call[c].run_id = runLog.run_id /\ FreshState \in SKIP_STATES
Pins(c) ==                                       \* the rest of _load()
    /\ call[c].at = "read" /\ UNCHANGED <<machine, card, said, orders, chance>>
    /\ runLog' = IF Pinning(c) /\ runLog.pinned = None THEN [runLog EXCEPT !.pinned = call[c].of] ELSE runLog
    /\ IF Pinning(c) /\ runLog.pinned \notin {None, call[c].of} THEN Step(c, Idle) /\ UNCHANGED sheet
       ELSE IF call[c].kind = "get" THEN
            /\ Step(c, Idle) /\ sheet' = [sheet EXCEPT ![c] = [run_id |-> call[c].run_id, of |-> call[c].of]]
       ELSE Step(c, [call[c] EXCEPT !.at = "judged"]) /\ UNCHANGED sheet

------------------------------------------------------------------------------
(* POST: under the printer's lock, the job is read again and judged.        *)

Skipped == said.s_obj \cup runLog.skips
EchoedOnly == said.s_obj
Counted == Skipped
LockFree == \A c \in Clients : call[c].kind # "post" \/ call[c].at = "rest"

Posts(c) ==
    /\ call[c].at = "rest" /\ sheet[c].of # None /\ LockFree /\ Known /\ May("asks")
    /\ said.on /\ said.gs \in SKIP_STATES
    /\ \E ids \in SUBSET Objects \ {{}}, stop \in BOOLEAN :
         Step(c, [Loads(c) EXCEPT !.kind = "post", !.ids = ids, !.stop = stop])
    /\ UNCHANGED <<machine, card, said, runLog, sheet, orders>>

\* The identity the client saw, the job just read and the print as it is now are the same.
Agrees(c) == /\ sheet[c] = [run_id |-> call[c].run_id, of |-> call[c].of]
             /\ call[c].run_id = runLog.run_id
\* plan(): the action the selection asks for.
Stops(c) == Objects \subseteq (Counted \cup call[c].ids)
Judges(c) ==
    /\ call[c].at = "judged"
    /\ \/ /\ said.on /\ said.gs \in SKIP_STATES /\ Agrees(c)
          /\ said.layers = LayersOf[call[c].of]
          /\ call[c].ids \cap Counted = {} /\ call[c].stop = Stops(c)
          /\ Step(c, [call[c] EXCEPT !.at = "sending"])
       \/ Step(c, Idle)
    /\ UNCHANGED <<machine, card, said, runLog, sheet, orders, chance>>

Command(c) == [ids |-> call[c].ids, stop |-> call[c].stop, of |-> call[c].of, run |-> machine.run,
               met |-> machine.of, left |-> Objects \ machine.gone, running |-> machine.gs \in SKIP_STATES]
Publishes(c) ==                                  \* send_raw()
    /\ call[c].at = "sending"
    /\ IF ~ said.on THEN Rests(c) /\ UNCHANGED chance
       ELSE /\ Step(c, [call[c] EXCEPT !.at = "sent"]) /\ orders' = orders \cup {Command(c)}
            /\ machine' = IF machine.gs \notin SKIP_STATES THEN machine
                          ELSE IF call[c].stop THEN [machine EXCEPT !.gs = "FINISH"]
                          ELSE [machine EXCEPT !.gone = @ \cup call[c].ids]
            /\ UNCHANGED <<card, said, runLog, sheet, chance>>
Remembers(c) ==                                    \* RunLog.sent(), once the publish returned
    /\ call[c].at = "sent" /\ Step(c, Idle)
    /\ runLog' = [runLog EXCEPT !.skips = @ \cup (IF call[c].stop THEN {} ELSE call[c].ids)]
    /\ UNCHANGED <<machine, card, said, sheet, orders, chance>>

SkipNext ==
    \/ StartsRun \/ Finishes \/ Pauses \/ Reports \/ LinkDrops \/ Reconnects \/ Expires
    \/ \E c \in Contents : Replaces(c)
    \/ \E c \in Clients : Asks(c) \/ Reads(c) \/ Pins(c) \/ Posts(c) \/ Judges(c) \/ Publishes(c) \/ Remembers(c)
SkipSpec == SkipInit /\ [][SkipNext]_skipVars

------------------------------------------------------------------------------
(* Properties.                                                              *)

\* What a print is told to skip was picked from the very content it runs: no reconnect, no
\* new print of the same name and no replaced file makes a skip meet another plate.
SkipMeetsItsPlate == \A s \in orders : s.running => s.of = s.met

\* Skips never empty a plate: the request that would is a stop, which its client confirmed.
NeverEmptied == \A s \in orders : s.running /\ ~ s.stop => ~ s.left \subseteq s.ids

\* A stop is sent only for a selection that leaves nothing of the print.
StopLeavesNothing == \A s \in orders : s.running /\ s.stop => s.left \subseteq s.ids

SkipSound == SkipMeetsItsPlate /\ NeverEmptied /\ StopLeavesNothing
=============================================================================
