----------------------------- MODULE MCDevices ------------------------------
(***************************************************************************)
(* The printer as the bridge sees and commands it, for TLC: the link and    *)
(* the merged state, the control routes, skipped objects, the record of     *)
(* refills, the spools in their slots and what a slicer is shown of them.   *)
(* The parts share no state; a behaviour is one of one part.                *)
(***************************************************************************)
EXTENDS Naturals, FiniteSets, Sequences, TLC

CONSTANTS Runs, Title, Layers, Editors, MaxSession, MaxQueue, LinkWorlds, Clients, Ops, FreshFor,
          WaitFor, Spacing, ControlLimits, Objects, Contents, LayersOf, SkipWorlds, Trays, Primary,
          Backup, InferFrames, HistoryLimits, Slots, Spools, Tagged, Chemistry, SeatWorlds, Labels,
          LabelOf, Records, RecordOf, Viewers, DisplayLimits

VARIABLE part       \* the part a behaviour is of
VARIABLES printer, link, handle, svc, pin, trust, req, listed, queue, view, told, eventLog, world
VARIABLES clock, controlPrinter, idleAt, linked, heard, arriving, asked, pushed, crowded, request,
          sent, position, rehomed, refused, spare
VARIABLES machine, card, said, runLog, sheet, call, orders, chance
VARIABLES refillsWorld, ran, moved, shown, fresh, refillsHeard, rows, seen, on, candidate, group,
          restored, saved, disk, left
VARIABLES tray, read, declared, frame, unloaded, seats, remote, history, pass, adopter,
          seatsRequest, lastly
VARIABLES bay, online, displayHeard, losses, seat, binding, distrusted, display, refresh, screen,
          spent

Link == INSTANCE PrinterLink
Ctl == INSTANCE Control WITH printer <- controlPrinter
Skip == INSTANCE SkipObjects
History == INSTANCE RefillHistory WITH world <- refillsWorld, heard <- refillsHeard
Seat == INSTANCE SpoolSeats WITH request <- seatsRequest
Display == INSTANCE SlotDisplay WITH heard <- displayHeard

(* A part that is not chosen rests. *)
LinkRests == printer = 0 /\ link = 0 /\ handle = 0 /\ svc = 0 /\ pin = 0 /\ trust = 0 /\ req = 0 /\
    listed = 0 /\ queue = 0 /\ view = 0 /\ told = 0 /\ eventLog = 0 /\ world = 0
CtlRests == clock = 0 /\ controlPrinter = 0 /\ idleAt = 0 /\ linked = 0 /\ heard = 0 /\ arriving = 0
    /\ asked = 0 /\ pushed = 0 /\ crowded = 0 /\ request = 0 /\ sent = 0 /\ position = 0 /\ rehomed
    = 0 /\ refused = 0 /\ spare = 0
SkipRests == machine = 0 /\ card = 0 /\ said = 0 /\ runLog = 0 /\ sheet = 0 /\ call = 0 /\ orders
    = 0 /\ chance = 0
HistoryRests == refillsWorld = 0 /\ ran = 0 /\ moved = 0 /\ shown = 0 /\ fresh = 0 /\ refillsHeard =
    0 /\ rows = 0 /\ seen = 0 /\ on = 0 /\ candidate = 0 /\ group = 0 /\ restored = 0 /\ saved = 0
    /\ disk = 0 /\ left = 0
SeatRests == tray = 0 /\ read = 0 /\ declared = 0 /\ frame = 0 /\ unloaded = 0 /\ seats = 0 /\
    remote = 0 /\ history = 0 /\ pass = 0 /\ adopter = 0 /\ seatsRequest = 0 /\ lastly = 0
DisplayRests == bay = 0 /\ online = 0 /\ displayHeard = 0 /\ losses = 0 /\ seat = 0 /\ binding = 0
    /\ distrusted = 0 /\ display = 0 /\ refresh = 0 /\ screen = 0 /\ spent = 0
linkVars == <<printer, link, handle, svc, pin, trust, req, listed, queue, view, told, eventLog,
             world>>
controlVars == <<clock, controlPrinter, idleAt, linked, heard, arriving, asked, pushed, crowded,
             request, sent, position, rehomed, refused, spare>>
skipVars == <<machine, card, said, runLog, sheet, call, orders, chance>>
refillsVars == <<refillsWorld, ran, moved, shown, fresh, refillsHeard, rows, seen, on, candidate,
             group, restored, saved, disk, left>>
seatsVars == <<tray, read, declared, frame, unloaded, seats, remote, history, pass, adopter,
             seatsRequest, lastly>>
displayVars == <<bay, online, displayHeard, losses, seat, binding, distrusted, display, refresh,
             screen, spent>>

PartInit ==
   \/ part = "link" /\ Link!LinkInit /\ CtlRests /\ SkipRests /\ HistoryRests /\ SeatRests /\
      DisplayRests
   \/ part = "control" /\ Ctl!ControlInit /\ LinkRests /\ SkipRests /\ HistoryRests /\ SeatRests /\
      DisplayRests
   \/ part = "skip" /\ Skip!SkipInit /\ LinkRests /\ CtlRests /\ HistoryRests /\ SeatRests /\
      DisplayRests
   \/ part = "refills" /\ History!HistoryInit /\ LinkRests /\ CtlRests /\ SkipRests /\ SeatRests /\
      DisplayRests
   \/ part = "seats" /\ Seat!SeatInit /\ LinkRests /\ CtlRests /\ SkipRests /\ HistoryRests /\
      DisplayRests
   \/ part = "display" /\ Display!DisplayInit /\ LinkRests /\ CtlRests /\ SkipRests /\ HistoryRests
      /\ SeatRests

PartNext ==
    \/ part = "link" /\ Link!LinkNext
       /\ UNCHANGED <<part, controlVars, skipVars, refillsVars, seatsVars, displayVars>>
    \/ part = "control" /\ Ctl!ControlNext
       /\ UNCHANGED <<part, linkVars, skipVars, refillsVars, seatsVars, displayVars>>
    \/ part = "skip" /\ Skip!SkipNext
       /\ UNCHANGED <<part, linkVars, controlVars, refillsVars, seatsVars, displayVars>>
    \/ part = "refills" /\ History!HistoryNext
       /\ UNCHANGED <<part, linkVars, controlVars, skipVars, seatsVars, displayVars>>
    \/ part = "seats" /\ Seat!SeatNext
       /\ UNCHANGED <<part, linkVars, controlVars, skipVars, refillsVars, displayVars>>
    \/ part = "display" /\ Display!DisplayNext
       /\ UNCHANGED <<part, linkVars, controlVars, skipVars, refillsVars, seatsVars>>

PartSpec == PartInit /\ [][PartNext]_<<part, linkVars, controlVars, skipVars, refillsVars,
            seatsVars, displayVars>>

------------------------------------------------------------------------------
(* What may happen in a behaviour of each part, and how often. *)
MCTitle == [r \in Runs |-> IF r = 3 THEN "a" ELSE <<"a", "b">>[r]]
LinkWorld(prints, drops, edits, fault, cycles, certs1, pauses, recorded, under1) ==
    [under |-> under1, prints |-> prints, drops |-> drops, edits |-> edits, fault |-> fault, cycles |-> cycles,
     certs |-> certs1, pauses |-> pauses, rows |-> recorded, overlap |-> FALSE, partial |-> FALSE]
MCLinkWorlds == {LinkWorld(1, 1, 0, 0, 0, 0, 0, FALSE, TRUE), LinkWorld(0, 1, 0, 0, 0, 0, 1, TRUE, TRUE),
                 LinkWorld(1, 0, 0, 0, 1, 0, 0, TRUE, TRUE), LinkWorld(0, 0, 0, 1, 1, 0, 0, TRUE, TRUE),
                 LinkWorld(1, 0, 0, 0, 0, 0, 0, FALSE, FALSE), LinkWorld(0, 1, 1, 1, 0, 1, 0, FALSE, FALSE)}
MCControlLimits ==
  {[ticks |-> 3, changes |-> 1, drops |-> 1, requests |-> 2, reports |-> 1, slow |-> 0, torn |-> 0],
   [ticks |-> 2, changes |-> 2, drops |-> 0, requests |-> 2, reports |-> 1, slow |-> 0, torn |-> 0]}
MCTornLimits == {[ticks |-> 4, changes |-> 2, drops |-> 1, requests |-> 2, reports |-> 1, slow |-> 0, torn |-> 1]}
MCLayersOf == [c \in Contents |-> IF c = "other" THEN 2 ELSE 1]
SWorld(who, runs, asks, drops, replaces) ==
    [who |-> who, runs |-> runs, asks |-> asks, drops |-> drops, replaces |-> replaces,
     pauses |-> 1 - drops, slow |-> 0, late |-> 0, early |-> 0, further |-> 0]
MCSkipWorlds == {SWorld({"c", "d"}, 1, 3, 0, 0), SWorld({"c"}, 2, 4, 1, 0), SWorld({"c"}, 2, 2, 1, 2), SWorld({"c"}, 2, 2, 0, 1)}
ASSUME SkipAssumption == Skip!SkipConstants    \* what SendingProofs asks of the files' contents
MCHistoryLimits == {[prints |-> 2, moves |-> 2, layers |-> 1, skips |-> 0, restarts |-> 1, stale |-> 0, cold |-> 0, unseen |-> 0],
   [prints |-> 1, moves |-> 2, layers |-> 2, skips |-> 0, restarts |-> 1, stale |-> 0, cold |-> 0, unseen |-> 0],
   [prints |-> 2, moves |-> 1, layers |-> 2, skips |-> 1, restarts |-> 1, stale |-> 0, cold |-> 0, unseen |-> 0]}
MCChemistry == [s \in Spools |-> IF s = "petg" THEN "PETG" ELSE "PLA"]
SeatWorld(spools, slots, moves, asks) ==
    [spools |-> spools, slots |-> slots, moves |-> moves, asks |-> asks, lost |-> 0, drops |-> 0, rereads |-> 0,
     restarts |-> 0, fails |-> 0, defers |-> 0, archives |-> 0, down |-> 0, unseated |-> 0,
     gap |-> 0, slow |-> 0, stale |-> 0]
MCSeatWorlds ==
    {[SeatWorld({"bare", "twin"}, {"A"}, 3, 2) EXCEPT !.fails = 1],
     [SeatWorld({"bare", "tag"}, {"A"}, 3, 1) EXCEPT !.drops = 1],
     [SeatWorld({"bare", "petg"}, {"A"}, 3, 2) EXCEPT !.archives = 1],
     [SeatWorld({"tag"}, {"A"}, 2, 0) EXCEPT !.lost = 2, !.defers = 1, !.rereads = 1],
     [SeatWorld({"tag"}, {"A", "B"}, 3, 0) EXCEPT !.restarts = 1]}
MCLabelOf == [l \in Labels |-> IF l = "petg" THEN "PETG" ELSE "PLA"]
MCRecordOf == [r \in Records |-> "PLA"]
MCDisplayLimits == [turns |-> 2, drops |-> 1, outages |-> 1, puts |-> 1, seatings |-> 1]

------------------------------------------------------------------------------
(* Properties.                                                              *)

\* The printer's state: one session at a time, the start time is the shown print's, a reader that
\* caught up has the state there is, the log is what was told (service/printer.py); and what a
\* control request publishes was checked against a status as fresh as it promises.
PrinterSound == /\ part = "link" => Link!LinkSound
                /\ part = "control" => Ctl!ControlSound

\* A control request is published only where the printer was idle a moment ago (api/capabilities.py).
RecentlyIdle == part = "control" => Ctl!RecentlyIdle

\* Objects are skipped on the plate the request was about, and never all of them.
SkipSound == part = "skip" => Skip!SkipSound

\* A handoff of one tray to another is recorded once, at the layer it was seen, over restarts too.
HistorySound == part = "refills" => History!HistorySound

\* A spool is assigned to the slot it is in and created once; a slicer is shown no spool that
\* nothing vouches for any more.
SpoolsSound == /\ part = "seats" => Seat!SeatsSound
               /\ part = "display" => Display!DisplaySound
=============================================================================
