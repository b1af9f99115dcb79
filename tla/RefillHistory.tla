---------------------------- MODULE RefillHistory ----------------------------
(***************************************************************************)
(* The record of AMS handoffs of one print (service/auto_refill.py), from the      *)
(* printer's notices or, when none came, inferred from the tray; and the journal   *)
(* that carries it and the faults over a restart (service/diagnostic_journal.py).  *)
(* It decides how a print's consumption is split over spools.                      *)
(*                                                                         *)
(* Every print has an identity of its own (a print repeated under one name is not  *)
(* modelled), and the PREPARE phase is part of "idle".                            *)
(***************************************************************************)
EXTENDS Naturals, SequencesExt

CONSTANTS Trays, Primary, Backup,     \* trays; the refill group's two
          InferFrames,                \* reports on the backup before a handoff is inferred
          HistoryLimits               \* bounds: [prints, moves, layers, skips, restarts, stale, cold, unseen]

VARIABLES world,      \* the printer: [print, state, tray, layer, stage, notice]
          ran,        \* the handoffs of the current print, as they happened: sequence of [from, layer]
          moved,      \* per tray, how often this print left it
          shown,      \* the trays whose success notice is of this print
          fresh,      \* the last report told all of world
          heard,      \* the last merged report, NoReport at first
          rows,       \* AutoRefillHistory.transitions
          seen,       \* the notices of the last report
          on,         \* the tray that fed when it last plainly printed, 0: unknown
          candidate,  \* the inference in progress: [layer, frames], frames 0: none
          group,      \* the owner's refill group is known
          restored,   \* the journal was compared with a report
          saved,      \* what the journal holds: NothingSaved, or [print, state, layer, tray, rows, seen]
          disk,       \* what is in its file
          left        \* what is left of the bounds

historyVars == <<world, ran, moved, shown, fresh, heard, rows, seen, on, candidate, group, restored, saved, disk, left>>
Telling == <<heard, rows, seen, on, candidate, restored, saved, disk>>
Silent == [s \in Trays |-> "none"]
NoReport == [print |-> 0, state |-> "none", tray |-> 0, layer |-> 0, stage |-> "none", notice |-> Silent]
NothingSaved == [print |-> 0, state |-> "none", layer |-> 0, tray |-> 0, rows |-> <<>>, seen |-> Silent]
NoCandidate == [layer |-> 0, frames |-> 0]
Active == {"RUNNING", "PAUSE"}
HistoryInit ==
    /\ world = [NoReport EXCEPT !.state = "idle", !.stage = "other", !.tray = Primary]
    /\ ran = <<>> /\ moved = [s \in Trays |-> 0] /\ shown = {} /\ fresh = FALSE /\ heard = NoReport /\ rows = <<>> /\ seen = Silent
    /\ on = 0 /\ candidate = NoCandidate /\ group = FALSE /\ restored = FALSE
    /\ saved = NothingSaved /\ disk = NothingSaved /\ left \in HistoryLimits
Uses(what) == left[what] > 0 /\ left' = [left EXCEPT ![what] = @ - 1]

------------------------------------------------------------------------------
(* The printer.  A change normally comes in a report of its own; a disconnection   *)
(* (skips) lets several pass.                                                    *)

Turns(next, cost) ==
    /\ \/ fresh /\ (IF cost = "free" THEN UNCHANGED left ELSE Uses(cost))
       \/ ~ fresh /\ left.skips > 0 /\ (cost # "free" => left[cost] > 0)
          /\ left' = [w \in DOMAIN left |-> IF w \in {"skips", cost} THEN left[w] - 1 ELSE left[w]]
    /\ world' = next /\ fresh' = FALSE /\ UNCHANGED <<Telling, group>>
Same == UNCHANGED <<ran, moved, shown>>
\* A success shown again, of which no report told that it had gone: cannot be known (unseen).
Anew(s) == saved.seen[s] # "completed" \/ left.unseen > 0
Succeeding(s) == world.notice[s] = "switching" /\ Anew(s)
Starts == /\ world.state = "idle" /\ ran' = <<>> /\ shown' = {} /\ moved' = [s \in Trays |-> 0]
          /\ \E s \in Trays : Turns([world EXCEPT !.print = @ + 1, !.state = "RUNNING", !.layer = 1, !.tray = s, !.stage = "printing"], "prints")
NextLayer == /\ world.state = "RUNNING" /\ world.stage = "printing" /\ Turns([world EXCEPT !.layer = @ + 1], "layers") /\ Same
\* The tray runs out, with or without a notice.  A multicolour print leaves it likewise.
RunsOut == /\ world.state = "RUNNING" /\ world.stage = "printing"
           /\ \E n \in {world.notice[world.tray], "switching"} :
                Turns([world EXCEPT !.stage = "empty", !.notice[world.tray] = n], "moves") /\ Same
Feeds == /\ world.stage \in {"empty", "other colour"} /\ world.state = "RUNNING"
         /\ moved' = [moved EXCEPT ![world.tray] = @ + 1]
         /\ ran' = IF world.stage = "empty" THEN Append(ran, [from |-> world.tray, layer |-> world.layer]) ELSE ran
         /\ \E s \in Trays \ {world.tray} : \E n \in {world.notice[world.tray], "completed"} :
              /\ shown' = (IF n # world.notice[world.tray] THEN shown \cup {world.tray} ELSE shown)
              /\ n # world.notice[world.tray] => Succeeding(world.tray) /\ world.stage = "empty"
              /\ Turns([world EXCEPT !.tray = s, !.stage = IF @ = "empty" THEN "fed" ELSE "recoloured", !.notice[world.tray] = n], "free")
Recolours == /\ world.state = "RUNNING" /\ world.stage = "printing" /\ Turns([world EXCEPT !.stage = "other colour"], "moves") /\ Same
\* The success may be told before the tray, with it or after it.
Succeeds(s) == /\ Succeeding(s) /\ world.stage \in {"empty", "fed"} /\ world.state = "RUNNING"
               /\ (world.stage = "empty" <=> world.tray = s)
               /\ shown' = shown \cup {s} /\ UNCHANGED <<ran, moved>>
               /\ Turns([world EXCEPT !.notice[s] = "completed"], "free")
Prints == /\ world.stage \in {"fed", "recoloured"} /\ (\A s \in Trays : world.notice[s] # "switching")
          /\ Turns([world EXCEPT !.stage = "printing"], "free") /\ Same
Clears(s) == /\ world.notice[s] # "none" /\ world.stage = "printing" /\ Same
             /\ Turns([world EXCEPT !.notice[s] = "none"], "free")
\* The notice of a handoff comes when the print is already going on.
Belated(s) == /\ world.notice[s] = "none" /\ Anew(s) /\ s \notin shown /\ world.state = "RUNNING" /\ world.stage = "printing"
              /\ (\E i \in DOMAIN ran : ran[i].from = s) /\ shown' = shown \cup {s} /\ UNCHANGED <<ran, moved>>
              /\ Turns([world EXCEPT !.notice[s] = "completed"], "free")
Pauses == /\ world.state \in Active /\ world.stage = "printing" /\ Same
          /\ Turns([world EXCEPT !.state = IF @ = "PAUSE" THEN "RUNNING" ELSE "PAUSE"], "free")
\* A success notice outlives its print, a switch in progress does not.
Ends == /\ world.state = "RUNNING" /\ world.stage \notin {"fed", "recoloured"} /\ Same
        /\ Turns([world EXCEPT !.state = "idle", !.stage = "other",
                               !.notice = [s \in Trays |-> IF @[s] = "switching" THEN "none" ELSE @[s]]], "free")

------------------------------------------------------------------------------
(* A report (PrinterService._merge calls restore(), update() and update()).        *)

NewRun(before, now) == /\ before # NoReport
                       /\ \/ now.state = "RUNNING" /\ before.state = "idle"
                          \/ before.print # 0 /\ now.print # before.print
Row(s, now, to, status, inferred, layer) ==
    [from |-> s, to |-> to, status |-> status, layer |-> layer, inferred |-> inferred]
LastOf(history, Is(_)) == LET is == {i \in DOMAIN history : Is(history[i])} IN IF is = {} THEN 0 ELSE Max(is)
Least(a, b) == IF b = 0 \/ a <= b THEN a ELSE b
Replaced(history, s) == SelectSeq(history, LAMBDA r : ~ (r.from = s /\ r.inferred))
KeptBeside(history, s) == history
LateNotice(history, s) == Replaced(history, s)
\* One notice that was not there, or not in this form, in the last report.
Announced(history, s, before, now) ==
    LET status  == now.notice[s]
        pending == LastOf(LateNotice(history, s), LAMBDA r : r.from = s /\ r.status = "switching")
        guessed == LastOf(history, LAMBDA r : r.from = s /\ r.inferred)
        known   == now.tray # s /\ (before.tray = s \/ Cardinality({t \in Trays : now.notice[t] # "none"}) = 1)
        row     == Row(s, now, IF status = "completed" /\ known THEN now.tray ELSE 0, status, FALSE,
                       IF guessed = 0 THEN now.layer ELSE Least(now.layer, history[guessed].layer))
        rest    == LateNotice(history, s)
    IN IF pending # 0 /\ status = "completed" THEN [rest EXCEPT ![pending] = [row EXCEPT !.layer = rest[pending].layer]]
       ELSE Append(rest, row)
\* The success was known; the tray may come later.
Directed(history, s, before, now) ==
    LET latest == LastOf(history, LAMBDA r : r.from = s)
    IN IF latest # 0 /\ before.tray = s /\ now.tray # s /\ history[latest].status = "completed" /\ history[latest].to = 0
       THEN [history EXCEPT ![latest].to = now.tray] ELSE history
Noticed(history, known, before, now) ==
    FoldLeft(LAMBDA h, s : IF now.notice[s] = "none" THEN h
                           ELSE IF known[s] = now.notice[s] THEN Directed(h, s, before, now)
                           ELSE Announced(h, s, before, now),
             history, SetToSortSeq(Trays, LAMBDA a, b : a < b))
Interrupted(history) == [i \in DOMAIN history |->
                           IF history[i].status = "switching" THEN [history[i] EXCEPT !.status = "interrupted"] ELSE history[i]]
\* The auto-refill bit of home_flag is taken as set: where it is not the code infers nothing.
Infer(history, now, was, c) ==
    LET out  == ~ group \/ now.state # "RUNNING" \/ now.tray # Backup \/ now.stage # "printing"
                \/ \E i \in DOMAIN history : history[i].from = Primary
        next == [c EXCEPT !.frames = IF @ = InferFrames THEN @ ELSE @ + 1]
    IN IF out THEN rows' = history /\ candidate' = NoCandidate
       ELSE IF c.frames = 0
            THEN rows' = history /\ candidate' = IF was = Primary THEN [layer |-> now.layer, frames |-> 1] ELSE NoCandidate
       ELSE IF next.frames >= InferFrames /\ now.layer > c.layer
            THEN rows' = Append(history, Row(Primary, now, Backup, "completed", TRUE, c.layer)) /\ candidate' = NoCandidate
       ELSE rows' = history /\ candidate' = next
\* AutoRefillHistory.update
Updates(before, now, history, known) ==
    LET new   == NewRun(before, now)
        h     == IF new THEN <<>> ELSE history
        c     == IF new \/ now.state # "RUNNING" THEN NoCandidate ELSE candidate
        k     == IF new THEN [s \in Trays |-> IF now.notice[s] = before.notice[s] THEN now.notice[s] ELSE "none"] ELSE known
        was   == IF new THEN 0 ELSE on
    IN IF now.state \notin Active
       THEN rows' = Interrupted(h) /\ seen' = k /\ candidate' = c /\ on' = was
       ELSE /\ seen' = now.notice /\ on' = (IF now.stage = "printing" THEN now.tray ELSE was)
            /\ Infer(Noticed(h, k, before, now), now, was, c)

\* The journal: what it holds is the print's if its identity, state and layer fit.
SamePrint(now) == /\ now.print # 0 /\ now.print = saved.print /\ now.layer >= saved.layer
                  /\ \/ saved.state \in Active /\ now.state \in Active
                     \/ saved.state = "idle" /\ now.state = "idle"
SavedBaseline == saved.seen
NoBaseline == Silent
Baseline == SavedBaseline
\* A first report may lack the identity: with a print active it decides nothing.
Undecided(now, full) == ~ full /\ saved # NothingSaved /\ now.state \in Active
Carried(now) == [NoReport EXCEPT !.print = now.print, !.state = saved.state, !.tray = saved.tray]
\* It is written when a row changed, or ten seconds after the last time.
Journals(now) ==
    /\ saved' = [print |-> now.print, state |-> now.state, layer |-> now.layer, tray |-> now.tray, rows |-> rows', seen |-> seen']
    /\ \/ disk' = saved' /\ UNCHANGED left
       \/ saved.rows = rows' /\ Uses("stale") /\ UNCHANGED disk
Reports(full) ==
    /\ fresh => heard # world
    /\ full \/ (~ restored /\ left.skips > 0)
    /\ LET now == IF full THEN world ELSE [world EXCEPT !.print = 0]
           fit == ~ restored /\ ~ Undecided(now, full) /\ saved # NothingSaved /\ SamePrint(now)
       IN /\ ~ fit /\ ~ restored /\ ~ Undecided(now, full) /\ now.state \in Active => left.cold > 0
          /\ IF fit THEN Updates(Carried(now), now, saved.rows, Baseline) ELSE Updates(heard, now, rows, seen)
          /\ restored' = (restored \/ ~ Undecided(now, full))
          /\ IF Undecided(now, full) THEN UNCHANGED <<saved, disk, left>> ELSE Journals(now)
          /\ heard' = now /\ fresh' = full
    /\ UNCHANGED <<world, ran, moved, shown, group>>
\* Another report of the same: only the inference counts them.
Repeats == /\ fresh /\ candidate.frames > 0 /\ Updates(heard, world, rows, seen) /\ Journals(world)
           /\ heard' = world /\ UNCHANGED <<world, ran, moved, shown, fresh, group, restored>>
Groups == /\ ~ group /\ group' = TRUE /\ UNCHANGED <<world, ran, moved, shown, fresh, Telling, left>>
Restarts ==
    /\ heard # NoReport /\ Uses("restarts") /\ heard' = NoReport /\ rows' = <<>> /\ seen' = Silent /\ on' = 0 /\ candidate' = NoCandidate
    /\ group' = FALSE /\ restored' = FALSE /\ saved' = disk /\ fresh' = FALSE /\ UNCHANGED <<world, ran, moved, shown, disk>>

HistoryNext ==
    \/ Starts \/ NextLayer \/ RunsOut \/ Feeds \/ Recolours \/ Prints \/ Pauses \/ Ends \/ (\E s \in Trays : Succeeds(s) \/ Clears(s) \/ Belated(s))
    \/ (\E full \in BOOLEAN : Reports(full)) \/ Repeats \/ Groups \/ Restarts
HistorySpec == HistoryInit /\ [][HistoryNext]_historyVars

------------------------------------------------------------------------------
(* Properties, once the last report told all.                                   *)

Told == fresh /\ restored /\ world.state \in Active
Count(S, s) == Cardinality({i \in DOMAIN S : S[i].from = s})
Finished(kinds) == SelectSeq(rows, LAMBDA r : r.status = "completed" /\ r.inferred \in kinds)
\* No tray is charged more handoffs than it had: a restart, a late notice or a code left from an
\* earlier print adds none, and an inferred one is at least a change of tray.
NoneTwice == Told => \A s \in Trays :
                /\ Count(Finished({FALSE}), s) <= Count(ran, s) + (IF world.stage = "empty" THEN 1 ELSE 0)
                /\ Count(Finished({TRUE, FALSE}), s) <= moved[s] + (IF world.stage = "empty" THEN 1 ELSE 0)
\* A success the printer still shows, of this print, has its row.
NoneMissed == Told => \A s \in Trays :
                 world.notice[s] = "completed" /\ s \in shown => Count(Finished({FALSE}), s) > 0
\* A print's rows never place a runout before the layer of the first.
PlacedAfter == Told => \A i \in DOMAIN rows : \A j \in DOMAIN ran :
                 ~ rows[i].inferred /\ rows[i].from = ran[j].from /\ Count(ran, rows[i].from) = 1 => rows[i].layer >= ran[j].layer
HistorySound == NoneTwice /\ NoneMissed /\ PlacedAfter
=============================================================================
