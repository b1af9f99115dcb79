------------------------------- MODULE Refill -------------------------------
(***************************************************************************)
(* Colour aliases for AMS backup: to make one slot continue another, the    *)
(* bridge declares both as the same filament on the printer and must later  *)
(* put each back (refill.py, service/refill_adapter.py,                     *)
(* service/refill_reports.py, and the routes of api/inventory_refill.py).   *)
(*                                                                         *)
(* A source generation is only ever compared with the one a step stored, so *)
(* a step carries same: its generation is the slot's current one; and old:  *)
(* an earlier run of the bridge issued it.  Reports are complete pushes; a  *)
(* report that has aged 30 s shows no slot at all.  A drive's steps are     *)
(* split at every save, where the bridge may crash.                         *)
(***************************************************************************)
EXTENDS Naturals, Sequences, FiniteSets

CONSTANTS Wires, Spools, NoSpool,
          Tagged,        \* the spools with an RFID tag
          Seats,         \* the loadings of the AMS at the start: [Wires -> tray]
          Filaments, Colours,
          LateLands,     \* may a write, or the report of it, come after its 20 s are over?
          Troubles       \* how often each event of the world may happen (bounds)

Events == {"declare", "unload", "load", "loss", "silence", "print", "crash", "timeout"}

Declarations == [filament : Filaments, colour : Colours]
Trays == [spool : Spools \cup {NoSpool}, decl : Declarations]

ASSUME RefillAssumption ==
    /\ NoSpool \notin Spools /\ Tagged \subseteq Spools /\ Seats \subseteq [Wires -> Trays]
    /\ Troubles \subseteq [Events -> Nat] /\ LateLands \in BOOLEAN

SETTLED == {"restored", "released", "released_empty"}
StepStates == {"pending", "applying", "owned", "restoring", "uncertain", "conflict"} \cup SETTLED

VARIABLES tray,       \* the AMS: the spool in each slot and how the printer has it declared
          busy,       \* the printer runs a print
          seen,       \* RefillReports.known, last_presence: each slot as last reported
          seenBusy,   \* RefillReports.state
          fresh,      \* connected, and the last report is at most 30 s old
          link,       \* the MQTT session is up
          first,      \* is the slot's generation the first of this run?
          expected,   \* RefillReports.expected: the declaration a send announced
          group,      \* the stored refill group
          drive,      \* the drive that holds controller._lock
          removal,    \* a DELETE .../backup request between its two critical sections
          attached,   \* the worker has made controller.note() hear the reports
          command,    \* the ams_filament_setting on its way to the printer
          budget,     \* what may still happen
          ours, theirs, sends  \* history: our alias is on the tray; a reported owner's
                               \* declaration is; writes sent since the owner last asked

amsVars == <<tray, busy>>
history == <<ours, theirs, sends>>
reportVars == <<seen, seenBusy, fresh, link, first, expected>>
taskVars == <<drive, removal, attached>>
refillVars == <<tray, busy, seen, seenBusy, fresh, link, first, expected, group, drive,
                removal, attached, command, budget, ours, theirs, sends>>

Unseen == [spool |-> NoSpool, decl |-> CHOOSE d \in Declarations : TRUE]
NoDrive == [at |-> "none", by |-> "nobody", index |-> 0]
NoCommand == [at |-> "none"]
NotExpected == [is |-> FALSE, decl |-> Unseen.decl]
NoGroup == [enabled |-> FALSE, state |-> "disabled", steps |-> <<>>]
Locked == drive # NoDrive
Running == drive.at \in {"step", "send"}     \* a drive yields only while it waits for a readback
Spend(event) == budget[event] > 0 /\ budget' = [budget EXCEPT ![event] = @ - 1]

RefillInit ==
    /\ tray \in Seats /\ busy = FALSE
    /\ seen = [w \in Wires |-> Unseen] /\ seenBusy = TRUE /\ fresh = FALSE /\ link = TRUE
    /\ first = [w \in Wires |-> "unset"] /\ expected = [w \in Wires |-> NotExpected]
    /\ group = NoGroup /\ drive = NoDrive /\ removal = FALSE /\ attached = FALSE
    /\ command = NoCommand
    /\ budget \in Troubles
    /\ ours = [w \in Wires |-> FALSE] /\ theirs = [w \in Wires |-> "no"]
    /\ sends = [w \in Wires |-> 0]

------------------------------------------------------------------------------
(* What the latest report says (RefillReports.snapshot).                    *)

Shown(w) == fresh /\ seen[w].spool # NoSpool
Empty(w) == fresh /\ seen[w].spool = NoSpool
Editable(w) == seen[w].spool \notin Tagged
Idle == fresh /\ ~seenBusy
AnyEditable(s) == Editable(s.wire)
SameSource(s) == IF s.tagged THEN seen[s.wire].spool = s.spool
                             ELSE Editable(s.wire) /\ s.same

NothingToRestore(s) ==
    CASE Empty(s.wire) -> "released_empty"
      [] ~Empty(s.wire) /\ (s.state = "pending" \/ ~s.writes) -> "restored"
      [] OTHER -> "no"

ConflictSettled(steps) ==
    IF {steps[i].state : i \in DOMAIN steps} \subseteq SETTLED \cup {"conflict"}
    THEN "disabled" ELSE "restoration_pending"
RestoringState(steps) ==
    LET states == {steps[i].state : i \in DOMAIN steps}
    IN  CASE states \subseteq SETTLED -> "disabled"
          [] states \cap {"uncertain", "applying", "restoring"} # {} -> "needs_attention"
          [] OTHER -> "restoration_pending"

Status(g) ==
    LET states == {g.steps[i].state : i \in DOMAIN g.steps}
    IN  CASE ~g.enabled /\ states \subseteq SETTLED -> "disabled"
          [] states \cap {"uncertain", "conflict", "applying", "restoring"} # {} -> "needs_attention"
          [] ~g.enabled -> "restoration_pending"
          [] OTHER -> "pending"         \* pending or active: told apart only for the app


(* What the bridge does with every report: RefillController.note().  A step *)
(* an earlier run stored is re-adopted on a slot not seen to change; a      *)
(* removed backup's steps that need no write are settled.                   *)
WantedAs(s) == CASE s.state = "owned" -> {s.target}
                 [] s.state = "pending" -> {s.before}
                 [] s.state \in {"uncertain", "conflict"} -> {s.before, s.target}
                 [] OTHER -> {}

Readopts(s) ==
    /\ s.old /\ ~s.tagged
    /\ Shown(s.wire) /\ Editable(s.wire) /\ first[s.wire] = "first"
    /\ seen[s.wire].decl \in WantedAs(s)

Readopted(s) == IF Readopts(s) THEN [s EXCEPT !.same = TRUE, !.old = FALSE] ELSE s

SettledStep(s) ==
    IF s.state \in SETTLED \cup {"applying", "restoring"} \/ NothingToRestore(s) = "no"
    THEN s ELSE [s EXCEPT !.state = NothingToRestore(s)]

Noted(g) ==
    LET readopted == [i \in DOMAIN g.steps |-> Readopted(g.steps[i])]
        settled == [i \in DOMAIN g.steps |-> SettledStep(readopted[i])]
    IN  CASE g.enabled -> [g EXCEPT !.steps = readopted]
          [] ~g.enabled /\ settled # g.steps ->
                 [g EXCEPT !.steps = settled, !.state = RestoringState(settled)]
          [] OTHER -> g

------------------------------------------------------------------------------
(* Reports (RefillReports.observe).                                         *)

TagIn(t) == IF t.spool \in Tagged THEN t.spool ELSE NoSpool

\* A change that retires the slot's source generation (_invalidate): the tray left or
\* came, its tag changed, or it is declared other than before and than announced.
Retires(w) ==
    \/ NoSpool \in {tray[w].spool, seen[w].spool}
    \/ TagIn(tray[w]) # TagIn(seen[w])
    \/ tray[w].decl # seen[w].decl /\ expected[w] # [is |-> TRUE, decl |-> tray[w].decl]

Retired(g) ==
    [g EXCEPT !.steps = [i \in DOMAIN g.steps |->
                            [g.steps[i] EXCEPT !.same = g.steps[i].same /\ ~Retires(g.steps[i].wire)]]]

\* This run has seen the slot otherwise, or sees it empty.
ShowsChange(w) == Retires(w) /\ (first[w] # "unset" \/ tray[w].spool = NoSpool)

FirstAfter(w) ==
    CASE tray[w].spool = NoSpool -> IF first[w] = "first" THEN "later" ELSE first[w]
      [] first[w] = "unset" -> "first"
      [] OTHER -> IF Retires(w) THEN "later" ELSE first[w]


Reports ==
    /\ link /\ ~Running
    /\ seen' = tray /\ seenBusy' = busy /\ fresh' = TRUE
    /\ first' = [w \in Wires |-> FirstAfter(w)]
    /\ expected' = [w \in Wires |-> IF Retires(w) \/ expected[w].decl = tray[w].decl
                                    THEN NotExpected ELSE expected[w]]
    /\ theirs' = [w \in Wires |-> IF theirs[w] = "declared" /\ ShowsChange(w)
                                  THEN "reported" ELSE theirs[w]]
    /\ \E g \in {Retired(group)} : group' = IF Locked \/ ~attached THEN g ELSE Noted(g)'
    /\ UNCHANGED <<tray, busy, link, drive, removal, attached, command, budget, ours, sends>>

------------------------------------------------------------------------------
(* A drive (RefillController.drive).                                        *)

Step == group.steps[drive.index]
Desired(s) == IF group.enabled THEN s.target ELSE s.before
Expects(s) == IF group.enabled /\ s.state = "pending" THEN s.before ELSE s.target
Current(s) == seen[s.wire].decl
Achieved == IF group.enabled THEN "owned" ELSE "restored"
Waiting == IF group.enabled THEN "pending" ELSE "restoration_pending"


\* What only the owner may settle: nothing sends it again.
SentOnly(s) == s.state \in {"applying", "restoring"}
InDoubt(s) == s.state \in {"uncertain", "applying", "restoring"}

Path(s) ==      \* the early exits of one step, in their order
    IF ~group.enabled /\ s.state \in SETTLED THEN "skip"
    ELSE IF ~group.enabled /\ NothingToRestore(s) # "no" THEN "settle"
    ELSE IF InDoubt(s) \/ (group.enabled /\ s.state = "conflict")
         THEN "review"
    ELSE IF ~group.enabled /\ ~Idle THEN "busy"
    ELSE IF ~Shown(s.wire) \/ ~SameSource(s) THEN "conflict"
    ELSE IF Current(s) = Desired(s) /\ (group.enabled => s.state = "owned" \/ Expects(s) = Desired(s))
         THEN "achieved"
    ELSE IF Current(s) # Expects(s) \/ ~Editable(s.wire) THEN "conflict"
    ELSE IF ~Idle THEN "busy"
    ELSE "write"

Save(stepState, state) ==
    group' = [group EXCEPT !.steps[drive.index].state = stepState, !.state = state]
Onward == drive' = [drive EXCEPT !.at = "step", !.index = @ + 1] /\ UNCHANGED removal
Leave == drive' = NoDrive /\ removal' = (removal \/ drive.by = "remove")
LeaveOrOnward == IF group.enabled THEN Leave ELSE Onward

DriveStep ==
    /\ drive.at = "step" /\ drive.index \in DOMAIN group.steps
    /\ \/ Path(Step) = "skip" /\ Onward /\ UNCHANGED group
       \/ Path(Step) = "settle" /\ Onward /\ Save(NothingToRestore(Step), group.state)
       \/ Path(Step) = "review" /\ LeaveOrOnward /\ Save(Step.state, "needs_attention")
       \/ Path(Step) = "busy" /\ Leave /\ Save(Step.state, Waiting)
       \/ Path(Step) = "conflict" /\ LeaveOrOnward /\ Save("conflict", "needs_attention")
       \/ Path(Step) = "achieved" /\ Onward /\ Save(Achieved, group.state)
       \/ /\ Path(Step) = "write"
          /\ group' = [group EXCEPT !.steps[drive.index].state =
                                        IF group.enabled THEN "applying" ELSE "restoring",
                                    !.steps[drive.index].restores = ~group.enabled]
          /\ drive' = [drive EXCEPT !.at = "send"] /\ UNCHANGED removal
    /\ UNCHANGED <<amsVars, reportVars, attached, command, budget, history>>

\* PhysicalRefillAdapter.send reads the report once more and announces the change.
DriveSends ==
    /\ drive.at = "send"
    /\ Idle /\ Shown(Step.wire) /\ Editable(Step.wire)
    /\ expected' = [expected EXCEPT ![Step.wire] = [is |-> TRUE, decl |-> Desired(Step)]]
    /\ command' = [at |-> "sent", wire |-> Step.wire, decl |-> Desired(Step),
                    alias |-> group.enabled /\ tray[Step.wire].spool = seen[Step.wire].spool]
    /\ sends' = [sends EXCEPT ![Step.wire] = @ + 1]
    /\ drive' = [drive EXCEPT !.at = "wait"]
    /\ UNCHANGED <<amsVars, seen, seenBusy, fresh, link, first, group, removal, attached, budget, ours, theirs>>

NotSent ==
    /\ drive.at = "send"
    /\ ~(Idle /\ Shown(Step.wire) /\ Editable(Step.wire))
    /\ Save(IF group.enabled THEN "pending" ELSE "owned", Waiting) /\ Leave
    /\ UNCHANGED <<amsVars, reportVars, attached, command, budget, history>>

ReadBack == Shown(Step.wire) /\ Step.same /\ Current(Step) = Desired(Step)

DriveConfirms ==
    /\ drive.at = "wait" /\ ReadBack
    /\ Save(Achieved, "pending") /\ Onward
    /\ UNCHANGED <<amsVars, reportVars, attached, command, budget, history>>

Unanswered == IF LateLands THEN {command, NoCommand} ELSE {NoCommand}

\* The source changed, the link went, or the 20 s are over.
DriveGivesUp ==
    /\ drive.at = "wait" /\ ~ReadBack
    /\ \/ ~link /\ UNCHANGED budget
       \/ ~Step.same /\ UNCHANGED budget
       \/ command = NoCommand /\ tray[Step.wire].decl # Desired(Step) /\ UNCHANGED budget
       \/ (LateLands \/ command # NoCommand) /\ Spend("timeout")
    /\ Save("uncertain", "needs_attention") /\ Leave
    /\ command' \in Unanswered
    /\ UNCHANGED <<amsVars, reportVars, attached, history>>

DriveEnds ==
    /\ drive.at = "step" /\ drive.index \notin DOMAIN group.steps
    /\ group' = [group EXCEPT !.state = Status(group)] /\ Leave
    /\ UNCHANGED <<amsVars, reportVars, attached, command, budget, history>>

Drives(by) == drive' = [at |-> "step", by |-> by, index |-> 1]

------------------------------------------------------------------------------
(* The owner's requests (api/inventory_refill.py, RefillController).  One    *)
(* that finds the lock held is refused, or changes nothing.                 *)

Serving == ~Locked /\ ~removal
NewStep(w, anchor, target) ==
    [wire |-> w, state |-> "pending", before |-> seen[w].decl, target |-> target,
     writes |-> seen[w].decl # target, tagged |-> seen[w].spool \in Tagged, spool |-> seen[w].spool,
     same |-> TRUE, old |-> FALSE, restores |-> FALSE]

Anchor(pair) == IF seen[pair[2]].spool \in Tagged THEN pair[2] ELSE pair[1]

Plans(pair, colour) ==
    LET target == [seen[Anchor(pair)].decl EXCEPT !.colour = colour]
    IN  /\ group.state = "disabled"
        /\ \A w \in Wires : Shown(w)
        /\ {seen[w].spool : w \in Wires} \cap Tagged \in {{}, {seen[Anchor(pair)].spool}}
        /\ seen[Anchor(pair)].spool \in Tagged => colour = seen[Anchor(pair)].decl.colour
        /\ group' = [enabled |-> TRUE, state |-> "pending",
                     steps |-> <<NewStep(pair[1], Anchor(pair), target),
                                 NewStep(pair[2], Anchor(pair), target)>>]
        /\ theirs' = [w \in Wires |-> IF theirs[w] = "reported" THEN "no" ELSE theirs[w]]
        /\ ours' = [w \in Wires |-> FALSE]
        /\ sends' = [w \in Wires |-> 0]

Pairs == {pair \in Wires \X Wires : pair[1] # pair[2]}

\* PUT .../refill records a reviewed group of any colour; POST .../refill/execute drives it.
PlanRefill(pair, colour) ==
    /\ Serving /\ Plans(pair, colour)
    /\ UNCHANGED <<amsVars, reportVars, taskVars, command, budget>>

ExecuteRefill ==
    /\ Serving /\ group.steps # <<>>
    /\ Drives("owner")
    /\ UNCHANGED <<amsVars, reportVars, group, removal, attached, command, budget, history>>

\* retry(): an uncertain step whose slot shows either declaration is adopted or re-armed.
Retried(g) ==
    LET Judge(s) ==
            LET desired == IF s.restores THEN s.before ELSE s.target
                previous == IF s.restores THEN s.target ELSE s.before
            IN  IF ~(s.state = "uncertain" /\ Shown(s.wire) /\ Editable(s.wire) /\ s.same) THEN s
                ELSE IF Current(s) = desired
                     THEN [s EXCEPT !.state = IF s.restores THEN "restored" ELSE "owned"]
                ELSE IF Current(s) = previous
                     THEN [s EXCEPT !.state = IF s.restores THEN "owned" ELSE "pending"]
                ELSE s
        judged == [i \in DOMAIN g.steps |-> Judge(g.steps[i])]
    IN  IF judged = g.steps THEN g
        ELSE [g EXCEPT !.steps = judged,
                       !.state = IF g.enabled THEN "pending" ELSE "restoration_pending"]

\* A write is the owner's once more when a step is re-armed or a backup is removed.
Rearmed(g) == [w \in Wires |-> IF \E i \in DOMAIN g.steps :
                                      /\ g.steps[i].wire = w
                                      /\ g.steps[i].state # group.steps[i].state
                               THEN 0 ELSE sends[w]]

SetBackup(pair) ==
    /\ Serving /\ Idle
    /\ \/ /\ \A w \in Wires : Shown(w)
          /\ Plans(pair, seen[Anchor(pair)].decl.colour)
       \/ /\ group.state # "disabled"
          /\ <<group.steps[1].wire, group.steps[2].wire>> = pair
          /\ group' = Retried(group) /\ sends' = Rearmed(Retried(group)) /\ UNCHANGED <<ours, theirs>>
    /\ Drives("owner")
    /\ UNCHANGED <<amsVars, reportVars, removal, attached, command, budget>>

Disabled(g) == [g EXCEPT !.enabled = FALSE, !.state = "restoration_pending"]

\* POST .../refill/disable, or DELETE while the printer is busy or offline.
Disable ==
    /\ Serving /\ group.steps # <<>>
    /\ group' = Disabled(group) /\ sends' = [w \in Wires |-> 0]
    /\ UNCHANGED <<amsVars, reportVars, taskVars, command, budget, ours, theirs>>

\* DELETE .../refill/backup on an idle printer: disable, Try again, and drive.
RemoveBackup ==
    /\ ~removal /\ ~Running /\ Idle /\ group.state # "disabled"
    /\ \/ /\ ~Locked
          /\ LET g == IF group.enabled THEN Disabled(group) ELSE group
             IN  /\ group' = Retried(g)
                 /\ sends' = IF group.enabled THEN [w \in Wires |-> 0] ELSE Rearmed(Retried(g))
          /\ Drives("remove") /\ UNCHANGED removal
       \/ /\ Locked /\ ~group.enabled     \* its drive is refused once the other one ends
          /\ removal' = TRUE /\ UNCHANGED <<group, sends, drive>>
    /\ UNCHANGED <<amsVars, reportVars, attached, command, budget, ours, theirs>>

\* ... and then release_unrestorable(): a conflict, or an uncertain write to a source now gone.
KeepsSame(s) == Shown(s.wire) /\ s.state = "conflict"
Keeps(s) == Shown(s.wire) /\ (s.state = "conflict" \/ (s.state = "uncertain" /\ ~SameSource(s)))

Released(g) ==
    LET kept == [i \in DOMAIN g.steps |-> IF Keeps(g.steps[i])
                                          THEN [g.steps[i] EXCEPT !.state = "released"]
                                          ELSE g.steps[i]]
    IN  IF g.enabled \/ kept = g.steps THEN g
        ELSE [g EXCEPT !.steps = kept, !.state = RestoringState(kept)]

RemoveEnds ==
    /\ removal /\ ~Locked
    /\ group' = Released(group) /\ removal' = FALSE
    /\ UNCHANGED <<amsVars, reportVars, drive, attached, command, budget, history>>

\* The owner reviews one step: POST .../refill/reconcile, and .../refill/release.
Reviewed(i, state) ==
    LET g == [group EXCEPT !.steps[i].state = state]
    IN  group' = [g EXCEPT !.state = IF state \in {"released", "released_empty"} THEN RestoringState(g.steps)
                                     ELSE IF g.enabled THEN "pending" ELSE "restoration_pending"]

Reconcile(i) ==
    LET s == group.steps[i]
    IN  /\ Serving /\ s.state = "uncertain"
        /\ Shown(s.wire) /\ Editable(s.wire) /\ s.same
        /\ Current(s) = IF s.restores THEN s.before ELSE s.target
        /\ Reviewed(i, IF s.restores THEN "restored" ELSE "owned")
        /\ UNCHANGED <<amsVars, reportVars, taskVars, command, budget, history>>

Release(i) ==
    LET s == group.steps[i]
    IN  /\ Serving /\ ~group.enabled
        /\ \/ Shown(s.wire) /\ s.state \in {"conflict", "uncertain"} /\ Reviewed(i, "released")
           \/ ~Shown(s.wire) /\ s.state \notin SETTLED /\ Reviewed(i, "released_empty")
        /\ ours' = [ours EXCEPT ![s.wire] = FALSE]
        /\ UNCHANGED <<amsVars, reportVars, taskVars, command, budget, theirs, sends>>

------------------------------------------------------------------------------
(* The worker (restore_when_idle), and a restart.                           *)

WorkerListens ==
    /\ ~attached /\ ~Running
    /\ attached' = TRUE /\ group' = IF Locked THEN group ELSE Noted(group)
    /\ UNCHANGED <<amsVars, reportVars, drive, removal, command, budget, history>>

WorkerDrives ==
    /\ attached /\ ~Locked /\ Idle
    /\ ~group.enabled /\ group.state = "restoration_pending"
    /\ Drives("worker")
    /\ UNCHANGED <<amsVars, reportVars, group, removal, attached, command, budget, history>>

StillPending(s) == [s EXCEPT !.state = IF @ \in {"applying", "restoring"} THEN "pending" ELSE @,
                             !.same = FALSE, !.old = TRUE]
Interrupted(s) == [s EXCEPT !.state = IF @ \in {"applying", "restoring"} THEN "uncertain" ELSE @,
                            !.same = FALSE, !.old = TRUE]

Restart ==
    /\ Spend("crash")
    /\ LET steps == [i \in DOMAIN group.steps |-> Interrupted(group.steps[i])]
       IN  group' = [group EXCEPT !.steps = steps,
                         !.state = IF \E i \in DOMAIN steps : steps[i].state # group.steps[i].state
                                   THEN "needs_attention" ELSE @]
    /\ seen' = [w \in Wires |-> Unseen] /\ seenBusy' = TRUE /\ fresh' = FALSE
    /\ first' = [w \in Wires |-> "unset"] /\ expected' = [w \in Wires |-> NotExpected]
    /\ drive' = NoDrive /\ removal' = FALSE /\ attached' = FALSE
    /\ command' \in Unanswered
    /\ theirs' = [w \in Wires |-> IF theirs[w] = "reported" THEN "declared" ELSE theirs[w]]
    /\ UNCHANGED <<amsVars, link, ours, sends>>

------------------------------------------------------------------------------
(* The printer and the people at it.                                        *)

Lands ==
    LET w == command.wire
        takes == tray[w].spool \notin Tagged \cup {NoSpool} /\ tray[w].decl # command.decl
    IN  /\ command.at = "sent"
        /\ command' = NoCommand
        /\ tray' = IF takes THEN [tray EXCEPT ![w].decl = command.decl] ELSE tray
        /\ ours' = IF takes THEN [ours EXCEPT ![w] = command.alias] ELSE ours
        /\ UNCHANGED <<busy, reportVars, group, taskVars, budget, theirs, sends>>

Changes(w, t) ==
    /\ tray' = [tray EXCEPT ![w] = t]
    /\ ours' = [ours EXCEPT ![w] = FALSE] /\ theirs' = [theirs EXCEPT ![w] = IF @ = "no" THEN "declared" ELSE @]
    /\ UNCHANGED <<busy, reportVars, group, taskVars, sends>>

OwnerDeclares(w, d) ==
    /\ tray[w].spool \notin Tagged \cup {NoSpool} /\ d # tray[w].decl
    /\ Spend("declare") /\ Changes(w, [tray[w] EXCEPT !.decl = d]) /\ UNCHANGED command

Unloads(w) ==
    /\ tray[w].spool # NoSpool
    /\ Spend("unload") /\ Changes(w, [tray[w] EXCEPT !.spool = NoSpool])
    /\ command' = IF command # NoCommand /\ command.wire = w
                  THEN [command EXCEPT !.alias = FALSE] ELSE command    \* not for the next spool

Loads(w, s) ==
    /\ tray[w].spool = NoSpool /\ \A v \in Wires : tray[v].spool # s
    /\ Spend("load") /\ Changes(w, [tray[w] EXCEPT !.spool = s]) /\ UNCHANGED command

PrinterTurns ==
    /\ busy' = ~busy
    /\ IF busy THEN UNCHANGED budget ELSE Spend("print")
    /\ UNCHANGED <<tray, reportVars, group, taskVars, command, history>>

LinkLostKeeps == /\ link /\ ~Running /\ Spend("loss") /\ link' = FALSE
                 /\ UNCHANGED <<amsVars, seen, seenBusy, fresh, first, expected, group, taskVars, command, history>>
LinkLost == /\ link /\ ~Running /\ Spend("loss") /\ link' = FALSE /\ fresh' = FALSE
            /\ UNCHANGED <<amsVars, seen, seenBusy, first, expected, group, taskVars, command, history>>
LinkBack == /\ ~link /\ ~Running /\ link' = TRUE
            /\ UNCHANGED <<amsVars, seen, seenBusy, fresh, first, expected, group, taskVars, command, budget, history>>
Silence == /\ fresh /\ Spend("silence") /\ fresh' = FALSE
           /\ UNCHANGED <<amsVars, seen, seenBusy, link, first, expected, group, taskVars, command, history>>

Owner ==
    \/ \E pair \in Pairs : SetBackup(pair) \/ \E c \in Colours : PlanRefill(pair, c)
    \/ ExecuteRefill \/ Disable \/ RemoveBackup \/ RemoveEnds
    \/ \E i \in DOMAIN group.steps : Reconcile(i) \/ Release(i)
Driving == DriveStep \/ DriveSends \/ NotSent \/ DriveConfirms \/ DriveGivesUp \/ DriveEnds
Worker == WorkerListens \/ WorkerDrives
World ==
    \/ Lands \/ PrinterTurns \/ LinkLost \/ LinkBack \/ Silence \/ Restart
    \/ \E w \in Wires : Unloads(w) \/ (\E d \in Declarations : OwnerDeclares(w, d))
                                   \/ (\E sp \in Spools : Loads(w, sp))

RefillNext == Owner \/ Driving \/ Worker \/ Reports \/ World

\* The event loop runs every task; the printer answers, reports and finishes its prints.
RefillFairness ==
    /\ WF_refillVars(Driving) /\ SF_refillVars(Worker)
    /\ SF_refillVars(RemoveEnds)
    /\ SF_refillVars(Reports) /\ WF_refillVars(Lands) /\ SF_refillVars(LinkBack)
    /\ WF_refillVars(busy /\ PrinterTurns)

RefillSpec == RefillInit /\ [][RefillNext]_refillVars /\ RefillFairness

\* ... and an owner who asks again for as long as the backup is shown.
RefillInsistSpec == RefillSpec /\ SF_refillVars(RemoveBackup)

------------------------------------------------------------------------------
RefillTypeOK ==
    /\ tray \in [Wires -> Trays] /\ seen \in [Wires -> Trays]
    /\ {busy, seenBusy, fresh, link, removal, attached} \subseteq BOOLEAN
    /\ fresh => link
    /\ first \in [Wires -> {"unset", "first", "later"}]
    /\ \A i \in DOMAIN group.steps : group.steps[i].state \in StepStates
    /\ group.state \in {"pending", "needs_attention", "restoration_pending", "disabled"}
    /\ drive.index \in 0 .. 3
    /\ ours \in [Wires -> BOOLEAN] /\ theirs \in [Wires -> {"no", "declared", "reported"}]

\* While a slot still shows an alias the bridge wrote, the group says so: no step of it is
\* taken for one that was never written or has been put back, across lost readbacks,
\* retries and restarts of the bridge.
AliasAccounted ==
    \A w \in Wires : ours[w] =>
        \E i \in DOMAIN group.steps :
            /\ group.steps[i].wire = w
            /\ group.steps[i].state \notin {"pending", "restored", "released_empty"}

\* A write in doubt is never sent again by itself: one send for each time the owner set,
\* retried or removed the backup.
NeverResent == \A w \in Wires : sends[w] <= 1

\* A spool or a declaration someone else put in a slot, once a report shows it, is never written over
\* until the owner plans the slot again.
TheirsIsKept ==
    [][\A w \in Wires : sends'[w] > sends[w] => theirs[w] # "reported"]_refillVars

\* A group counts as disabled, and may be replaced by a new plan, only when each of its slots
\* has been put back or given up.
DisabledOwesNothing ==
    group.state = "disabled" => \A i \in DOMAIN group.steps : group.steps[i].state \in SETTLED

\* No dead ends on removal: an owner who asks again for as long as the backup is shown gets
\* rid of it.
RemovalHasNoDeadEnd ==
    (group.steps # <<>> /\ ~group.enabled) ~> (group.state = "disabled")

\* ... and nobody need ask again unless a step needs review.
RemovalSettles ==
    (group.steps # <<>> /\ ~group.enabled) ~> (group.state \in {"disabled", "needs_attention"})

\* A disabled group leaves no alias of ours on a spool, but where the step was released.
DisabledLeavesNoAlias ==
    group.state = "disabled" =>
        \A i \in DOMAIN group.steps : group.steps[i].state # "released" => ~ours[group.steps[i].wire]

\* "Put both slots back as they were": a removal never leaves the bridge's own alias on the
\* spool it was written to and calls that the printer's setting.
RemovalPutsBack ==
    \A i \in DOMAIN group.steps : group.steps[i].state = "released" => ~ours[group.steps[i].wire]

\* Whatever the alias is on is on record, nothing is sent twice, a disabled group owes nothing.
RefillSound == RefillTypeOK /\ AliasAccounted /\ NeverResent /\ DisabledOwesNothing
=============================================================================
