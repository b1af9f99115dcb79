----------------------------- MODULE SpoolSeats -----------------------------
(***************************************************************************)
(* Which Spoolman record sits in which slot (service/inventory.py,           *)
(* spool_assignments.py, inventory_sources.py, service/material_inventory.py, *)
(* service/slot_display.py, service/tagged_spools.py, slot_setting.py and     *)
(* service/slot_colour.py).  A person moves spools about; the AMS reports it; *)
(* three writers follow: the owner's assignment, the seating pass that        *)
(* releases what left its slot, and the adopter that seats what a tag names.  *)
(*                                                                         *)
(* Times are compared only to tell an unload before an assignment from one    *)
(* after it, so an unload carries that order and no clock is kept.            *)
(***************************************************************************)
EXTENDS Naturals, FiniteSets, TLC

CONSTANTS Slots, Spools,
          Tagged,       \* the spools that carry an RFID tag
          Chemistry,    \* the material of each spool
          SeatWorlds    \* what may happen, and how often (bounds)

None == "none"
UNTAGGED == "untagged"
GIVE_UP_AFTER == 3

VARIABLES tray,     \* the spool that is physically in each slot
          read,     \* how far the AMS has read it: none, reading, settling, done
          declared, \* the material each slot is set to, for a spool without a tag
          frame,    \* MaterialInventory: what the reports said of each slot
          unloaded, \* unloads not yet taken: no, or before or after the slot's assignment
          seats,    \* the assignments: [spool_id, spool_key, tray_type]
          remote,   \* Spoolman: the record ids in use, what each is of, and if archived
          history,  \* the record last seen behind each tag
          pass,     \* the seating pass: [at, rows, unloaded, snapshot, todo]
          adopter,  \* TagAdopter: [at, slot, spool_id, new, pending, done, failures, before]
          request,  \* the owner's PUT of an assignment
          lastly    \* what may still happen; records created but never seated (a ghost)

seatVars == <<tray, read, declared, frame, unloaded, seats, remote, history, pass, adopter, request, lastly>>
physical == <<tray, read, declared>>
books == <<seats, remote, history>>

Blank == [known |-> TRUE, present |-> FALSE, key |-> UNTAGGED, material |-> None, read |-> "none"]
Unknown == [Blank EXCEPT !.known = FALSE]
Key(s) == IF s \in Tagged THEN s ELSE UNTAGGED
Free == [spool_id |-> 0, spool_key |-> UNTAGGED, tray_type |-> None]
Resting == [at |-> "rest", rows |-> [w \in Slots |-> Unknown], unloaded |-> [w \in Slots |-> "no"],
            snapshot |-> [w \in Slots |-> Free], todo |-> {}]
NoAdoption == [at |-> "rest", slot |-> None, tag |-> None, spool_id |-> 0, new |-> FALSE]
Adopter == NoAdoption @@ [pending |-> {}, done |-> {}, failures |-> [t \in Slots \X Tagged |-> 0],
                          before |-> [t \in Tagged |-> <<>>]]
NoRequest == [at |-> "rest", slot |-> None, spool_id |-> 0]

\* Spoolman knows every spool without a tag; a tag's record is for the adopter to create.
Shelved == CHOOSE f \in [1..Cardinality(Spools \ Tagged) -> Spools \ Tagged] :
             \A i, j \in DOMAIN f : f[i] = f[j] => i = j
SeatInit ==
    /\ lastly \in SeatWorlds
    /\ tray = [w \in Slots |-> None] /\ read = [w \in Slots |-> "none"]
    /\ declared = [w \in Slots |-> None]
    /\ frame = [w \in Slots |-> Blank] /\ unloaded = [w \in Slots |-> "no"]
    /\ seats = [w \in Slots |-> Free] /\ history = [t \in Tagged |-> 0]
    /\ remote = [i \in DOMAIN Shelved |-> [of |-> Shelved[i], archived |-> FALSE]]
    /\ pass = Resting /\ adopter = Adopter /\ request = NoRequest

May(what) == lastly[what] > 0 /\ lastly' = [lastly EXCEPT ![what] = @ - 1]
Connected == \E w \in Slots : frame[w].known

------------------------------------------------------------------------------
(* The spools, and the AMS that reads and reports them.                     *)

Reading(w) == IF read[w] = "reading" THEN {[key |-> frame[w].key, material |-> frame[w].material]}   \* _hold_reads()
              ELSE IF tray[w] = None THEN {[key |-> UNTAGGED, material |-> None]}
              ELSE LET own == [key |-> Key(tray[w]),
                               material |-> IF tray[w] \in Tagged THEN Chemistry[tray[w]] ELSE declared[w]]
                   IN  IF read[w] = "done" THEN {own}
                       ELSE {own, [key |-> UNTAGGED, material |-> None], [key |-> UNTAGGED, material |-> declared[w]]}
Seen(w, shown) == [known |-> TRUE, present |-> tray[w] # None, read |-> read[w],
                   key |-> shown.key, material |-> shown.material]
Reported(w) == \E shown \in Reading(w) : frame[w] = Seen(w, shown)

\* The AMS reports a change before the next is made, and nobody changes a slot being assigned.
\* A spool seated without a tag that is taken out while the link is down leaves no trace
\* ("nothing is known about the gap"): with lastly.gap that happens too.
Traceless(w) == seats[w] # Free /\ seats[w].spool_key = UNTAGGED /\ lastly.gap = 0
Moves(w) == /\ May("moves") /\ request.slot # w
            /\ Connected => Reported(w)
            /\ UNCHANGED <<frame, unloaded, books, pass, adopter, request>>
Loads(w, s) ==
    /\ tray[w] = None /\ s \in lastly.spools /\ w \in lastly.slots /\ \A x \in Slots : tray[x] # s /\ Moves(w)
    /\ tray' = [tray EXCEPT ![w] = s] /\ read' = [read EXCEPT ![w] = "reading"]
    /\ declared' = [declared EXCEPT ![w] = IF @ = None THEN Chemistry[s] ELSE @]
Unloads(w) ==
    /\ tray[w] # None /\ Moves(w) /\ (Traceless(w) => frame[w].present)
    /\ tray' = [tray EXCEPT ![w] = None] /\ read' = [read EXCEPT ![w] = "none"] /\ UNCHANGED declared
\* A read takes most of a minute; with lastly.slow a pass that adopts may take longer.
Reads(w, from, to) == /\ read[w] = from /\ read' = [read EXCEPT ![w] = to]
                      /\ UNCHANGED <<tray, declared, frame, unloaded, books, pass, adopter, request, lastly>>
Settles(w) == /\ (pass.rows[w].key = UNTAGGED /\ (Connected => Reported(w))) \/ lastly.slow > 0
              /\ Reads(w, "reading", "settling")
ReadsTag(w) == Reads(w, "settling", "done")
Rereads(w) == /\ read[w] = "done" /\ May("rereads") /\ read' = [read EXCEPT ![w] = "reading"]
              /\ UNCHANGED <<tray, declared, frame, unloaded, books, pass, adopter, request>>

\* observe(): presence bits, the trays of a full or partial frame, and _note_presence().
Observe(w) ==
    /\ ~ Reported(w) /\ lastly.down = 0
    /\ \E shown \in Reading(w) : frame' = [frame EXCEPT ![w] = Seen(w, shown)]
    /\ unloaded' = [unloaded EXCEPT ![w] = IF frame[w].present /\ tray[w] = None THEN "after" ELSE @]
    /\ UNCHANGED <<physical, books, pass, adopter, request, lastly>>
Clear ==                                         \* the link is lost: clear()
    /\ Connected /\ \A w \in Slots : Traceless(w) => Reported(w)
    /\ lastly.drops > 0 /\ lastly' = [lastly EXCEPT !.drops = @ - 1, !.down = 1]
    /\ frame' = [w \in Slots |-> Unknown]
    /\ UNCHANGED <<physical, unloaded, books, pass, adopter, request>>
Reconnects == /\ lastly.down = 1 /\ lastly' = [lastly EXCEPT !.down = 0]
              /\ UNCHANGED <<physical, frame, unloaded, books, pass, adopter, request>>
\* A restart forgets the unloads not yet taken; a pass takes them every two seconds.
Forgotten == IF adopter.at = "assign" \/ (\E t \in Tagged : adopter.before[t] # <<>>) THEN 1 ELSE 0
Restarts ==
    /\ lastly.restarts > 0 /\ lastly' = [lastly EXCEPT !.restarts = @ - 1, !.unseated = @ + Forgotten]
    /\ \A w \in Slots : Traceless(w) => Reported(w) /\ "after" \notin {unloaded[w], pass.unloaded[w]}
    /\ frame' = [w \in Slots |-> Unknown] /\ unloaded' = [w \in Slots |-> "no"]
    /\ pass' = Resting /\ adopter' = Adopter /\ request' = NoRequest
    /\ UNCHANGED <<physical, books>>

------------------------------------------------------------------------------
(* Judging and changing an assignment.                                      *)

\* same_spool(): TRUE and FALSE only where the report proves it.
Undecided(seat, row) == \/ ~ row.known \/ row.material = None \/ row.read = "reading"
                        \/ row.read = "settling" /\ {seat.spool_key, row.key} # {UNTAGGED}
Same(seat, row) == row.key = seat.spool_key /\ row.material = seat.tray_type
Left(seat, row, un) == \/ un = "after"
                       \/ row.known /\ ~ row.present
                       \/ ~ Undecided(seat, row) /\ ~ Same(seat, row)

\* _assign(): the slot is read at the commit, under the lock of all inventory writes.
Assignable(w, id) == /\ frame[w].known /\ frame[w].present /\ ~ remote[id].archived
                     /\ frame[w].material = Chemistry[remote[id].of]
Outlived(un, w) == [un EXCEPT ![w] = IF @ = "after" THEN "before" ELSE @]
Assign(w, id) ==
    /\ seats' = [x \in Slots |->
                  IF x = w THEN [spool_id |-> id, spool_key |-> frame[w].key, tray_type |-> frame[w].material]
                  ELSE IF seats[x] # Free /\ seats[x].spool_id = id THEN Free ELSE seats[x]]
    /\ history' = IF frame[w].key = UNTAGGED THEN history ELSE [history EXCEPT ![frame[w].key] = id]
    /\ unloaded' = Outlived(unloaded, w)
    /\ pass' = [pass EXCEPT !.unloaded = Outlived(@, w)]
    /\ UNCHANGED remote

\* The owner assigns the record of the spool that is there (assign_spool()); where the slot
\* says another material he may have it set first (_set_slot_for(), write_slot()).
Asks(w) ==
    /\ request.at = "rest" /\ tray[w] # None /\ May("asks")
    /\ \E id \in DOMAIN remote : remote[id].of = tray[w]
                                 /\ request' = [at |-> "asked", slot |-> w, spool_id |-> id]
    /\ UNCHANGED <<physical, frame, unloaded, books, pass, adopter>>
SetsSlot ==
    LET w == request.slot  m == Chemistry[remote[request.spool_id].of]
    IN  /\ request.at = "asked" /\ frame[w].known /\ frame[w].present /\ frame[w].key = UNTAGGED
        /\ frame[w].material # m /\ declared' = [declared EXCEPT ![w] = m]
        /\ request' = [request EXCEPT !.at = "set"]
        /\ UNCHANGED <<tray, read, frame, unloaded, books, pass, adopter, lastly>>
Answers ==
    /\ request.at # "rest" /\ request' = NoRequest
    /\ \/ Assignable(request.slot, request.spool_id) /\ Assign(request.slot, request.spool_id)
       \/ UNCHANGED <<unloaded, books, pass>>    \* refused, not confirmed, or of a stale revision
    /\ UNCHANGED <<physical, frame, adopter, lastly>>
\* record("archive"): refused while a slot holds the spool.
Archives(id) ==
    /\ ~ remote[id].archived /\ May("archives") /\ \A w \in Slots : seats[w] = Free \/ seats[w].spool_id # id
    /\ remote' = [remote EXCEPT ![id].archived = TRUE]
    /\ UNCHANGED <<physical, frame, unloaded, seats, history, pass, adopter, request>>

------------------------------------------------------------------------------
(* The seating pass, every two seconds.                                     *)

Takes ==                                         \* take_unloaded(), source_choices()
    /\ pass.at = "rest" /\ (Connected \/ \E w \in Slots : unloaded[w] # "no")
    /\ pass' = [Resting EXCEPT !.at = "taken", !.rows = frame, !.unloaded = unloaded]
    /\ unloaded' = [w \in Slots |-> "no"]
    /\ UNCHANGED <<physical, frame, books, adopter, request, lastly>>
Releases ==                                      \* InventoryService.release_unseated()
    /\ pass.at = "taken"
    /\ seats' = [w \in Slots |-> IF seats[w] # Free /\ Left(seats[w], pass.rows[w], pass.unloaded[w])
                                 THEN Free ELSE seats[w]]
    /\ pass' = [pass EXCEPT !.at = "adopt", !.unloaded = [w \in Slots |-> "no"]]
    /\ UNCHANGED <<physical, frame, unloaded, remote, history, adopter, request, lastly>>
Dropped == unloaded
MarkUnloaded == [w \in Slots |-> IF "after" \in {unloaded[w], pass.unloaded[w]} THEN "after" ELSE unloaded[w]]
Fails ==                                         \* the store failed: mark_unloaded()
    /\ pass.at = "taken" /\ May("fails") /\ unloaded' = MarkUnloaded /\ pass' = Resting
    /\ UNCHANGED <<physical, frame, books, adopter, request>>
\* ColourSync.sync(): a slot without a tag is rewritten, as the pass read it, in its spool's
\* colour; with lastly.stale it may have been set to another material since.
Colours(w) ==
    /\ pass.at = "adopted" /\ seats[w] # Free /\ pass.rows[w].present /\ pass.rows[w].key = UNTAGGED
    /\ pass.rows[w].material # None /\ tray[w] \notin Tagged
    /\ lastly.stale > 0 \/ declared[w] = pass.rows[w].material
    /\ declared' = [declared EXCEPT ![w] = pass.rows[w].material]
    /\ pass' = Resting
    /\ UNCHANGED <<tray, read, frame, unloaded, books, adopter, request, lastly>>
Ends == /\ pass.at = "adopted" /\ pass' = Resting
        /\ UNCHANGED <<physical, frame, unloaded, books, adopter, request, lastly>>

------------------------------------------------------------------------------
(* The adopter: a tag two passes agree on seats its spool.                  *)

Adopting(next) == adopter' = next /\ UNCHANGED <<physical, frame, request>>
New(w) == LET row == pass.rows[w] IN row.known /\ row.present /\ row.read = "done" /\ row.key # UNTAGGED
                                     /\ <<w, row.key>> \notin adopter.done
Confirms ==
    LET now == {<<w, pass.rows[w].key>> : w \in {x \in Slots : New(x)}}
    IN  /\ pass.at = "adopt"
        /\ pass' = [pass EXCEPT !.at = "rows", !.snapshot = seats,
                                !.todo = {t[1] : t \in now \cap adopter.pending}]
        /\ Adopting([adopter EXCEPT !.pending = now]) /\ UNCHANGED <<unloaded, books, lastly>>
Adopted == /\ pass.at = "rows" /\ pass.todo = {} /\ adopter.at = "rest"
           /\ pass' = [pass EXCEPT !.at = "adopted"]
           /\ UNCHANGED <<physical, frame, unloaded, books, adopter, request, lastly>>

Rest(next) == NoAdoption @@ next
Done == [adopter EXCEPT !.done = @ \cup {<<adopter.slot, adopter.tag>>}]
Failed == LET k == <<adopter.slot, adopter.tag>>
              n == adopter.failures[k] + 1
          IN  [adopter EXCEPT !.failures[k] = n, !.done = IF n >= GIVE_UP_AFTER THEN @ \cup {k} ELSE @]
Judges(w) ==
    LET row == pass.rows[w]  current == pass.snapshot[w]
    IN  /\ pass.at = "rows" /\ w \in pass.todo /\ adopter.at = "rest"
        /\ pass' = [pass EXCEPT !.todo = @ \ {w}]
        /\ Adopting(IF current # Free /\ Same(current, row)
                    THEN [adopter EXCEPT !.done = @ \cup {<<w, row.key>>}]
                    ELSE [adopter EXCEPT !.at = "known", !.slot = w, !.tag = row.key])
        /\ UNCHANGED <<unloaded, books, lastly>>
\* Spoolman does not answer: the tag is tried again by a later pass.
Unseated == IF adopter.at = "assign" /\ adopter.new THEN 1 ELSE 0
Defers == /\ adopter.at # "rest" /\ lastly.defers > 0 /\ Adopting(Rest(Failed)) /\ UNCHANGED <<unloaded, books, pass>>
          /\ lastly' = [lastly EXCEPT !.defers = @ - 1, !.unseated = @ + Unseated]
KnownSpool ==
    LET id == history[adopter.tag]
    IN  /\ adopter.at = "known" /\ UNCHANGED <<unloaded, books, pass, lastly>>
        /\ Adopting(IF id > 0 /\ ~ remote[id].archived THEN [adopter EXCEPT !.at = "assign", !.spool_id = id]
                    ELSE [adopter EXCEPT !.at = "create"])
\* _product() and the list of its records. Products are told apart by their material here.
Ids == {id \in DOMAIN remote : Chemistry[remote[id].of] = Chemistry[adopter.tag]}
LooksAnew == /\ adopter.at = "create" /\ UNCHANGED <<unloaded, books, pass, lastly>>
             /\ Adopting([adopter EXCEPT !.at = "write", !.before[adopter.tag] = <<Ids>>])
Looks ==                                         \* _spool(), before the write
    LET before == adopter.before[adopter.tag]
        found == Ids \ before[1]
    IN  /\ adopter.at = "create" /\ UNCHANGED <<unloaded, books, pass, lastly>>
        /\ IF before = <<>> THEN Adopting([adopter EXCEPT !.at = "write", !.before[adopter.tag] = <<Ids>>])
           ELSE IF Cardinality(found) = 1
                THEN Adopting([adopter EXCEPT !.at = "assign", !.spool_id = CHOOSE id \in found : TRUE,
                                              !.new = TRUE, !.before[adopter.tag] = <<>>])
           ELSE IF found = {} THEN Adopting([adopter EXCEPT !.at = "write"])
           ELSE Adopting(Rest(Failed))
Create == LET id == Cardinality(DOMAIN remote) + 1
          IN  [i \in DOMAIN remote \cup {id} |-> IF i = id THEN [of |-> adopter.tag, archived |-> FALSE] ELSE remote[i]]
Creates ==
    /\ adopter.at = "write" /\ UNCHANGED <<unloaded, seats, history, pass>>
    /\ \/ /\ remote' = Create /\ UNCHANGED lastly
          /\ Adopting([adopter EXCEPT !.at = "assign", !.spool_id = Cardinality(DOMAIN remote) + 1,
                                      !.new = TRUE, !.before[adopter.tag] = <<>>])
       \/ /\ May("lost") /\ remote' \in {Create, remote} /\ Adopting(Rest(Failed))
Seats ==                                         \* assign() the record to the slot
    /\ adopter.at = "assign"
    /\ \/ /\ Assignable(adopter.slot, adopter.spool_id) /\ Assign(adopter.slot, adopter.spool_id)
          /\ Adopting(Rest([Done EXCEPT !.failures[<<adopter.slot, adopter.tag>>] = 0]))
          /\ UNCHANGED lastly
       \/ /\ ~ Assignable(adopter.slot, adopter.spool_id) /\ Adopting(Rest(Failed))
          /\ lastly' = [lastly EXCEPT !.unseated = @ + Unseated]
          /\ UNCHANGED <<unloaded, books, pass>>

SeatNext ==
    \/ \E w \in Slots : \/ \E s \in Spools : Loads(w, s)
                        \/ Unloads(w) \/ Settles(w) \/ ReadsTag(w) \/ Rereads(w) \/ Observe(w)
                        \/ Asks(w) \/ Colours(w) \/ Judges(w)
    \/ Clear \/ Reconnects \/ Restarts \/ SetsSlot \/ Answers \/ (\E id \in DOMAIN remote : Archives(id))
    \/ Takes \/ Releases \/ Fails \/ Ends \/ Confirms \/ Adopted
    \/ Defers \/ KnownSpool \/ Looks \/ Creates \/ Seats
SeatSpec == SeatInit /\ [][SeatNext]_seatVars

------------------------------------------------------------------------------
(* Properties.                                                              *)

\* An assignment names the spool that is in its slot, or what proves otherwise has not been
\* judged yet: no unload, tag or reading is lost between reports, passes and assignments.
SeatedIsThere ==
    \A w \in Slots : seats[w] # Free /\ remote[seats[w].spool_id].of # tray[w] =>
        \/ ~ Reported(w) \/ read[w] \in {"reading", "settling"}
        \/ "after" \in {unloaded[w], pass.unloaded[w]}
        \/ Left(seats[w], frame[w], "no")

\* No two slots name one record, and none an archived one.
SeatedOnce == \A w \in Slots : seats[w] # Free =>
    /\ ~ remote[seats[w].spool_id].archived
    /\ \A x \in Slots \ {w} : seats[x] = Free \/ seats[x].spool_id # seats[w].spool_id

\* A tag gets one record, whatever replies are lost: another is made only after the one before
\* could not be seated, or a restart forgot it.
CreatedOnce == \A t \in Tagged : Cardinality({id \in DOMAIN remote : remote[id].of = t}) <= 1 + lastly.unseated

SeatsSound == SeatedIsThere /\ SeatedOnce /\ CreatedOnce
=============================================================================
