---------------------------- MODULE SlotDisplay ----------------------------
(***************************************************************************)
(* The virtual spool a slicer is shown in place of an untagged slot           *)
(* (service/slot_display.py, native_spools.py, display_policy.py, the report   *)
(* path of native_gateway.py).  A refresh turns verified assignments into      *)
(* bindings with a provider call in the middle; every report to a slicer is    *)
(* projected through the bindings as the physical snapshot then stands; an     *)
(* unload or a disconnect makes a binding distrusted.                         *)
(*                                                                         *)
(* The runtime's qualification is taken as given: the gateway leaves it off    *)
(* (native_gateway.py:445) and then nothing is ever bound.  One slot.          *)
(***************************************************************************)
EXTENDS Naturals

CONSTANTS Labels,      \* what an untagged slot can be set to (material and colour)
          LabelOf,     \* the material of each label
          Records,     \* the spool records of the provider
          RecordOf,    \* the material of each record
          Viewers,     \* the slicers connected to the gateway
          DisplayLimits  \* bounds: [turns, drops, outages, puts, seatings]

VARIABLES bay,      \* the slot itself: [present, tagged, label]
          online,   \* the link to the printer
          heard,    \* the service's snapshot of the slot, Deaf before one is complete
          losses,   \* a connection_lost event is not yet handled
          seat,     \* the assignment: [spool, material], or Unseated
          binding,  \* the overlay's binding: [spool, label], or Unbound
          distrusted, \* it is in _invalidated
          display,  \* [enabled, flag, saved, revision]: the overlay, the policy in memory and in the database
          refresh,  \* the pass under way: [at, revision, flag, seat, row]
          screen,   \* per slicer: [open, due, shown, held]
          spent     \* what is left of the bounds

displayVars == <<bay, online, heard, losses, seat, binding, distrusted, display, refresh, screen, spent>>
slotState == <<bay, online, heard, losses>>
overlay == <<binding, distrusted, display, refresh>>

Gone == [present |-> FALSE, tagged |-> FALSE, label |-> "unset"]
Deaf == [present |-> FALSE, tagged |-> FALSE, label |-> "unheard"]
Unseated == [spool |-> "none", material |-> "none"]
Unbound == [spool |-> "none", label |-> "none"]
Idle == [at |-> "rest", revision |-> 0, flag |-> FALSE, seat |-> Unseated, row |-> Deaf]
Closed == [open |-> FALSE, due |-> FALSE, shown |-> "none", held |-> FALSE]

DisplayInit ==
    /\ bay = Gone /\ online = TRUE /\ heard = Gone /\ losses = FALSE /\ seat = Unseated
    /\ binding = Unbound /\ distrusted = FALSE
    /\ display = [enabled |-> FALSE, flag |-> FALSE, saved |-> TRUE, revision |-> 0]
    /\ refresh = Idle /\ screen = [v \in Viewers |-> Closed] /\ spent = DisplayLimits

Spends(what) == spent[what] > 0 /\ spent' = [spent EXCEPT ![what] = @ - 1]

\* raw_bus and spool_reports: a report is due to every slicer that has subscribed.
Publish == screen' = [v \in Viewers |-> [screen[v] EXCEPT !.due = screen[v].open]]
------------------------------------------------------------------------------
(* The slot, the reports and the link.                                      *)

Turns == /\ \E next \in [present : {TRUE}, tagged : BOOLEAN, label : Labels] \cup {[bay EXCEPT !.present = FALSE]} :
                next # bay /\ bay' = next
         /\ Spends("turns") /\ UNCHANGED <<online, heard, losses, seat, overlay, screen>>

\* observe_physical(): before the report is published, whether or not a slicer is there.
Disproves(row, b) == ~ row.present \/ row.tagged \/ row.label # b.label
Hears ==
    /\ online /\ heard # bay /\ heard' = bay
    /\ distrusted' = (distrusted \/ (binding # Unbound /\ Disproves(bay, binding)))
    /\ Publish /\ UNCHANGED <<bay, online, losses, seat, binding, display, refresh, spent>>
Loses == /\ online /\ online' = FALSE /\ losses' = TRUE /\ Spends("drops")
         /\ UNCHANGED <<bay, heard, seat, overlay, screen>>
\* watch_spool_connection(): invalidate() and a report to every slicer.
HandlesLoss == /\ losses /\ losses' = FALSE /\ distrusted' = (distrusted \/ binding # Unbound)
               /\ Publish /\ UNCHANGED <<bay, online, heard, seat, binding, display, refresh, spent>>
\* A session is not back before the loop has handled the event of its loss.
Returns == /\ ~ online /\ ~ losses /\ online' = TRUE /\ heard' = Deaf
           /\ UNCHANGED <<bay, losses, seat, overlay, screen, spent>>

------------------------------------------------------------------------------
(* Assignments (SpoolSeats), under the inventory's writer lock, which a         *)
(* projection holds from its first read to its last.                          *)

Writable == refresh.at # "project"
Seats(r) == /\ Writable /\ heard.present /\ online /\ RecordOf[r] = LabelOf[heard.label] /\ ~ heard.tagged
            /\ seat' = [spool |-> r, material |-> RecordOf[r]] /\ seat' # seat /\ Spends("seatings")
            /\ UNCHANGED <<slotState, overlay, screen>>
Confirmed(s, row) == online /\ row.present /\ ~ row.tagged /\ LabelOf[row.label] = s.material
Releases == /\ Writable /\ seat # Unseated /\ heard # Deaf /\ ~ Confirmed(seat, heard) /\ online
            /\ seat' = Unseated /\ UNCHANGED <<slotState, overlay, screen, spent>>

------------------------------------------------------------------------------
(* The policy and the refresh, every five seconds.                          *)

\* replace_bindings(): a binding that was not there, or is another, is trusted anew.
Bind(b, on) == /\ binding' = b
               /\ distrusted' = (distrusted /\ (b = Unbound \/ b = binding))
               /\ display' = [display EXCEPT !.enabled = on]
               /\ IF <<display.enabled, binding>> # <<on, b>> THEN Publish ELSE UNCHANGED screen
\* withdraw(): the invalidated slots are kept, the bindings are not.
Withdraw == Bind(Unbound, FALSE)

\* PUT /display: the database, then policy() in memory.
Saves == /\ display.revision = 0 /\ Spends("puts") /\ display' = [display EXCEPT !.saved = ~ @, !.revision = 1]
         /\ UNCHANGED <<slotState, seat, binding, distrusted, refresh, screen>>
Policy == /\ display.revision = 1
          /\ LET next == [display EXCEPT !.flag = display.saved, !.revision = 0,
                                         !.enabled = @ /\ display.saved]
             IN  /\ display' = next
                 /\ IF next.flag THEN UNCHANGED <<binding, distrusted, screen>>
                    ELSE /\ binding' = Unbound /\ UNCHANGED distrusted
                         /\ IF <<display.enabled, binding>> # <<FALSE, Unbound>> THEN Publish ELSE UNCHANGED screen
          /\ refresh' = [refresh EXCEPT !.revision = 1]           \* _policy_revision moved on
          /\ UNCHANGED <<slotState, seat, spent>>

Begins == /\ refresh.at = "rest" /\ refresh' = [Idle EXCEPT !.at = "policy", !.flag = display.saved]
          /\ UNCHANGED <<slotState, seat, binding, distrusted, display, screen, spent>>
Loaded ==                                        \* after load_policy()
    /\ refresh.at = "policy" /\ UNCHANGED <<slotState, seat, spent>>
    /\ IF refresh.revision # 0
       THEN refresh' = Idle /\ UNCHANGED <<binding, distrusted, display, screen>>
       ELSE IF refresh.flag
       THEN /\ refresh' = [refresh EXCEPT !.at = "project", !.seat = seat, !.row = heard]
            /\ display' = [display EXCEPT !.flag = TRUE] /\ UNCHANGED <<binding, distrusted, screen>>
       ELSE /\ refresh' = Idle /\ binding' = Unbound /\ UNCHANGED distrusted
            /\ display' = [display EXCEPT !.flag = FALSE, !.enabled = FALSE]
            /\ IF <<display.enabled, binding>> # <<FALSE, Unbound>> THEN Publish ELSE UNCHANGED screen

\* build_projection(): the provider is asked, then everything is read again.
AnySources == online
SourcesKept == heard = refresh.row /\ online
Candidate == IF seat # Unseated /\ Confirmed(seat, refresh.row)
             THEN [spool |-> seat.spool, label |-> refresh.row.label] ELSE Unbound
Projects ==
    /\ refresh.at = "project" /\ refresh' = Idle /\ UNCHANGED <<slotState, seat, spent>>
    /\ IF ~ SourcesKept THEN Withdraw             \* InventoryConflict
       ELSE IF refresh.revision # 0 \/ ~ display.flag THEN UNCHANGED <<binding, distrusted, display, screen>>
       ELSE Bind(Candidate, TRUE)
Fails == /\ refresh.at \in {"policy", "project"} /\ Spends("outages") /\ refresh' = Idle /\ Withdraw
         /\ UNCHANGED <<slotState, seat>>

------------------------------------------------------------------------------
(* A slicer's session.                                                      *)

Screen(v, next) == /\ screen' = [screen EXCEPT ![v] = next]
                   /\ UNCHANGED <<slotState, seat, binding, display, refresh, spent>>
Subscribes(v) == /\ ~ screen[v].open /\ Screen(v, [Closed EXCEPT !.open = TRUE, !.due = TRUE])
                 /\ UNCHANGED distrusted
Eligible == display.enabled /\ binding # Unbound /\ ~ distrusted /\ heard # Deaf /\ ~ Disproves(heard, binding)
Stale == ~ online \/ heard = Deaf                \* BBVIRTUAL_PHYSICAL_DISCONNECTED, ..._RESYNC_REQUIRED
Reports(v) ==
    /\ screen[v].open /\ screen[v].due
    /\ distrusted' = (distrusted \/ (binding # Unbound /\ (Stale \/ Disproves(heard, binding))))
    /\ Screen(v, IF Stale /\ screen[v].held THEN Closed
                 ELSE [screen[v] EXCEPT !.due = FALSE, !.held = @ \/ (Eligible /\ ~ Stale),
                                        !.shown = IF Eligible /\ ~ Stale THEN binding.spool ELSE "none"])
\* ams_filament_setting: refused for a slot this session was shown a virtual spool in.
Edits(v, l) ==
    /\ screen[v].open /\ ~ screen[v].held /\ ~ Eligible /\ online /\ bay.present /\ ~ bay.tagged
    /\ bay.label # l /\ bay' = [bay EXCEPT !.label = l] /\ Spends("turns")
    /\ UNCHANGED <<online, heard, losses, seat, overlay, screen>>

DisplayNext ==
    \/ Turns \/ Hears \/ Loses \/ HandlesLoss \/ Returns \/ Releases \/ (\E r \in Records : Seats(r))
    \/ Saves \/ Policy \/ Begins \/ Loaded \/ Projects \/ Fails
    \/ \E v \in Viewers : Subscribes(v) \/ Reports(v) \/ (\E l \in Labels : Edits(v, l))
DisplaySpec == DisplayInit /\ [][DisplayNext]_displayVars

------------------------------------------------------------------------------
(* Properties.                                                              *)

\* A slicer that is shown a spool is shown what is bound, trusted and confirmed by the last
\* report, or the report that says otherwise is on its way: no change between a refresh, a
\* report and a lost link leaves a slicer with a spool the bridge no longer vouches for.
ShownIsVouched == \A v \in Viewers : screen[v].open /\ screen[v].shown # "none" =>
    screen[v].due \/ losses \/ Stale \/ (Eligible /\ binding.spool = screen[v].shown)
\* A lost link closes the slicers that were shown a spool, once its event is handled.
LossIsShown == \A v \in Viewers : screen[v].open /\ screen[v].shown # "none" /\ ~ online => losses \/ screen[v].due
\* What is bound is what the record's material and the report agreed on, and nothing is bound
\* after the owner turned the display off, however late a refresh comes back.
BoundIsMeant == /\ binding # Unbound => LabelOf[binding.label] = RecordOf[binding.spool]
                /\ display.enabled => display.flag
                /\ binding # Unbound /\ ~ distrusted /\ heard # Deaf => ~ Disproves(heard, binding)
DisplaySound == ShownIsVouched /\ LossIsShown /\ BoundIsMeant
=============================================================================
