----------------------------- MODULE EventFeed -----------------------------
(***************************************************************************)
(* The named events of one printer: published on its service's bus, written to   *)
(* the event log by one reader and pushed to the owner's phone by another, and    *)
(* listed and dismissed by the app (service/event_persister.py, push/ntfy.py,     *)
(* api/events.py), while the printer is registered, removed and registered anew    *)
(* and the bridge starts and stops (service/registry.py, main.py).  A service is   *)
(* known by its number, an event by the order of publication.                     *)
(***************************************************************************)
EXTENDS Naturals, Sequences, SequencesExt

CONSTANTS Requests,    \* registrations and removals that may overlap
          Services,    \* 1 .. n: the services the process can make
          QueueBound,  \* the bus's queue (256 in the code)
          PageLimit,   \* the limit of a listing
          FeedLimits

VARIABLES phase,   \* "up", then "log", "push", "services", "db" as the lifespan ends, "down"
          known,   \* the printer's row in the table printers
          service, \* Registry._printers: the service's number, 0 for none
          live,    \* services whose session runs
          last,    \* the number of the last service made
          request, \* per request: where its registration or removal stands
          reader,  \* per reader and service: [at, queue, item]
          said,    \* events published
          rows,    \* the table events
          cleared, \* rows the owner dismissed
          pushed,  \* notifications sent
          missed,  \* <<reader, event>> lost to a full queue, a failed write or a cancelled reader
          room     \* what is left of the bounds

feedVars == <<phase, known, service, live, last, request, reader, said, rows, cleared, pushed, missed, room>>
registryVars == <<phase, known, service, live, last, request>>
tables == <<rows, cleared, pushed>>

Readers == {"log", "push"}
NoReader == [at |-> "none", queue |-> <<>>, item |-> 0]
Alive == {"made", "listens", "busy"}
Takes(what) == room[what] > 0 /\ room' = [room EXCEPT ![what] = @ - 1]
Event(n) == [kind |-> "event", n |-> n]
Internal == [kind |-> "internal", n |-> 0]    \* state_change and job_created rows of the jobs
Foreign == [kind |-> "foreign", n |-> 0]      \* rows of another printer

FeedInit ==
    /\ phase = "down" /\ known \in BOOLEAN /\ service = 0 /\ live = {} /\ last = 0
    /\ request = [c \in Requests |-> "rest"] /\ reader = [r \in Readers |-> [s \in Services |-> NoReader]]
    /\ said = 0 /\ rows = <<>> /\ cleared = {} /\ pushed = <<>> /\ missed = {} /\ room \in FeedLimits

------------------------------------------------------------------------------
(* The two readers of a service's bus.                                       *)

Subscribed(r, s) == reader[r][s].at \in {"listens", "busy"}
Full(r, s) == Len(reader[r][s].queue) = QueueBound
\* publish(): a full queue loses its oldest event.
Publishes(s) ==
    /\ s \in live /\ Takes("events") /\ said' = said + 1
    /\ reader' = [r \in Readers |-> [reader[r] EXCEPT ![s] =
                     IF ~ Subscribed(r, s) THEN @
                     ELSE [@ EXCEPT !.queue = (IF Full(r, s) THEN Tail(@) ELSE @) \o <<said + 1>>]]]
    /\ missed' = missed \union {<<r, said + 1>> : r \in {x \in Readers : ~ Subscribed(x, s)}}
                        \union {<<r, reader[r][s].queue[1]>> : r \in {x \in Readers : Subscribed(x, s) /\ Full(x, s)}}
    /\ UNCHANGED <<registryVars, tables>>
Turns(r, s, next) == reader' = [reader EXCEPT ![r][s] = next]
Subscribes(r, s) == /\ reader[r][s].at = "made" /\ Turns(r, s, [reader[r][s] EXCEPT !.at = "listens"])
                    /\ UNCHANGED <<registryVars, tables, said, missed, room>>
Reads(r, s) ==
    /\ reader[r][s].at = "listens" /\ reader[r][s].queue # <<>>
    /\ Turns(r, s, [at |-> "busy", queue |-> Tail(reader[r][s].queue), item |-> Head(reader[r][s].queue)])
    /\ UNCHANGED <<registryVars, tables, said, missed, room>>
Rests(r, s) == reader[r][s].at = "busy" /\ Turns(r, s, [reader[r][s] EXCEPT !.at = "listens", !.item = 0])
Persists(s) == /\ Rests("log", s) /\ rows' = Append(rows, Event(reader["log"][s].item))
               /\ UNCHANGED <<registryVars, cleared, pushed, said, missed, room>>
\* A failed write is logged; ntfy may refuse; the owner may not want this event.
Skips(r, s) == /\ Rests(r, s) /\ Takes("faults") /\ missed' = missed \union {<<r, reader[r][s].item>>}
               /\ UNCHANGED <<registryVars, tables, said>>
Pushes(s) == /\ Rests("push", s) /\ pushed' = Append(pushed, reader["push"][s].item)
             /\ UNCHANGED <<registryVars, rows, cleared, said, missed, room>>
\* prefs.get() is not guarded: an error of the database ends the reader.  A deviation.
Dies(s) == /\ reader["push"][s].at = "busy" /\ Takes("raises")
           /\ Turns("push", s, [reader["push"][s] EXCEPT !.at = "dead"])
           /\ UNCHANGED <<registryVars, tables, said, missed>>

------------------------------------------------------------------------------
(* Cancelled readers: a write under way may still be committed.               *)

Unread(r, s) == ToSet(reader[r][s].queue) \union (IF reader[r][s].at = "busy" THEN {reader[r][s].item} ELSE {})
Writes(s) == reader["log"][s].at = "busy"
Lands(some) == \E late \in BOOLEAN :
    /\ late => \E s \in some : Writes(s)
    /\ rows' = IF late THEN Append(rows, Event(reader["log"][CHOOSE s \in some : Writes(s)].item)) ELSE rows
EndedReaders(kinds, some) ==
    [r \in Readers |-> [s \in Services |-> IF r \in kinds /\ s \in some THEN NoReader ELSE reader[r][s]]]
Dropped(kinds, some) == UNION {{<<r, n>> : n \in Unread(r, s)} : r \in kinds, s \in some}

\* attach(), of both listeners: the task of the service before is cancelled and awaited.
Nobody(s) == {}
Before(s) == {old \in Services : old < s}
Attached(s) ==
    /\ Lands(Before(s)) /\ missed' = missed \union Dropped(Readers, Before(s))
    /\ reader' = [r \in Readers |-> [EndedReaders(Readers, Before(s))[r] EXCEPT ![s] = [NoReader EXCEPT !.at = "made"]]]

------------------------------------------------------------------------------
(* The registry.                                                            *)

Goes(c, at) == request' = [request EXCEPT ![c] = at]
Quiet == UNCHANGED <<reader, said, tables, missed>>
NextService == last + 1
\* service.start() and the listeners: nothing else runs that could register meanwhile.
Makes == /\ NextService \in Services /\ last' = NextService /\ service' = NextService /\ live' = live \union {NextService}
         /\ Attached(NextService) /\ UNCHANGED <<said, cleared, pushed>>
Registers(c) == /\ phase = "up" /\ request[c] = "rest" /\ service = 0 /\ Takes("changes") /\ Goes(c, "insert")
                /\ Quiet /\ UNCHANGED <<phase, known, service, live, last>>
\* The serial number is the table's key; a second insert fails, and the request with it.
AnyRow == TRUE
NoSuchRow == ~ known
Inserts(c) ==
    /\ request[c] = "insert"
    /\ IF NoSuchRow THEN known' = TRUE /\ Goes(c, "add") ELSE UNCHANGED known /\ Goes(c, "rest")
    /\ Quiet /\ UNCHANGED <<phase, service, live, last, room>>
Adds(c) == request[c] = "add" /\ Goes(c, "rest") /\ Makes /\ UNCHANGED <<phase, known, room>>
Removes(c) == /\ phase = "up" /\ request[c] = "rest" /\ service # 0 /\ Takes("changes") /\ Goes(c, "stop")
              /\ service' = 0 /\ Quiet /\ UNCHANGED <<phase, known, live, last>>
Stops(c) == /\ request[c] = "stop" /\ live' = {} /\ Goes(c, "delete")
            /\ Quiet /\ UNCHANGED <<phase, known, service, last, room>>
Forgets(c) == /\ request[c] = "delete" /\ known' = FALSE /\ Goes(c, "rest")
              /\ Quiet /\ UNCHANGED <<phase, service, live, last, room>>

------------------------------------------------------------------------------
(* The lifespan: load(), the ordered end, and a process that just stops.       *)

Starts == /\ phase = "down" /\ live = {} /\ phase' = "up" /\ UNCHANGED <<known, request, room>>
          /\ IF known THEN Makes ELSE Quiet /\ UNCHANGED <<service, live, last>>
Ends == /\ phase = "up" /\ \A c \in Requests : request[c] = "rest" /\ Takes("ends") /\ phase' = "log"
        /\ Quiet /\ UNCHANGED <<known, service, live, last, request>>
EndsReaders(r, at, next) ==
    /\ phase = at /\ phase' = next /\ missed' = missed \union Dropped({r}, Services)
    /\ IF r = "log" THEN Lands(Services) ELSE UNCHANGED rows
    /\ reader' = EndedReaders({r}, Services)
    /\ UNCHANGED <<known, service, live, last, request, said, cleared, pushed, room>>
EndsLog == EndsReaders("log", "log", "push")
\* `await task` raises what the reader died of, and the rest of the shutdown is skipped.
NoneDied == \A s \in Services : reader["push"][s].at # "dead"
EndsPush == EndsReaders("push", "push", IF NoneDied THEN "services" ELSE "down")
EndsServices == /\ phase = "services" /\ phase' = "db" /\ service' = 0 /\ live' = {}
                /\ Quiet /\ UNCHANGED <<known, last, request, room>>
Closes == phase = "db" /\ phase' = "down" /\ Quiet /\ UNCHANGED <<known, service, live, last, request, room>>
Crashes == /\ phase # "down" /\ Takes("ends") /\ phase' = "down" /\ service' = 0 /\ live' = {}
           /\ request' = [c \in Requests |-> "rest"] /\ Lands(Services)
           /\ reader' = EndedReaders(Readers, Services) /\ missed' = missed \union Dropped(Readers, Services)
           /\ UNCHANGED <<known, last, said, cleared, pushed>>

------------------------------------------------------------------------------
(* The table and its routes.                                                *)

Only(kinds) == UNCHANGED <<registryVars, reader, said, pushed, missed>> /\ kinds
JobRows == /\ phase = "up" /\ service # 0 /\ Takes("others") /\ rows' = Append(rows, Internal) /\ Only(UNCHANGED cleared)
ForeignRows == /\ phase = "up" /\ Takes("others") /\ rows' = Append(rows, Foreign) /\ Only(UNCHANGED cleared)
Mine(i) == rows[i].kind # "foreign"
Dismisses(i) == /\ phase = "up" /\ service # 0 /\ Mine(i) /\ Takes("others")
                /\ cleared' = cleared \union {i} /\ Only(UNCHANGED rows)
Clears == /\ phase = "up" /\ service # 0 /\ Takes("others")
          /\ cleared' = cleared \union {i \in DOMAIN rows : Mine(i)} /\ Only(UNCHANGED rows)
\* The newest rows of the printer; the internal ones are dropped from four times as many.
JustAsMany(limit) == limit
Fetched(limit) == limit * 4
UpTo(n, s) == SubSeq(s, 1, IF Len(s) < n THEN Len(s) ELSE n)
Newest(Shown(_)) == SelectSeq(Reverse([i \in DOMAIN rows |-> i]), Shown)
Listed(limit, all) ==
    LET Shown(i) == Mine(i) /\ (all \/ i \notin cleared)
        ForUser(i) == rows[i].kind = "event"
    IN  UpTo(limit, SelectSeq(UpTo(Fetched(limit), Newest(Shown)), ForUser))

FeedNext ==
    \/ \E s \in Services : Publishes(s) \/ Persists(s) \/ Pushes(s) \/ Dies(s)
    \/ \E r \in Readers : \E s \in Services : Subscribes(r, s) \/ Reads(r, s) \/ Skips(r, s)
    \/ \E c \in Requests : Registers(c) \/ Inserts(c) \/ Adds(c) \/ Removes(c) \/ Stops(c) \/ Forgets(c)
    \/ Starts \/ Ends \/ EndsLog \/ EndsPush \/ EndsServices \/ Closes \/ Crashes
    \/ JobRows \/ ForeignRows \/ Clears \/ \E i \in DOMAIN rows : Dismisses(i)
FeedSpec == FeedInit /\ [][FeedNext]_feedVars

------------------------------------------------------------------------------
(* Properties.                                                              *)

Logged == LET Named(row) == row.kind = "event" IN SelectSeq(rows, Named)
Ascending(s) == \A i, j \in DOMAIN s : i < j => s[i] < s[j]
\* Both readers keep the order of publication and take nothing twice, whatever the printer's
\* services were cancelled and made anew.
InOrder == Ascending(pushed) /\ Ascending([i \in DOMAIN Logged |-> Logged[i].n])
\* An event is lost only to a full queue, a failed write, or while nobody was subscribed.
Got(r) == IF r = "log" THEN {Logged[i].n : i \in DOMAIN Logged} ELSE ToSet(pushed)
NothingMissed == \A r \in Readers : \A n \in 1 .. said :
    n \in Got(r) \/ <<r, n>> \in missed \/ \E s \in Services : n \in Unread(r, s)
\* Registrations and removals that overlap leave one service, the registry's, watched by both
\* readers and by no other task, and a row for it.
OneService == live \subseteq {service} \/ \E c \in Requests : request[c] = "stop"
Watched == phase = "up" /\ service # 0 =>
    \A r \in Readers : \A s \in Services : reader[r][s].at \in Alive <=> s = service
RowKept == phase = "up" /\ (\A c \in Requests : request[c] = "rest") => (known <=> service # 0)
\* A page holds the newest events there are for the user as long as what is dropped from it fits
\* what is fetched beyond it.
NewestForUser(limit) == LET Named(i) == rows[i].kind = "event" IN UpTo(limit, Newest(Named))
PageIsFull == Len(SelectSeq(rows, LAMBDA row : row.kind = "internal")) <= 3 * PageLimit =>
    Listed(PageLimit, TRUE) = NewestForUser(PageLimit)
\* An orderly end closes what it opened.
EndsClean == phase = "down" => live = {}
FeedSound == InOrder /\ NothingMissed /\ OneService /\ Watched /\ RowKept /\ PageIsFull /\ EndsClean
=============================================================================
