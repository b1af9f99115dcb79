----------------------------- MODULE PrintQueue -----------------------------
(***************************************************************************)
(* The print queue of one printer: QueueRepo of db/jobs.py and the routes   *)
(* of api/queue.py.                                                         *)
(*                                                                         *)
(* Every request is a task of the one event loop, and every statement an    *)
(* await: requests interleave between statements.  All repositories share   *)
(* one database connection, so a statement is seen by every request at      *)
(* once, and a commit by anyone commits what everyone has written so far;   *)
(* disk is what a crash leaves.                                             *)
(***************************************************************************)
EXTENDS Integers, SequencesExt, FiniteSetsExt

CONSTANTS Items,    \* queue items, numbered
          Clients,  \* requests that may be open at once (a bound)
          MaxStarts, \* jobs an item may become (a bound)
          World     \* of {"crash", "commit", "start"}

ASSUME QueueAssumption ==
    /\ Items \subseteq Nat /\ IsFiniteSet(Items) /\ IsFiniteSet(Clients)
    /\ MaxStarts \in Nat \ {0}
    /\ World \subseteq {"crash", "commit", "start"}

VARIABLES queue,    \* [Items -> position], as the connection sees it
          disk,     \* the same, as committed
          client,   \* each request: what it does, its item, and what it has read
          busy,     \* JobManager._busy: a bridge job is running on the printer
          added, deleted, started, \* history: added, deleted by a user, submitted (how often)
          apart     \* history: no request began inside another, no foreign commit, no crash

vars == <<queue, disk, client, busy, added, deleted, started, apart>>

Absent == -1

Rest == [at |-> "rest", item |-> 0, next |-> Absent, writes |-> <<>>]

QueueInit ==
    /\ queue = [i \in Items |-> Absent] /\ disk = queue
    /\ client = [c \in Clients |-> Rest]
    /\ busy = FALSE
    /\ added = {} /\ deleted = {} /\ started = [i \in Items |-> 0] /\ apart = TRUE

Queued == {i \in Items : queue[i] # Absent}

\* list_for: by position; equal positions come in any order, here by number.
Listed == SetToSortSeq(Queued, LAMBDA i, j : \/ queue[i] < queue[j]
                                             \/ queue[i] = queue[j] /\ i < j)

\* SELECT COALESCE(MAX(position) + 1, 0)
NextPosition == 1 + Max({queue[i] : i \in Queued} \cup {-1})

Open(c, at, item) == client[c].at = at /\ client[c].item = item
Does(c, at, item, writes) ==
    client' = [client EXCEPT ![c] = [Rest EXCEPT !.at = at, !.item = item, !.writes = writes]]
Done(c) == client' = [client EXCEPT ![c] = Rest]
History == <<added, deleted, started, apart>>

\* A request begins.
Begins(c) == /\ client[c].at = "rest"
             /\ apart' = (apart /\ \A d \in Clients : client[d] = Rest)

\* add(): the position is read, then the row inserted, then the connection committed.
AddReads(c, i) ==
    /\ Begins(c) /\ i \notin added
    /\ \A d \in Clients : client[d].at = "add" => client[d].item # i
    /\ client' = [client EXCEPT ![c] = [Rest EXCEPT !.at = "add", !.item = i, !.next = NextPosition]]
    /\ UNCHANGED <<queue, disk, busy, added, deleted, started>>

AddInserts(c, i) ==
    /\ Open(c, "add", i)
    /\ queue' = [queue EXCEPT ![i] = client[c].next]
    /\ added' = added \cup {i}
    /\ Does(c, "write", i, <<>>)
    /\ UNCHANGED <<disk, busy, deleted, started, apart>>

\* Every other request first gets its item: a delete, a reorder, or a start, which goes on
\* to telemetry, download and validation.
Gets(c, i, op) ==
    /\ op = "start" => "start" \in World
    /\ Begins(c) /\ i \in Queued
    /\ Does(c, op, i, <<>>)
    /\ UNCHANGED <<queue, disk, busy, added, deleted, started>>

\* The updates a renumbering makes, one statement each: <<item, position>>.
Numbered(order) == [k \in DOMAIN order |-> <<order[k], k - 1>>]

\* reorder(): the item is put at the clamped place among the others, in listed order.
Reordered(i, place) ==
    LET others == SelectSeq(Listed, LAMBDA j : j # i)
    IN  InsertAt(others, 1 + Min({place, Len(others)}), i)

ReorderLists(c, i, place) ==
    /\ Open(c, "reorder", i)
    /\ Does(c, "write", i, Numbered(Reordered(i, place)))
    /\ UNCHANGED <<queue, disk, busy, History>>

\* delete(): the row goes, then the rest is listed and those out of place renumbered.  A
\* start drops its item the same way.
DeleteRow(c, i) ==
    /\ Open(c, "delete", i) \/ Open(c, "drop", i)
    /\ queue' = [queue EXCEPT ![i] = Absent]
    /\ deleted' = IF client[c].at = "delete" THEN deleted \cup {i} ELSE deleted
    /\ Does(c, "list", i, <<>>)
    /\ UNCHANGED <<disk, busy, added, started, apart>>

\* The rest is listed and left as it stands.
DeleteListsNothing(c, i) ==
    /\ Open(c, "list", i)
    /\ Does(c, "write", i, <<>>)
    /\ UNCHANGED <<queue, disk, busy, History>>

DeleteLists(c, i) ==
    /\ Open(c, "list", i)
    /\ Does(c, "write", i, SelectSeq(Numbered(Listed), LAMBDA w : queue[w[1]] # w[2]))
    /\ UNCHANGED <<queue, disk, busy, History>>

\* An UPDATE that writes the row again if it is gone.
RenumbersUpsert(c, i) ==
    /\ Open(c, "write", i) /\ client[c].writes # <<>>
    /\ queue' = [queue EXCEPT ![Head(client[c].writes)[1]] = Head(client[c].writes)[2]]
    /\ client' = [client EXCEPT ![c].writes = Tail(@)]
    /\ UNCHANGED <<disk, busy, History>>

\* One UPDATE of a renumbering; of a row deleted meanwhile it changes nothing.
Renumbers(c, i) ==
    /\ Open(c, "write", i) /\ client[c].writes # <<>>
    /\ LET w == Head(client[c].writes) IN
       queue' = IF w[1] \in Queued THEN [queue EXCEPT ![w[1]] = w[2]] ELSE queue
    /\ client' = [client EXCEPT ![c].writes = Tail(@)]
    /\ UNCHANGED <<disk, busy, History>>

Commits(c, i) ==
    /\ Open(c, "write", i) /\ client[c].writes = <<>>
    /\ disk' = queue /\ Done(c)
    /\ UNCHANGED <<queue, busy, History>>

\* The job is made and the route answers without dropping the item.
StartSubmitsOnly(c, i) ==
    /\ Open(c, "start", i) /\ ~ busy /\ started[i] < MaxStarts
    /\ busy' = TRUE /\ started' = [started EXCEPT ![i] = @ + 1]
    /\ Done(c)
    /\ UNCHANGED <<queue, disk, added, deleted, apart>>

\* start_queue_item, once validated: submit() makes a job unless a bridge job runs; the
\* route then drops the item.
StartSubmits(c, i) ==
    /\ Open(c, "start", i) /\ ~ busy /\ started[i] < MaxStarts
    /\ busy' = TRUE /\ started' = [started EXCEPT ![i] = @ + 1]
    /\ Does(c, "remove", i, <<>>)
    /\ UNCHANGED <<queue, disk, added, deleted, apart>>

\* A refusal drops the item too.
StartRefusedDrops(c, i) ==
    /\ Open(c, "start", i)
    /\ Does(c, "remove", i, <<>>)
    /\ UNCHANGED <<queue, disk, busy, History>>

\* The printer is not startable, the download or the validation fails, or submit() refuses
\* because a bridge job runs: the item stays.
StartRefused(c, i) ==
    /\ Open(c, "start", i) /\ Done(c)
    /\ UNCHANGED <<queue, disk, busy, History>>

StartRemoves(c, i) ==
    /\ Open(c, "remove", i)
    /\ IF i \in Queued THEN Does(c, "drop", i, <<>>) ELSE Done(c)
    /\ UNCHANGED <<queue, disk, busy, History>>

\* The run of the job ends: printed, failed or canceled.
JobEnds == busy /\ busy' = FALSE /\ UNCHANGED <<queue, disk, client, History>>

\* Another repository commits on the shared connection.
OtherCommits ==
    /\ "commit" \in World /\ disk # queue
    /\ disk' = queue /\ apart' = FALSE
    /\ UNCHANGED <<queue, client, busy, added, deleted, started>>

\* The bridge goes down and comes up again; requests that were open never answer.
Crash ==
    /\ "crash" \in World
    /\ queue' = disk /\ client' = [c \in Clients |-> Rest] /\ busy' = FALSE
    /\ added' = {i \in added : ~ (queue[i] # Absent /\ disk[i] = Absent)}
    /\ deleted' = {i \in deleted : disk[i] = Absent}
    /\ apart' = FALSE
    /\ UNCHANGED <<disk, started>>

QueueNext ==
    \/ \E c \in Clients, i \in Items :
         \/ AddReads(c, i) \/ AddInserts(c, i)
         \/ \E op \in {"delete", "reorder", "start"} : Gets(c, i, op)
         \/ \E place \in 0 .. Cardinality(Items) : ReorderLists(c, i, place)
         \/ DeleteRow(c, i) \/ DeleteLists(c, i) \/ Renumbers(c, i) \/ Commits(c, i)
         \/ StartSubmits(c, i) \/ StartRefused(c, i) \/ StartRemoves(c, i)
    \/ JobEnds \/ OtherCommits \/ Crash

QueueSpec == QueueInit /\ [][QueueNext]_vars

-----------------------------------------------------------------------------
\* The shape of the state; an item a user deleted is gone for good.
QueueTypeOK ==
    /\ queue \in [Items -> Nat \cup {Absent}] /\ disk \in [Items -> Nat \cup {Absent}]
    /\ \A c \in Clients :
         /\ client[c].at \in {"rest", "add", "write", "reorder", "delete", "drop", "list",
                             "start", "remove"}
         /\ client[c].at # "rest" => client[c].item \in Items
         /\ \A k \in DOMAIN client[c].writes : client[c].writes[k] \in Items \X Nat
    /\ busy \in BOOLEAN /\ apart \in BOOLEAN /\ added \subseteq Items /\ deleted \subseteq added \ Queued
    /\ started \in [Items -> 0 .. MaxStarts]

\* Requests that do not overlap leave the items at 0, 1, 2, ...: add() finds the end,
\* reorder() a place, and the list has one order (db/jobs.py: "so positions stay dense").
PositionsDense ==
    apart /\ (\A c \in Clients : client[c] = Rest) =>
        {queue[i] : i \in Queued} = 0 .. Cardinality(Queued) - 1

\* An item is never lost, whatever overlaps or crashes: it leaves the queue because a user
\* deleted it or because a job was accepted for it.
RemovedWasAccepted ==
    \A i \in added : i \in Queued \/ i \in deleted \/ started[i] > 0

\* A start that runs by itself takes its item out of the queue: no item is printed twice.
StartedOnce == apart => \A i \in Items : started[i] <= 1

=============================================================================
