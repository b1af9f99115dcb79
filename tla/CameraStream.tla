---------------------------- MODULE CameraStream ----------------------------
(***************************************************************************)
(* The printer's single camera connection, shared by every viewer             *)
(* (protocol/camera.py; its readers in api/camera.py and native_gateway.py).    *)
(* The connection is there while somebody watches and for a linger after the    *)
(* last one or the last snapshot; the printer takes one client at a time, so a   *)
(* connection nobody ends keeps every other viewer in the house out.            *)
(*                                                                         *)
(* What runs without an await is one step.  Only _stop_upstream() awaits while   *)
(* it holds the lock, which is granted in order.                               *)
(***************************************************************************)
EXTENDS Naturals, Sequences, TLC

CONSTANTS Watchers,     \* viewers, the job's keep-warm task among them
          CameraLimits  \* bounds: [visits, polls, closes, tight]

VARIABLES watcher,    \* per watcher: away, enter (waits for the lock), on, leave (waits for it)
          queues,     \* _subscribers
          upstream,   \* the connection: 0 for none, else its number
          holder,     \* who holds the lock across an await, or "free"
          waiting,    \* who waits for the lock, in order
          linger,     \* _linger_task, "none" or the number of a task
          lingers,    \* the linger tasks there are: number -> sleep or lock
          idle,       \* linger_s has passed since the last consumption
          ring,       \* the upstream the buffered frame is from, 0 for none
          counts      \* [started, lingers] made so far, and what is left of the bounds

cameraVars == <<watcher, queues, upstream, holder, waiting, linger, lingers, idle, ring, counts>>
Nobody == "free"
CameraInit ==
    /\ watcher = [w \in Watchers |-> "away"] /\ queues = {} /\ upstream = 0 /\ holder = Nobody /\ waiting = <<>>
    /\ linger = 0 /\ lingers = <<>> /\ idle = TRUE /\ ring = 0
    /\ counts = [started |-> 0] @@ CameraLimits

Free == holder = Nobody /\ waiting = <<>>
Turn(who) == holder = Nobody /\ waiting # <<>> /\ Head(waiting) = who     \* its turn for the lock
Granted(who) == IF Turn(who) THEN Tail(waiting) ELSE waiting
Awaits(who) == waiting' = Append(waiting, who)
Counts(what) == counts[what] > 0 /\ counts' = [counts EXCEPT ![what] = @ - 1]
Alive(n) == n \in DOMAIN lingers /\ lingers[n] # "gone"
Kill(n) == IF Alive(n) THEN [lingers EXCEPT ![n] = "gone"] ELSE lingers       \* _cancel_linger()
Watcher(w) == <<"watcher", w>>
Linger(n) == <<"linger", n>>
Closing == <<"close", 0>>
Dropped(q, who) == SelectSeq(q, LAMBDA x : x # who)

------------------------------------------------------------------------------
(* subscribe().                                                             *)

Enter(w) ==                                      \* under the lock
    /\ watcher' = [watcher EXCEPT ![w] = "on"] /\ queues' = queues \cup {w}
    /\ lingers' = Kill(linger) /\ linger' = 0
    /\ IF upstream = 0 THEN upstream' = counts.started + 1 ELSE UNCHANGED upstream
    /\ UNCHANGED <<holder, idle, ring>>
Started == IF upstream = 0 THEN 1 ELSE 0
Visits(w) ==
    /\ watcher[w] = "away" /\ counts.visits > 0
    /\ IF Free THEN /\ Enter(w) /\ UNCHANGED waiting
                    /\ counts' = [counts EXCEPT !.visits = @ - 1, !.started = @ + Started]
       ELSE /\ watcher' = [watcher EXCEPT ![w] = "enter"] /\ Awaits(Watcher(w)) /\ Counts("visits")
            /\ UNCHANGED <<queues, upstream, holder, linger, lingers, idle, ring>>
Enters(w) == /\ watcher[w] = "enter" /\ Turn(Watcher(w)) /\ Enter(w)
             /\ waiting' = Dropped(Granted(Watcher(w)), Linger(linger))
             /\ counts' = [counts EXCEPT !.started = @ + Started]

\* The last one out schedules the linger.
Scheduled == Append(lingers, "sleep")
Leave(w) ==
    /\ watcher' = [watcher EXCEPT ![w] = "away"] /\ queues' = queues \ {w}
    /\ IF queues \ {w} = {}
       THEN idle' = FALSE /\ lingers' = Scheduled /\ linger' = Len(lingers) + 1
       ELSE UNCHANGED <<idle, lingers, linger>>
    /\ UNCHANGED <<upstream, holder, ring, counts>>
Goes(w) == /\ watcher[w] = "on"
           /\ IF Free THEN Leave(w) /\ UNCHANGED waiting
              ELSE /\ watcher' = [watcher EXCEPT ![w] = "leave"] /\ Awaits(Watcher(w))
                   /\ UNCHANGED <<queues, upstream, holder, linger, lingers, idle, ring, counts>>
Leaves(w) == watcher[w] = "leave" /\ Turn(Watcher(w)) /\ Leave(w) /\ waiting' = Granted(Watcher(w))
\* A cancelled request is cancelled again while it waits, and its queue stays; with counts.tight
\* also in the instant in which a free lock is handed on.
GivesUp(w) == /\ watcher[w] \in {"enter", "leave"} /\ (watcher[w] = "leave" => holder # Nobody \/ counts.tight > 0)
              /\ watcher' = [watcher EXCEPT ![w] = "away"]
              /\ waiting' = Dropped(waiting, Watcher(w))
              /\ UNCHANGED <<queues, upstream, holder, linger, lingers, idle, ring, counts>>

------------------------------------------------------------------------------
(* Frames, snapshots and the linger.                                        *)

Frames == /\ upstream # 0 /\ holder = Nobody /\ ring # upstream /\ ring' = upstream
          /\ UNCHANGED <<watcher, queues, upstream, holder, waiting, linger, lingers, idle, counts>>
\* wait_for_frame(), answered from the buffer.
Polls == /\ ring # 0 /\ Counts("polls") /\ idle' = FALSE
         /\ UNCHANGED <<watcher, queues, upstream, holder, waiting, linger, lingers, ring>>
\* A free lock is handed on at once: seconds pass only while it is held or nobody waits.
Elapses == /\ ~ idle /\ (Free \/ holder # Nobody) /\ idle' = TRUE
           /\ UNCHANGED <<watcher, queues, upstream, holder, waiting, linger, lingers, ring, counts>>

AlwaysDue == TRUE
StillDue == queues = {} /\ idle
Judge(n) ==                                      \* under the lock: stop, or leave it
    /\ linger' = 0 /\ lingers' = Kill(n)
    /\ IF StillDue THEN holder' = "stop" ELSE UNCHANGED holder
    /\ UNCHANGED <<watcher, queues, upstream, idle, ring, counts>>
Wakes(n) == /\ Alive(n) /\ lingers[n] = "sleep" /\ idle
            /\ IF Free THEN Judge(n) /\ UNCHANGED waiting
               ELSE /\ lingers' = [lingers EXCEPT ![n] = "lock"] /\ Awaits(Linger(n))
                    /\ UNCHANGED <<watcher, queues, upstream, holder, linger, idle, ring, counts>>
Judges(n) == Alive(n) /\ lingers[n] = "lock" /\ Turn(Linger(n)) /\ Judge(n) /\ waiting' = Granted(Linger(n))
\* _stop_upstream() has unwound the connection, at the latest after three seconds.
Stopped == /\ holder \in {"stop", "close"} /\ holder' = Nobody /\ upstream' = 0 /\ ring' = 0
           /\ UNCHANGED <<watcher, queues, waiting, linger, lingers, idle, counts>>

\* aclose(): the printer is removed or moved; whoever still waits may open it again.
Close == /\ queues' = {} /\ lingers' = Kill(linger) /\ linger' = 0 /\ holder' = "close"
         /\ UNCHANGED <<watcher, upstream, idle, ring>>
Closes == /\ counts.closes > 0 /\ (\A i \in DOMAIN waiting : waiting[i] # Closing) /\ holder # "close"
          /\ IF Free THEN Close /\ Counts("closes") /\ UNCHANGED waiting
             ELSE /\ Awaits(Closing) /\ Counts("closes")
                  /\ UNCHANGED <<watcher, queues, upstream, holder, linger, lingers, idle, ring>>
CloseTurns == /\ Turn(Closing) /\ Close /\ UNCHANGED counts
              /\ waiting' = Dropped(Granted(Closing), Linger(linger))

CameraNext ==
    \/ \E w \in Watchers : Visits(w) \/ Enters(w) \/ Goes(w) \/ Leaves(w) \/ GivesUp(w)
    \/ Frames \/ Polls \/ Elapses \/ Stopped \/ Closes \/ CloseTurns
    \/ \E n \in DOMAIN lingers : Wakes(n) \/ Judges(n)
CameraSpec == CameraInit /\ [][CameraNext]_cameraVars

------------------------------------------------------------------------------
(* Properties.                                                              *)

\* Whoever watches has a connection to watch, and none is taken from under a viewer.
WatchedIsOpen == queues # {} => upstream # 0 /\ holder # "stop"
\* A connection nobody watches is being ended, or a linger task will end it: the printer's one
\* camera place is never kept for nobody, however viewers, snapshots and removals overlap.
UnwatchedIsEnded == upstream # 0 /\ (\A w \in Watchers : watcher[w] = "away") =>
    \/ holder # Nobody \/ \E n \in DOMAIN lingers : Alive(n)
\* The frame a snapshot is answered with is from the connection there is.
BufferIsCurrent == ring # 0 => ring = upstream
CameraSound == WatchedIsOpen /\ UnwatchedIsEnded /\ BufferIsCurrent
=============================================================================
