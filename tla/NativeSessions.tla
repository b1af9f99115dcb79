--------------------------- MODULE NativeSessions ---------------------------
(***************************************************************************)
(* The native gateway being turned on, reconfigured and turned off while       *)
(* slicers connect, log in, publish and leave (native_gateway.py: start,        *)
(* close, enable, disable, authenticate, client and the publish half of mqtt).  *)
(* A configuration is known by the number of the enable() that made it; a       *)
(* wrong code is one of another configuration.  One that fails to start leaves  *)
(* its number to the next: nobody was given its code.                           *)
(*                                                                         *)
(* The asyncio server (external) waits, when closed, for the transports it      *)
(* accepted, which is what Python 3.12 does (pyproject.toml:10), and not for    *)
(* their handlers: one in a thread or at a lock works on when its peer is gone. *)
(***************************************************************************)
EXTENDS Naturals, FiniteSets

CONSTANTS Slicers,    \* connections of slicers, one after another in each place
          MaxWriters, MaxTries, SessionLimits

VARIABLES config,    \* NativeGateway.config: the configuration in force, 0 for none
          dbRow,     \* native_gateway: [gen, enabled]
          dbCode,    \* native_code: the configuration whose code is stored, 0 for none
          listening, \* the servers accept connections
          change,    \* the enable() or disable() under way: [at, kind, gen]
          given,     \* the configuration whose code the owner was last given
          slicer,    \* per connection: [at, up, gen, code, under, seen, sent, acted, acks]
          failures,  \* recent attempts of the slicers' common address
          owed,      \* the inbox has an unresolved start
          room       \* what is left of the bounds

sessionVars == <<config, dbRow, dbCode, listening, change, given, slicer, failures, owed, room>>
stored == <<dbRow, dbCode>>

Nobody == [at |-> "rest", kind |-> "none", gen |-> 0]
\* up: its transport is open; gen: the configuration its code is checked against; under: the one
\* in force when it was let in.
Away == [at |-> "away", up |-> FALSE, gen |-> 0, code |-> 0, under |-> 0, seen |-> FALSE, sent |-> FALSE,
         acted |-> 0, acks |-> 0]
Running == {"check", "live", "act"}              \* a handler task
Uses(what) == room[what] > 0 /\ room' = [room EXCEPT ![what] = @ - 1]
Frame(extra) == UNCHANGED <<listening, change, given, config, stored>> /\ UNCHANGED extra

SessionInit ==
    /\ \/ config = 0 /\ given = 0 /\ listening = FALSE /\ dbRow = [gen |-> 0, enabled |-> FALSE]
       \/ config = 1 /\ given = 1 /\ listening = TRUE /\ dbRow = [gen |-> 1, enabled |-> TRUE]   \* its code only hashed
    /\ dbCode = 0 /\ change = Nobody /\ slicer = [s \in Slicers |-> Away] /\ failures = 0 /\ owed = FALSE
    /\ room = SessionLimits

------------------------------------------------------------------------------
(* enable() and disable(), one at a time under change_lock.                  *)

\* A gateway that is off has no inbox to ask for unresolved starts.
Begins(kind) ==
    /\ change.at = "rest" /\ (listening => ~ owed) /\ Uses("changes")
    /\ change' = [at |-> "cancel", kind |-> kind, gen |-> IF kind = "enable" THEN given + 1 ELSE 0]
    /\ UNCHANGED <<config, stored, listening, given, slicer, failures, owed>>
\* close(): every handler task is cancelled, and again when the servers and connections are closed.
Quiet == [s \in Slicers |-> IF slicer[s].at \in Running THEN Away ELSE slicer[s]]
\* A cancelled hold_start() runs on in its thread.
Overrun == owed \/ \E s \in Slicers : slicer[s].at = "act"
Cancels == /\ change.at = "cancel" /\ change' = [change EXCEPT !.at = "drain"]
           /\ slicer' = Quiet /\ owed' \in {owed, Overrun}
           /\ UNCHANGED <<config, stored, listening, given, failures, room>>
\* Video, the display and the retention have ended meanwhile; slicers could still connect.
Shuts == /\ change.at = "drain" /\ change' = [change EXCEPT !.at = "inbox"]
         /\ listening' = FALSE /\ slicer' = Quiet /\ owed' \in {owed, Overrun}
         /\ UNCHANGED <<config, stored, given, failures, room>>
\* The worker has ended and the inbox is closed; a handshake may end and log in all the while.
LetsGo == /\ change.at = "inbox" /\ change' = [change EXCEPT !.at = "wait"]
          /\ UNCHANGED <<config, stored, listening, given, slicer, failures, owed, room>>
\* wait_closed(), for transports, and then what enable(), disable() or the start that failed does.
Drained == \A s \in Slicers : ~ slicer[s].up
Closes ==
    /\ change.at = "wait" /\ Drained /\ config' = change.gen
    /\ IF change.kind = "failed"
       THEN change' = Nobody /\ dbRow' = [dbRow EXCEPT !.enabled = FALSE]
       ELSE change' = [change EXCEPT !.at = IF change.kind = "enable" THEN "start" ELSE "save"] /\ UNCHANGED dbRow
    /\ UNCHANGED <<dbCode, listening, given, slicer, failures, owed, room>>
\* _start() opens the servers one by one and then the video; whatever fails closes all again.
Starts == /\ change.at = "start" /\ ~ listening /\ listening' = TRUE
          /\ UNCHANGED <<config, stored, change, given, slicer, failures, owed, room>>
Started == /\ change.at = "start" /\ listening /\ change' = [change EXCEPT !.at = "save"]
           /\ UNCHANGED <<config, stored, listening, given, slicer, failures, owed, room>>
StartFails == /\ change.at = "start" /\ Uses("faults")
              /\ change' = [at |-> "cancel", kind |-> "failed", gen |-> 0]
              /\ UNCHANGED <<config, stored, listening, given, slicer, failures, owed>>
Saves ==
    /\ change.at = "save" /\ change' = Nobody
    /\ IF change.kind = "enable"
       THEN dbRow' = [gen |-> change.gen, enabled |-> TRUE] /\ dbCode' = change.gen /\ given' = change.gen
       ELSE dbRow' = [dbRow EXCEPT !.enabled = FALSE] /\ dbCode' = 0 /\ UNCHANGED given
    /\ UNCHANGED <<config, listening, slicer, failures, owed, room>>
\* The process stops anywhere and starts again from the database; listeners may fail to.
Restarts ==
    /\ Uses("faults") /\ config' = (IF dbRow.enabled THEN dbRow.gen ELSE 0) /\ change' = Nobody
    /\ listening' \in {FALSE, config' # 0} /\ slicer' = [s \in Slicers |-> Away] /\ failures' = 0
    /\ UNCHANGED <<stored, given, owed>>

------------------------------------------------------------------------------
(* A slicer's connection.  One logs in with the code given last or before.      *)

Becomes(s, next) == slicer' = [slicer EXCEPT ![s] = next]
Connects(s) ==
    /\ listening /\ slicer[s].at = "away" /\ Uses("logins") /\ Frame(<<failures, owed>>)
    /\ \E code \in {c \in {given, given - 1} : c > 0} :
           Becomes(s, [Away EXCEPT !.at = "handshake", !.up = TRUE, !.code = code])
\* client(), once the handshake is over: at most 16; authenticate(), before its thread: no
\* configuration, or too many attempts.
Writers == {s \in Slicers : slicer[s].at \in Running}
LogsIn(s) ==
    /\ slicer[s].at = "handshake"
    /\ IF config = 0 \/ failures >= MaxTries \/ Cardinality(Writers) >= MaxWriters
       THEN Becomes(s, Away) /\ UNCHANGED failures
       ELSE Becomes(s, [slicer[s] EXCEPT !.at = "check", !.gen = config]) /\ failures' = failures + 1
    /\ Frame(<<owed, room>>)
\* ... and after it: the configuration must be the one the code was checked against.  Nobody asks
\* whether the connection is still there: a camera's handler finds out when it writes.
AnyConfig(s) == TRUE
SameConfig(s) == slicer[s].gen = config
Checked(s) ==
    /\ slicer[s].at = "check"
    /\ IF slicer[s].code = slicer[s].gen /\ SameConfig(s)
       THEN /\ Becomes(s, [slicer[s] EXCEPT !.at = "live", !.under = config]) /\ failures' = 0
            \* an old code is stored again, for the configuration in the database only
            /\ dbCode' = IF dbCode # config /\ dbRow = [gen |-> config, enabled |-> TRUE] THEN config ELSE dbCode
       ELSE Becomes(s, Away) /\ UNCHANGED <<failures, dbCode>>
    /\ UNCHANGED <<listening, change, given, config, dbRow, owed, room>>
Forgets == failures > 0 /\ failures' = failures - 1 /\ Frame(<<slicer, owed, room>>)   \* 60 s
\* The peer goes.  A handshake has no handler yet; a handler is told when it reads or writes next.
Leaves(s) == /\ slicer[s].up /\ Frame(<<failures, owed, room>>)
             /\ Becomes(s, IF slicer[s].at = "handshake" THEN Away ELSE [slicer[s] EXCEPT !.up = FALSE])
HandlerEnds(s) == slicer[s].at = "live" /\ ~ slicer[s].up /\ Becomes(s, Away) /\ Frame(<<failures, owed, room>>)

\* A start published with QoS 1, read even when the peer has gone since, and sent again with DUP
\* when no acknowledgement came.
Publishes(s) ==
    /\ slicer[s].at = "live" /\ config # 0 /\ Uses("publishes") /\ slicer[s].acks = 0
    /\ LET again == slicer[s].sent
       IN  IF again /\ slicer[s].seen
           THEN Becomes(s, slicer[s]) \/ Becomes(s, [slicer[s] EXCEPT !.acks = 1])
           ELSE Becomes(s, [slicer[s] EXCEPT !.at = "act", !.seen = TRUE, !.sent = TRUE])
    /\ Frame(<<failures, owed>>)
\* After the dispatch lock, hold_start() of the inbox there is: held, or refused with a reason.
\* With no inbox the start goes to the printer as it is.  The acknowledgement may be lost.
NoInbox == change.at = "wait" \/ (change.at \in {"rest", "save"} /\ ~ listening)
Acts(s) ==
    /\ slicer[s].at = "act" /\ owed' \in {owed, owed \/ ~ NoInbox}
    /\ \E acks \in IF slicer[s].up THEN {0, 1} ELSE {0} :
           Becomes(s, [slicer[s] EXCEPT !.at = "live", !.acted = @ + 1, !.acks = acks])
    /\ Frame(<<failures, room>>)
Resolves == owed /\ listening /\ owed' = FALSE /\ Frame(<<slicer, failures, room>>)

SessionNext ==
    \/ (\E k \in {"enable", "disable"} : Begins(k))
    \/ Cancels \/ Shuts \/ LetsGo \/ Closes \/ Starts \/ Started \/ StartFails \/ Saves \/ Restarts
    \/ Forgets \/ Resolves
    \/ \E s \in Slicers : \/ Connects(s) \/ LogsIn(s) \/ Checked(s) \/ Leaves(s) \/ HandlerEnds(s)
                          \/ Publishes(s) \/ Acts(s)
SessionSpec == SessionInit /\ [][SessionNext]_sessionVars

------------------------------------------------------------------------------
(* Properties.                                                              *)

\* Nobody is let in with the code of a configuration that is gone, also when its login ran on in a
\* thread while the settings were replaced; and who is connected is of the one in force.
SessionIsCurrent == \A s \in Slicers : slicer[s].at \in {"live", "act"} =>
    slicer[s].code = slicer[s].under /\ (slicer[s].up => slicer[s].gen = config /\ config # 0)
\* The code the owner was given is the one in force and the one a restart brings back, and the
\* code kept for showing is never that of another configuration.
GivenIsKept == change.at = "rest" /\ config # 0 =>
    config = given /\ dbRow = [gen |-> given, enabled |-> TRUE] /\ dbCode \in {0, given}
\* A publish redelivered within a session is acted on once.
ActedOnce == \A s \in Slicers : slicer[s].acted <= 1
SessionsSound == SessionIsCurrent /\ GivenIsKept /\ ActedOnce

\* native_gateway.py:1067 "resolve pending jobs before disabling": a gateway that is off owes
\* no start. A start held while disable() closes the sessions breaks it.
OffOwesNothing == change.at = "rest" /\ ~ dbRow.enabled /\ config = 0 => ~ owed
\* A start is taken under the configuration its slicer logged in to. One that waits at the dispatch
\* lock, its connection lost, while the settings are replaced breaks it (native_gateway.py:1452-1460).
StartOfItsTime == \A s \in Slicers : slicer[s].at = "act" => slicer[s].gen = config
=============================================================================
