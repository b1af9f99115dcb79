----------------------------- MODULE FtpsSession -----------------------------
(***************************************************************************)
(* The FTPS server a slicer uploads through (native_ftps.py): one control         *)
(* connection per session, a data connection per transfer, one transfer at a      *)
(* time over all sessions.  With an inbox an upload ends in the server's custody   *)
(* (NativeInbox follows it from there); without one it is written through to the  *)
(* printer's card.                                                           *)
(*                                                                         *)
(* The n-th passive channel is the one its client means for its n-th transfer:    *)
(* what a client sends over the connection it makes for it is upload n.           *)
(***************************************************************************)
EXTENDS Naturals, Sequences

CONSTANTS Clients, Dirs, Home, Files,    \* Home: the directory a login starts in
          FtpsLimits                     \* bounds: [channels, moves, prints, faults, odd]

VARIABLES custody,    \* gateway.inbox is there
          session,    \* per client: [at, dir, there, rest, channel, got, file, retr, clear, meant]
          slot,       \* the holder of transfer_lock, or "free"
          channel,    \* sequence of passive channels: Pending, Cancelled, or the connection it got
          data,       \* per channel, the client's connection to it: none, shaking, open, whole, cut, closed
          printing,   \* the file a print reads, [file, n]
          ended,      \* transfers answered 226: [meant, did]
          refused,    \* transfers failed for a reset although all had been sent
          spoiled,    \* a write hit the file of a print that had begun before the transfer was let in
          spare       \* what is left of the bounds

ftpsVars == <<custody, session, slot, channel, data, printing, ended, refused, spoiled, spare>>
Fresh == [at |-> "out", dir |-> Home, there |-> Home, rest |-> FALSE, channel |-> 0, got |-> <<0, 0>>, file |-> "none",
          retr |-> FALSE, clear |-> 0, meant |-> FALSE]
Pending == 0
Cancelled == 99
FtpsInit ==
    /\ custody \in BOOLEAN /\ session = [c \in Clients |-> Fresh] /\ slot = "free" /\ channel = <<>> /\ data = <<>>
    /\ printing = [file |-> "none", n |-> 0] /\ ended = {} /\ refused = FALSE /\ spoiled = FALSE /\ spare \in FtpsLimits
Spends(what) == spare[what] > 0 /\ spare' = [spare EXCEPT ![what] = @ - 1]
SessionIs(c, next) == session' = [session EXCEPT ![c] = next]
Around == <<custody, printing, refused, spoiled>>

------------------------------------------------------------------------------
(* The control connection.                                                  *)

SignsIn(c) == /\ session[c].at = "out" /\ SessionIs(c, [Fresh EXCEPT !.at = "idle"])
              /\ UNCHANGED <<Around, slot, channel, data, ended, spare>>
\* With an inbox the directory is the server's own notion, else the printer's answer.
Moves(c, d) ==
    /\ session[c].at = "idle" /\ Spends("moves")
    /\ SessionIs(c, [session[c] EXCEPT !.dir = d, !.there = IF custody THEN @ ELSE d])
    /\ UNCHANGED <<Around, slot, channel, data, ended>>
\* REST is for the transfer that follows it; the server keeps it for the next upload that succeeds.
Rests(c) == /\ session[c].at = "idle" /\ ~ custody /\ ~ session[c].rest /\ Spends("moves")
            /\ SessionIs(c, [session[c] EXCEPT !.rest = TRUE, !.meant = TRUE])
            /\ UNCHANGED <<Around, slot, channel, data, ended>>

\* clear_passive(): a channel that got no connection is cancelled, one that did is closed.
Shut(n) == [channel EXCEPT ![n] = IF @ = Pending THEN Cancelled ELSE @]
Cleared(c) == IF session[c].channel = 0 THEN channel ELSE Shut(session[c].channel)
Cut(c) == [n \in DOMAIN data |->
             IF session[c].channel # 0 /\ channel[session[c].channel] = n THEN "closed" ELSE data[n]]
Passive(c) ==
    /\ session[c].at = "idle" /\ Len(channel) < spare.channels
    /\ channel' = Append(Cleared(c), Pending) /\ data' = Append(Cut(c), "none")
    /\ SessionIs(c, [session[c] EXCEPT !.channel = Len(channel) + 1])
    /\ UNCHANGED <<Around, slot, ended, spare>>
Drops(c, next) == /\ channel' = Cleared(c) /\ data' = Cut(c) /\ SessionIs(c, [next EXCEPT !.channel = 0])

------------------------------------------------------------------------------
(* The data connection: made by the client, its handshake may finish late.    *)

Dials(n) == /\ data[n] = "none" /\ \E c \in Clients : session[c].channel = n
            /\ data' = [data EXCEPT ![n] = "shaking"]
            /\ UNCHANGED <<Around, session, slot, channel, ended, spare>>
\* accept() knows the channel it was made for.
OwnChannel(n) == n
NewestChannel(n) == Len(channel)
Target(n) == OwnChannel(n)
Accepts(n) == /\ data[n] = "shaking"
              /\ IF channel[Target(n)] = Pending
                 THEN channel' = [channel EXCEPT ![Target(n)] = n] /\ data' = [data EXCEPT ![n] = "open"]
                 ELSE data' = [data EXCEPT ![n] = "closed"] /\ UNCHANGED channel
              /\ UNCHANGED <<Around, session, slot, ended, spare>>
\* The client has sent all; the connection is cut, before or after that.
SendsAll(n) == /\ data[n] = "open" /\ data' = [data EXCEPT ![n] = "whole"]
               /\ UNCHANGED <<Around, session, slot, channel, ended, spare>>
Breaks(n) == /\ data[n] \in {"open", "whole"} /\ Spends("faults")
             /\ data' = [data EXCEPT ![n] = IF @ = "whole" THEN "whole then cut" ELSE "cut"]
             /\ UNCHANGED <<Around, session, slot, channel, ended>>
\* UploadReader: a reset after the end of the data is none.
EndFirst == {"whole", "whole then cut"}
ResetFirst == {"whole"}
Readable == EndFirst

------------------------------------------------------------------------------
(* Transfers.                                                               *)

Guarded(f) == f # printing.file
Unguarded(f) == TRUE
Clear(f) == Guarded(f)                           \* never over the file a print is reading
Opens(c, f, retr) ==
    /\ session[c].at = "idle" /\ session[c].channel # 0
    /\ retr => ~ session[c].rest \/ spare.odd > 0
    /\ IF custody /\ slot # "free" THEN Drops(c, session[c])                       \* 452 BBFTP_BUSY
       ELSE IF ~ custody /\ ~ retr /\ ~ Clear(f) THEN Drops(c, session[c])          \* 553 BBFTP_FILE_PRINTING
       ELSE /\ SessionIs(c, [session[c] EXCEPT !.at = "slot", !.file = f, !.retr = retr, !.clear = printing.n])
            /\ UNCHANGED <<channel, data>>
    /\ UNCHANGED <<Around, slot, ended, spare>>
Enters(c) == /\ session[c].at = "slot" /\ slot = "free" /\ slot' = c /\ SessionIs(c, [session[c] EXCEPT !.at = "data"])
             /\ UNCHANGED <<Around, channel, data, ended, spare>>
Connection(c) == IF session[c].channel = 0 \/ channel[session[c].channel] = Cancelled THEN 0 ELSE channel[session[c].channel]
Meant(c, from) == [dir |-> session[c].dir, file |-> session[c].file, upload |-> from, rest |-> session[c].meant]
Did(dir, c, from, rest) == [dir |-> dir, file |-> session[c].file, upload |-> from, rest |-> rest]
\* Without an inbox the printer's connection is made anew, then its directory restored.
Received(c) ==
    /\ session[c].at = "data" /\ ~ session[c].retr /\ Connection(c) # 0 /\ data[Connection(c)] \in Readable
    /\ IF custody
       THEN /\ ended' = ended \cup {[meant |-> Meant(c, session[c].channel), did |-> Did(session[c].dir, c, Connection(c), FALSE)]}
            /\ slot' = "free" /\ Drops(c, [session[c] EXCEPT !.at = "idle"])
       ELSE /\ Drops(c, [session[c] EXCEPT !.at = "through", !.got = <<session[c].channel, Connection(c)>>, !.there = Home])
            /\ UNCHANGED <<ended, slot>>
    /\ UNCHANGED <<Around, spare>>
Restored(c) == session[c].dir
NotRestored(c) == session[c].there
Directory(c) == Restored(c)
Stores(c) ==
    /\ session[c].at = "through"
    /\ ended' = ended \cup {[meant |-> Meant(c, session[c].got[1]),
                             did |-> Did(Directory(c), c, session[c].got[2], session[c].rest)]}
    /\ spoiled' = (spoiled \/ (session[c].file = printing.file /\ printing.n <= session[c].clear))
    /\ slot' = "free" /\ SessionIs(c, [session[c] EXCEPT !.at = "idle", !.rest = FALSE, !.meant = FALSE, !.got = <<0, 0>>, !.there = session[c].dir])
    /\ UNCHANGED <<custody, channel, data, printing, refused, spare>>
\* With an inbox every file operation first moves the printer's connection to the directory.
Retrieves(c) ==
    /\ session[c].at = "data" /\ session[c].retr /\ Connection(c) # 0 /\ data[Connection(c)] \in {"open", "whole"}
    /\ LET there == IF custody THEN session[c].dir ELSE session[c].there
       IN ended' = ended \cup {[meant |-> [Meant(c, session[c].channel) EXCEPT !.rest = FALSE], did |-> Did(there, c, Connection(c), FALSE)]}
    /\ slot' = "free" /\ Drops(c, [session[c] EXCEPT !.at = "idle", !.meant = FALSE])
    /\ UNCHANGED <<Around, spare>>
\* A failure ends the session: its connection to the printer is in doubt.
Disconnects(c) == /\ slot' = (IF slot = c THEN "free" ELSE slot) /\ Drops(c, Fresh)
                  /\ UNCHANGED <<custody, printing, ended, spoiled>>
Resets(c) == /\ session[c].at = "data" /\ Connection(c) # 0 /\ ~ session[c].retr
             /\ data[Connection(c)] \in {"cut", "whole then cut"} \ Readable
             /\ refused' = (refused \/ data[Connection(c)] = "whole then cut")
             /\ Disconnects(c) /\ UNCHANGED spare
Fails(c) == /\ session[c].at \in {"data", "through"} /\ Spends("faults") /\ Disconnects(c) /\ UNCHANGED refused
Quits(c) == session[c].at = "idle" /\ Disconnects(c) /\ UNCHANGED <<refused, spare>>

Prints(f) == /\ Spends("prints") /\ printing' = [file |-> f, n |-> printing.n + 1]
             /\ UNCHANGED <<custody, session, slot, channel, data, ended, refused, spoiled>>

FtpsNext ==
    \/ \E c \in Clients : \/ SignsIn(c) \/ Rests(c) \/ Passive(c) \/ Enters(c) \/ Received(c) \/ Stores(c) \/ Retrieves(c)
                          \/ Resets(c) \/ Fails(c) \/ Quits(c)
                          \/ \E d \in Dirs : Moves(c, d)
                          \/ \E f \in Files : \E retr \in BOOLEAN : Opens(c, f, retr)
    \/ \E n \in DOMAIN channel : Dials(n) \/ Accepts(n) \/ SendsAll(n) \/ Breaks(n)
    \/ \E f \in Files : Prints(f)
FtpsSpec == FtpsInit /\ [][FtpsNext]_ftpsVars

------------------------------------------------------------------------------
(* Properties.                                                              *)

\* A transfer answered with 226 was of the file, the directory, the data and the offset the
\* client meant: no abandoned connection, reconnect or earlier command gets into it.
AnsweredAsMeant == \A e \in ended : e.did = e.meant
\* A client that sent everything is not refused for hanging up.
SentIsTaken == ~ refused
\* A print that had begun before an upload was let in keeps its file.
PrintedIsKept == ~ spoiled
FtpsSound == AnsweredAsMeant /\ SentIsTaken /\ PrintedIsKept
=============================================================================
