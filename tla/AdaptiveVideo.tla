---------------------------- MODULE AdaptiveVideo ----------------------------
(***************************************************************************)
(* The shared video encoder (adaptive_video.py), woken by playlist requests     *)
(* (api/camera.py) and by the remux worker's lease (video_publisher.py), parked  *)
(* when nobody has asked for a while, and the video backend around it           *)
(* (native_video.py), which is started and closed with the gateway.             *)
(*                                                                         *)
(* An encoder has the number of its directory.  One lock covers starting and     *)
(* stopping; both await under it, and each awaits between the steps that follow. *)
(***************************************************************************)
EXTENDS Naturals, FiniteSets

CONSTANTS Clients, VideoLimits       \* bounds: [reads, deaths, faults, cycles]

VARIABLES backend,   \* NativeVideo: off, on, dead, or closing (its encoder first)
          encoder,   \* [gen, alive]: the process, gen 0 for none
          folder,    \* the directory the encoder writes to, 0 for none
          timer,     \* the encoder whose _park() task runs, 0 for none
          quiet,     \* IDLE_SECONDS have passed since the last access
          lock,      \* who starts or stops the encoder: [by, doing, next]
          client,    \* per client: [at, resource, gen], gen the encoder whose files it reads
          disk,      \* the directories there are
          left       \* [made]: directories so far, and what is left of the bounds

videoVars == <<backend, encoder, folder, timer, quiet, lock, client, disk, left>>
owned == <<encoder, folder, timer, disk>>
NoEncoder == [gen |-> 0, alive |-> FALSE]
Open == [by |-> "none", doing |-> "none", next |-> "none"]
Out == [at |-> "out", resource |-> "none", gen |-> 0]
VideoInit ==
    /\ backend = "off" /\ encoder = NoEncoder /\ folder = 0 /\ timer = 0 /\ quiet = TRUE /\ lock = Open
    /\ client = [c \in Clients |-> Out] /\ disk = {} /\ left = [VideoLimits EXCEPT !.made = 0]
Takes(what) == left[what] > 0 /\ left' = [left EXCEPT ![what] = @ - 1]
Client(c, next) == client' = [client EXCEPT ![c] = next]
Does(by, doing, next) == lock' = [by |-> by, doing |-> doing, next |-> next]

------------------------------------------------------------------------------
(* NativeVideo.                                                             *)

Ready == backend = "on"                          \* the server and a living process
Starts == /\ backend = "off" /\ Takes("cycles") /\ backend' \in {"on", "off"}     \* or the start failed
          /\ UNCHANGED <<owned, quiet, lock, client>>
Crashes == /\ backend = "on" /\ Takes("deaths") /\ backend' = "dead"
           /\ UNCHANGED <<owned, quiet, lock, client>>
\* close(): the encoder, under its lock, then the server and the backend.
Closing == /\ backend \in {"on", "dead"} /\ lock = Open /\ Does("close", "stop", "closing")
           /\ UNCHANGED <<backend, owned, quiet, client, left>>
Closed == /\ backend = "closing" /\ backend' = "off"
          /\ UNCHANGED <<owned, quiet, lock, client, left>>

------------------------------------------------------------------------------
(* AdaptiveVideo.read().                                                    *)

\* The route and the lease look whether the video is ready, then wait for the lock.
Asks(c, resource) ==
    /\ client[c] = Out /\ backend \in {"on", "closing"} /\ Takes("reads")
    /\ Client(c, [at |-> "lock", resource |-> resource, gen |-> 0])
    /\ UNCHANGED <<backend, owned, quiet, lock>>
Wakes(c) == client[c].resource # "segment"       \* a playlist, and the lease asks for one
NextOf(c) == IF Wakes(c) THEN "make" ELSE "raise"
\* The lock is free: an encoder that has died is stopped first, a living one is read from.
Judges(c) ==
    /\ client[c].at = "lock" /\ lock = Open
    /\ \/ encoder.gen # 0 /\ ~ encoder.alive /\ Does(c, "stop", NextOf(c)) /\ UNCHANGED <<client, quiet>>
       \/ /\ encoder.gen # 0 /\ encoder.alive /\ quiet' = FALSE
          /\ Client(c, [client[c] EXCEPT !.at = "file", !.gen = folder]) /\ UNCHANGED lock
       \/ encoder.gen = 0 /\ ~ Wakes(c) /\ Client(c, Out) /\ UNCHANGED <<lock, quiet>>  \* FileNotFoundError
       \/ encoder.gen = 0 /\ Wakes(c) /\ Does(c, "make", "none") /\ UNCHANGED <<client, quiet>>
    /\ UNCHANGED <<backend, owned, left>>
\* mkdtemp(), or the disk has no room for it.
MakesFolder(c) ==
    /\ lock = [by |-> c, doing |-> "make", next |-> "none"]
    /\ \/ /\ left' = [left EXCEPT !.made = @ + 1] /\ folder' = left.made + 1 /\ disk' = disk \cup {left.made + 1}
          /\ Does(c, "spawn", "none") /\ UNCHANGED client
       \/ Takes("faults") /\ lock' = Open /\ Client(c, Out) /\ UNCHANGED <<folder, disk>>
    /\ UNCHANGED <<backend, encoder, timer, quiet>>
\* create_subprocess_exec() answers; the park task comes with the process.
Spawns(c) ==
    /\ lock.by = c /\ lock.doing = "spawn"
    /\ encoder' = [gen |-> folder, alive |-> TRUE] /\ timer' = folder
    /\ quiet' = FALSE /\ lock' = Open /\ Client(c, [client[c] EXCEPT !.at = "file", !.gen = folder])
    /\ UNCHANGED <<backend, folder, disk, left>>
\* It fails: what was made is undone before the error is passed on.
PassesOn(c) == lock' = Open /\ Client(c, Out)
Undoes(c) == Does(c, "stop", "raise") /\ UNCHANGED client
SpawnFails(c) ==
    /\ lock.by = c /\ lock.doing = "spawn" /\ Takes("faults") /\ Undoes(c)
    /\ UNCHANGED <<backend, owned, quiet>>
\* The file of the encoder that was taken under the lock, as long as that one lives; the lease
\* hands out the playlist of the directory there is by now.
Answers(c) == /\ client[c].at = "file"
              /\ Client(c, IF client[c].resource = "lease" THEN [client[c] EXCEPT !.at = "leased"] ELSE Out)
              /\ UNCHANGED <<backend, owned, quiet, lock, left>>
Leaves(c) == /\ client[c].at = "leased" /\ Client(c, Out)
             /\ UNCHANGED <<backend, owned, quiet, lock, left>>
Dies == /\ encoder.alive /\ Takes("deaths") /\ encoder' = [encoder EXCEPT !.alive = FALSE]
        /\ UNCHANGED <<backend, folder, timer, disk, quiet, lock, client>>

------------------------------------------------------------------------------
(* _park() and _stop().                                                     *)

Idles == /\ ~ quiet /\ quiet' = TRUE /\ UNCHANGED <<backend, owned, lock, client, left>>
Parks == /\ timer # 0 /\ quiet /\ lock = Open /\ Does("park", "stop", "none")
         /\ UNCHANGED <<backend, owned, quiet, client, left>>
\* _stop() cancels the park task and kills the process group,
Stops == /\ lock.doing = "stop" /\ timer' = 0 /\ lock' = [lock EXCEPT !.doing = "reap"]
         /\ UNCHANGED <<backend, encoder, folder, disk, quiet, client, left>>
\* waits for its end,
Reaps == /\ lock.doing = "reap" /\ encoder' = NoEncoder /\ lock' = [lock EXCEPT !.doing = "remove"]
         /\ UNCHANGED <<backend, folder, timer, disk, quiet, client, left>>
\* and removes the directory; its caller goes on.
Removes ==
    /\ lock.doing = "remove" /\ disk' = disk \ {folder} /\ folder' = 0
    /\ backend' = IF lock.next = "closing" THEN "closing" ELSE backend
    /\ IF lock.next = "make" THEN Does(lock.by, "make", "none") ELSE lock' = Open
    /\ client' = [c \in Clients |-> IF c = lock.by /\ lock.next = "raise" THEN Out ELSE client[c]]
    /\ UNCHANGED <<encoder, timer, quiet, left>>

VideoNext ==
    \/ Starts \/ Crashes \/ Closing \/ Closed \/ Dies \/ Idles \/ Parks \/ Stops \/ Reaps \/ Removes
    \/ \E c \in Clients : \/ \E r \in {"playlist", "segment", "lease"} : Asks(c, r)
                          \/ Judges(c) \/ MakesFolder(c) \/ Spawns(c) \/ SpawnFails(c)
                          \/ Answers(c) \/ Leaves(c)
VideoSpec == VideoInit /\ [][VideoNext]_videoVars

------------------------------------------------------------------------------
(* Properties.                                                              *)

\* No order of requests, deaths, failed starts, parkings and closes leaves a process that
\* nothing will park, or a directory that nobody will remove: a start that fails half-way is
\* undone before the next one can write over what it left.
NothingIsLeftBehind == /\ disk \subseteq {folder}
                       /\ lock = Open => encoder.gen = timer /\ encoder.gen = folder
\* "Only playlists may wake a parked stream" (adaptive_video.py:138), nor does a segment that
\* finds the encoder dead.
OnlyPlaylistsWake == lock.doing \in {"make", "spawn"} => Wakes(lock.by)
VideoSound == NothingIsLeftBehind /\ OnlyPlaylistsWake

\* The playlist a lease hands out is that of the encoder it woke, and there is one; an encoder
\* that ends or is closed while the lease reads its file breaks it (api/camera.py:162).
Lease == \A c \in Clients : client[c].at = "file" /\ client'[c].at = "leased" => folder = client[c].gen
LeaseIsOfItsTime == [][Lease]_videoVars
=============================================================================
