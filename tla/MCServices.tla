----------------------------- MODULE MCServices -----------------------------
(***************************************************************************)
(* The services beside the print, for TLC: the job table with its runs and  *)
(* its watcher, who may enter (sessions of slicers, credentials of phones   *)
(* and uploads), the recovery of the inbox, and the two kinds of video. The *)
(* parts share no state; a behaviour is one of one part.                    *)
(***************************************************************************)
EXTENDS PrintJobs

CONSTANTS Slicers, MaxWriters, MaxTries, SessionLimits, Makers, Secrets, Phones, Uploads,
          OwnerCases, Zips, RecoveryLimits, Clients, VideoLimits, Watchers, CameraLimits

VARIABLE part       \* the part a behaviour is of
VARIABLES config, dbRow, dbCode, listening, change, given, slicer, failures, owed, room
VARIABLES keyFile, certFile, maker, pins, keysMade, invitation, claim, device, grant, upload, owner
VARIABLES up, inbox, aside, zips, away, restore, told, asked, sent, recoveryRoom
VARIABLES backend, encoder, folder, timer, quiet, lock, client, disk, left
VARIABLES watcher, queues, upstream, holder, waiting, linger, lingers, idle, ring, counts

Session == INSTANCE NativeSessions
Credential == INSTANCE Credentials
Recovery == INSTANCE InboxRecovery WITH room <- recoveryRoom
Video == INSTANCE AdaptiveVideo
Camera == INSTANCE CameraStream

(* A part that is not chosen rests: PrintJobs in its first state, the others at nothing. *)
SessionRests == config = 0 /\ dbRow = 0 /\ dbCode = 0 /\ listening = 0 /\ change = 0 /\ given = 0 /\
    slicer = 0 /\ failures = 0 /\ owed = 0 /\ room = 0
CredentialRests == keyFile = 0 /\ certFile = 0 /\ maker = 0 /\ pins = 0 /\ keysMade = 0 /\
    invitation = 0 /\ claim = 0 /\ device = 0 /\ grant = 0 /\ upload = 0 /\ owner = 0
RecoveryRests == up = 0 /\ inbox = 0 /\ aside = 0 /\ zips = 0 /\ away = 0 /\ restore = 0 /\ told = 0
    /\ asked = 0 /\ sent = 0 /\ recoveryRoom = 0
VideoRests == backend = 0 /\ encoder = 0 /\ folder = 0 /\ timer = 0 /\ quiet = 0 /\ lock = 0 /\
    client = 0 /\ disk = 0 /\ left = 0
CameraRests == watcher = 0 /\ queues = 0 /\ upstream = 0 /\ holder = 0 /\ waiting = 0 /\ linger = 0
    /\ lingers = 0 /\ idle = 0 /\ ring = 0 /\ counts = 0
sessionsVars == <<config, dbRow, dbCode, listening, change, given, slicer, failures, owed, room>>
credentialsVars == <<keyFile, certFile, maker, pins, keysMade, invitation, claim, device, grant,
             upload, owner>>
recoveryVars == <<up, inbox, aside, zips, away, restore, told, asked, sent, recoveryRoom>>
videoVars == <<backend, encoder, folder, timer, quiet, lock, client, disk, left>>
cameraVars == <<watcher, queues, upstream, holder, waiting, linger, lingers, idle, ring, counts>>

PartInit ==
    /\ JobsInit
    /\ \/ part = "jobs" /\ SessionRests /\ CredentialRests /\ RecoveryRests /\ VideoRests /\ CameraRests
       \/ part = "sessions" /\ Session!SessionInit /\ CredentialRests /\ RecoveryRests /\ VideoRests
          /\ CameraRests /\ world = CHOOSE w \in Worlds : TRUE
       \/ part = "credentials" /\ Credential!CredentialInit /\ SessionRests /\ RecoveryRests /\
          VideoRests /\ CameraRests /\ world = CHOOSE w \in Worlds : TRUE
       \/ part = "recovery" /\ Recovery!RecoveryInit /\ SessionRests /\ CredentialRests /\
          VideoRests /\ CameraRests /\ world = CHOOSE w \in Worlds : TRUE
       \/ part = "video" /\ Video!VideoInit /\ SessionRests /\ CredentialRests /\ RecoveryRests /\
          CameraRests /\ world = CHOOSE w \in Worlds : TRUE
       \/ part = "camera" /\ Camera!CameraInit /\ SessionRests /\ CredentialRests /\ RecoveryRests
          /\ VideoRests /\ world = CHOOSE w \in Worlds : TRUE

PartNext ==
    \/ part = "jobs" /\ JobsNext /\ UNCHANGED <<part, sessionsVars, credentialsVars, recoveryVars, videoVars, cameraVars>>
    \/ part = "sessions" /\ Session!SessionNext
       /\ UNCHANGED <<part, vars, credentialsVars, recoveryVars, videoVars, cameraVars>>
    \/ part = "credentials" /\ Credential!CredentialNext
       /\ UNCHANGED <<part, vars, sessionsVars, recoveryVars, videoVars, cameraVars>>
    \/ part = "recovery" /\ Recovery!RecoveryNext
       /\ UNCHANGED <<part, vars, sessionsVars, credentialsVars, videoVars, cameraVars>>
    \/ part = "video" /\ Video!VideoNext
       /\ UNCHANGED <<part, vars, sessionsVars, credentialsVars, recoveryVars, cameraVars>>
    \/ part = "camera" /\ Camera!CameraNext
       /\ UNCHANGED <<part, vars, sessionsVars, credentialsVars, recoveryVars, videoVars>>

PartSpec == PartInit /\ [][PartNext]_<<part, vars, sessionsVars, credentialsVars, recoveryVars,
            videoVars, cameraVars>>

------------------------------------------------------------------------------
(* What may happen in a behaviour of each part, and how often. *)
JobsWorld(r, j, p, f, e) == [rows |-> r, jobs |-> j, panel |-> p, faults |-> f, events |-> e]

\* Two jobs in turn; prints started at the panel.
MCWorlds ==
    {JobsWorld(2, 2, 0, 1, {"ignore", "power", "unsent", "refuse"}),
     JobsWorld(3, 0, 2, 2, {"restart", "reconnect", "power", "panel", "cancel"})}

\* A stop while the print would go on for ever; a job left to the watcher by a restart.
MCLiveWorlds ==
    {JobsWorld(1, 1, 0, 1, {"cancel", "power", "unsent"}),
     JobsWorld(2, 1, 0, 1, {"restart", "reconnect", "power", "ignore", "overflow", "ends"})}

\* Worlds in which the code breaks a property.
MCCanceled == {JobsWorld(1, 1, 0, 0, {"cancel"})}
MCForeignStop == {JobsWorld(2, 1, 1, 0, {"panel", "cancel"})}
MCStaleList == {JobsWorld(2, 1, 1, 0, {"panel"})}
MCReplaced == {JobsWorld(3, 2, 0, 1, {"restart"})}
MCOrphan == {JobsWorld(1, 1, 0, 1, {"restart", "ignore", "ends"})}
MCSessionLimits == [changes |-> 3, faults |-> 1, logins |-> 3, publishes |-> 3]
MCOwnerCases ==
  {[expiries |-> 1, revokes |-> 0, stops |-> 1, about |-> {"identity"}],
   [expiries |-> 0, revokes |-> 2, stops |-> 0, about |-> {"identity", "device"}],
   [expiries |-> 0, revokes |-> 1, stops |-> 0, about |-> {"upload"}]}
ASSUME CredentialAssumption == Credential!CredentialConstants   \* what AccessProofs asks of the credentials'
MCRecoveryLimits ==
  {[faults |-> 0, copies |-> 1, window |-> 0, restores |-> 1, owed |-> 0, torn |-> 0],
   [faults |-> 1, copies |-> 0, window |-> 0, restores |-> 1, owed |-> 0, torn |-> 0],
   [faults |-> 1, copies |-> 1, window |-> 0, restores |-> 0, owed |-> 0, torn |-> 0]}
MCVideoLimits == [reads |-> 4, deaths |-> 2, faults |-> 1, cycles |-> 2, made |-> 0]
MCCameraLimits == [visits |-> 5, polls |-> 2, closes |-> 1, tight |-> 0]

------------------------------------------------------------------------------
(* Properties.                                                              *)

\* Access: a slicer's session is one the present settings allow, a grant that was given is kept,
\* an action is taken once (native_gateway.py); a pinned key stays, an invitation pairs one phone,
\* what is sent was held (pairing, upload grants).
AccessSound == /\ part = "sessions" => Session!SessionsSound
               /\ part = "credentials" => Credential!CredentialsSound

\* A gateway that was switched off owes its slicers nothing.
OffOwesNothing == part = "sessions" => Session!OffOwesNothing
\* A start is taken under the configuration its slicer logged in to; a lost connection breaks it.
StartOfItsTime == part = "sessions" => Session!StartOfItsTime
\* A key is told missing only where there is none; two processes that make it at once break it.
MissingIsMissing == part = "credentials" => Credential!MissingIsMissing
\* A lease hands out the playlist of the encoder it woke; one that ends meanwhile breaks it.
LeaseIsOfItsTime == [][part = "video" => Video!Lease]_<<part, client, folder>>

\* A restored inbox prints nothing twice and loses nothing that was acknowledged.
RecoverySound == part = "recovery" => Recovery!RecoverySound

\* No encoder, no directory and no camera connection is left behind for nobody, and a reader is
\* given the stream there is.
VideoSound == /\ part = "video" => Video!VideoSound
              /\ part = "camera" => Camera!CameraSound
=============================================================================
