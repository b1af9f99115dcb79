---------------------------- MODULE AccessProofs ----------------------------
(***************************************************************************)
(* Who may enter, and what a transfer is taken as: the gateway's sessions   *)
(* under a change of its settings (NativeSessions), the credentials of      *)
(* phones and slicers (Credentials), and the transfers over FTPS            *)
(* (FtpsSession).  The three share no state; each is proved by itself.      *)
(***************************************************************************)
EXTENDS NativeSessions, Credentials, FtpsSession, FiniteSetTheorems, SequenceTheorems, TLAPS

(***************************************************************************)
(* The gateway reconfigured under its slicers, whose handlers may outlive   *)
(* their connections: whoever is let in gave the code of the configuration  *)
(* in force, whoever is connected is of it, the code that was given is the  *)
(* one in force, and a publish is acted on once.                            *)
(***************************************************************************)
SlicerRec == [at : {"away", "handshake", "check", "live", "act"}, up : BOOLEAN, gen : Nat, code : Nat,
              under : Nat, seen : BOOLEAN, sent : BOOLEAN, acted : {0, 1}, acks : {0, 1}]

\* A connection: while its transport is open its handler is of the configuration in force, which is
\* what waiting for the transports gives; when it is not, what its code was found to fit is a fact
\* of its login. Its start is remembered before it is acted on.
SlicerFits(x, conf) ==
    /\ x \in SlicerRec
    /\ x.at \in Running /\ x.up => x.gen = conf /\ conf # 0
    /\ x.at \in {"live", "act"} => x.code = x.under
    /\ x.seen = x.sent /\ (~ x.seen => x.acted = 0) /\ (x.at = "act" => x.seen /\ x.acted = 0)

SlicersFit == slicer \in [Slicers -> SlicerRec] /\ \A s \in Slicers : SlicerFits(slicer[s], config)

ChangeRec == [at : {"rest", "cancel", "drain", "inbox", "wait", "start", "save"},
              kind : {"none", "enable", "disable", "failed"}, gen : Nat]

\* The change under way: the next number for enable(), none for disable() and for a start that failed.
ChangeFits ==
    /\ change \in ChangeRec /\ config \in Nat /\ given \in Nat /\ listening \in BOOLEAN
    /\ change.at # "rest" => \/ change.kind = "enable" /\ change.gen = given + 1
                             \/ change.kind \in {"disable", "failed"} /\ change.gen = 0
    /\ change.at = "start" => change.kind = "enable"
    /\ change.at = "save" => change.kind # "failed"

\* What a restart would bring back, and what is in force before the configuration is replaced.
SettingsFit ==
    /\ dbRow \in [gen : Nat, enabled : BOOLEAN]
    /\ dbRow.enabled => dbRow.gen = given /\ dbCode \in {0, given}
    /\ change.at \in {"rest", "cancel", "drain", "inbox", "wait"} /\ change.kind # "failed" /\ config # 0
          => config = given /\ dbRow.enabled
    /\ change.at \in {"start", "save"} => config = change.gen
    /\ change.at = "rest" => change.kind = "none"

SessionInv == SlicersFit /\ ChangeFits /\ SettingsFit

LEMMA AwayFits == ASSUME NEW conf PROVE SlicerFits(Away, conf) /\ Away.at = "away" /\ Away \in SlicerRec
BY DEF Away, SlicerFits, SlicerRec, Running

LEMMA InitFits == SessionInit => SessionInv
<1> SUFFICES ASSUME SessionInit PROVE SessionInv
  OBVIOUS
<1>1. SlicersFit
  BY AwayFits DEF SessionInit, SlicersFit
<1>2. ChangeFits /\ SettingsFit
  <2>1. change = Nobody /\ dbCode = 0 /\ Nobody \in ChangeRec /\ Nobody.at = "rest" /\ Nobody.kind = "none"
    BY DEF SessionInit, Nobody, ChangeRec
  <2>2. /\ config \in {0, 1} /\ given = config /\ listening \in BOOLEAN
        /\ dbRow \in [gen : Nat, enabled : BOOLEAN]
        /\ dbRow.gen = config /\ (config # 0 => dbRow.enabled)
    <3>1. CASE config = 0 /\ given = 0 /\ listening = FALSE /\ dbRow = [gen |-> 0, enabled |-> FALSE]
      <4>1. dbRow.gen = 0 /\ dbRow.enabled = FALSE /\ dbRow \in [gen : Nat, enabled : BOOLEAN]
        BY <3>1
      <4> QED
        BY <3>1, <4>1
    <3>2. CASE config = 1 /\ given = 1 /\ listening = TRUE /\ dbRow = [gen |-> 1, enabled |-> TRUE]
      BY <3>2
    <3> QED
      BY <3>1, <3>2 DEF SessionInit
  <2> QED
    BY <2>1, <2>2 DEF ChangeFits, SettingsFit
<1> QED
  BY <1>1, <1>2 DEF SessionInv

\* One connection changes under the same configuration.
LEMMA OneChanges ==
    ASSUME SessionInv, NEW s \in Slicers, NEW x, Becomes(s, x), SlicerFits(x, config),
           UNCHANGED <<config, dbRow, listening, change, given>>,
           dbCode' = dbCode \/ (dbCode' = config /\ dbRow.gen = config /\ dbRow.enabled)
    PROVE  SessionInv'
<1>1. x \in SlicerRec /\ slicer' = [slicer EXCEPT ![s] = x]
  BY DEF Becomes, SlicerFits
<1>2. SlicersFit'
  BY <1>1 DEF SessionInv, SlicersFit
<1>3. ChangeFits'
  BY <1>1 DEF SessionInv, SlicersFit, ChangeFits
<1>4. SettingsFit'
  BY DEF SessionInv, SettingsFit
<1> QED
  BY <1>2, <1>3, <1>4 DEF SessionInv

LEMMA SlicerSteps ==
    ASSUME SessionInv, NEW s \in Slicers,
           Connects(s) \/ LogsIn(s) \/ Checked(s) \/ Leaves(s) \/ HandlerEnds(s) \/ Publishes(s) \/ Acts(s)
    PROVE  SessionInv'
<1> DEFINE x == slicer[s]
<1>1. x \in SlicerRec /\ SlicerFits(x, config) /\ config \in Nat /\ given \in Nat
  BY DEF SessionInv, SlicersFit, ChangeFits
<1>2. CASE Connects(s)
  <2>1. PICK code \in Nat : Becomes(s, [Away EXCEPT !.at = "handshake", !.up = TRUE, !.code = code])
    <3>1. PICK code \in {c \in {given, given - 1} : c > 0} :
             Becomes(s, [Away EXCEPT !.at = "handshake", !.up = TRUE, !.code = code])
      BY <1>2 DEF Connects
    <3>2. code \in Nat
      BY <1>1
    <3> QED
      BY <3>1, <3>2
  <2>2. SlicerFits([Away EXCEPT !.at = "handshake", !.up = TRUE, !.code = code], config)
    BY DEF Away, SlicerFits, SlicerRec, Running
  <2>3. UNCHANGED <<config, dbRow, listening, change, given, dbCode>>
    BY <1>2 DEF Connects, Frame, stored
  <2> QED
    BY <2>1, <2>2, <2>3, OneChanges
<1>3. CASE LogsIn(s)
  <2>1. x.at = "handshake" /\ UNCHANGED <<config, dbRow, listening, change, given, dbCode>>
    BY <1>3 DEF LogsIn, Frame, stored
  <2>2. CASE Becomes(s, Away)
    BY <2>1, <2>2, AwayFits, OneChanges
  <2>3. CASE config # 0 /\ Becomes(s, [x EXCEPT !.at = "check", !.gen = config])
    <3>1. SlicerFits([x EXCEPT !.at = "check", !.gen = config], config)
      BY <1>1, <2>1, <2>3 DEF SlicerFits, SlicerRec, Running
    <3> QED
      BY <2>1, <2>3, <3>1, OneChanges
  <2> QED
    BY <1>3, <2>2, <2>3 DEF LogsIn
<1>4. CASE Checked(s)
  <2>1. x.at = "check" /\ UNCHANGED <<config, dbRow, listening, change, given>>
    BY <1>4 DEF Checked
  <2>2. CASE Becomes(s, Away) /\ UNCHANGED dbCode
    BY <2>1, <2>2, AwayFits, OneChanges
  <2>3. CASE /\ x.code = x.gen /\ SameConfig(s) /\ Becomes(s, [x EXCEPT !.at = "live", !.under = config])
             /\ dbCode' = IF dbCode # config /\ dbRow = [gen |-> config, enabled |-> TRUE] THEN config ELSE dbCode
    <3>1. SlicerFits([x EXCEPT !.at = "live", !.under = config], config)
      BY <1>1, <2>1, <2>3 DEF SlicerFits, SlicerRec, Running, SameConfig
    <3>2. dbCode' = dbCode \/ (dbCode' = config /\ dbRow.gen = config /\ dbRow.enabled)
      BY <2>3
    <3> QED
      BY <2>1, <2>3, <3>1, <3>2, OneChanges
  <2> QED
    BY <1>4, <2>2, <2>3 DEF Checked
<1>5. CASE Leaves(s) \/ HandlerEnds(s)
  <2>1. UNCHANGED <<config, dbRow, listening, change, given, dbCode>>
        /\ (Becomes(s, Away) \/ Becomes(s, [x EXCEPT !.up = FALSE]))
    BY <1>5 DEF Leaves, HandlerEnds, Frame, stored
  <2>2. SlicerFits([x EXCEPT !.up = FALSE], config)
    BY <1>1 DEF SlicerFits, SlicerRec, Running
  <2> QED
    BY <2>1, <2>2, AwayFits, OneChanges
<1>6. CASE Publishes(s)
  <2>1. x.at = "live" /\ UNCHANGED <<config, dbRow, listening, change, given, dbCode>>
    BY <1>6 DEF Publishes, Frame, stored
  <2>2. PICK y : /\ Becomes(s, y)
                 /\ \/ y = x
                    \/ y = [x EXCEPT !.acks = 1]
                    \/ ~ (x.sent /\ x.seen) /\ y = [x EXCEPT !.at = "act", !.seen = TRUE, !.sent = TRUE]
    BY <1>6 DEF Publishes
  <2>3. SlicerFits(y, config)
    BY <1>1, <2>1, <2>2 DEF SlicerFits, SlicerRec, Running
  <2> QED
    BY <2>1, <2>2, <2>3, OneChanges
<1>7. CASE Acts(s)
  <2>1. x.at = "act" /\ UNCHANGED <<config, dbRow, listening, change, given, dbCode>>
    BY <1>7 DEF Acts, Frame, stored
  <2>2. PICK acks \in {0, 1} : Becomes(s, [x EXCEPT !.at = "live", !.acted = @ + 1, !.acks = acks])
    BY <1>7 DEF Acts
  <2>3. SlicerFits([x EXCEPT !.at = "live", !.acted = @ + 1, !.acks = acks], config)
    <3>1. x.acted = 0 /\ x.seen /\ x.sent
      BY <1>1, <2>1 DEF SlicerFits, SlicerRec
    <3>2. [x EXCEPT !.at = "live", !.acted = @ + 1, !.acks = acks]
              = [x EXCEPT !.at = "live", !.acted = 1, !.acks = acks]
      BY <3>1
    <3>3. SlicerFits([x EXCEPT !.at = "live", !.acted = 1, !.acks = acks], config)
      BY <1>1, <2>1, <3>1 DEF SlicerFits, SlicerRec, Running
    <3> QED
      BY <3>2, <3>3
  <2> QED
    BY <2>1, <2>2, <2>3, OneChanges
<1> QED
  BY <1>2, <1>3, <1>4, <1>5, <1>6, <1>7

\* close() sends the handlers away; those in a handshake stay.
LEMMA QuietFits ==
    ASSUME SlicersFit, slicer' = Quiet, config' = config
    PROVE  SlicersFit'
BY AwayFits DEF SlicersFit, Quiet

LEMMA ChangeSteps ==
    ASSUME SessionInv,
           \/ \E k \in {"enable", "disable"} : Begins(k)
           \/ Cancels \/ Shuts \/ LetsGo \/ Closes \/ Starts \/ Started \/ StartFails \/ Saves \/ Restarts
           \/ Forgets \/ Resolves
    PROVE  SessionInv'
<1> USE DEF SessionInv, ChangeRec
<1>1. ASSUME NEW k \in {"enable", "disable"}, Begins(k) PROVE SessionInv'
  <2>1. /\ change' = [at |-> "cancel", kind |-> k, gen |-> IF k = "enable" THEN given + 1 ELSE 0]
        /\ change.at = "rest" /\ UNCHANGED <<config, dbRow, dbCode, listening, given, slicer>>
    BY <1>1 DEF Begins, stored
  <2> QED
    BY <1>1, <2>1 DEF ChangeFits, SlicersFit, SettingsFit
<1>2. CASE Cancels \/ Shuts
  <2>1. UNCHANGED <<config, dbRow, dbCode, given>> /\ slicer' = Quiet
    BY <1>2 DEF Cancels, Shuts, stored
  <2>2. ChangeFits' /\ SettingsFit'
    BY <1>2, <2>1 DEF Cancels, Shuts, ChangeFits, SettingsFit
  <2> QED
    BY <2>1, <2>2, QuietFits
<1>3. CASE Closes
  <2>1. /\ change.at = "wait" /\ Drained /\ config' = change.gen /\ UNCHANGED <<dbCode, listening, given, slicer>>
    BY <1>3 DEF Closes
  \* whoever is left has no connection
  <2>2. SlicersFit'
    BY <2>1 DEF Drained, SlicersFit, SlicerFits
  <2>3. ChangeFits' /\ SettingsFit'
    <3>1. CASE change.kind = "failed"
      <4>1. change' = Nobody /\ dbRow' = [dbRow EXCEPT !.enabled = FALSE]
        BY <1>3, <3>1 DEF Closes
      <4>2. change' \in ChangeRec /\ change'.at = "rest" /\ change'.kind = "none" /\ config' = 0
        BY <2>1, <3>1, <4>1 DEF Nobody, ChangeFits
      <4> QED
        BY <2>1, <4>1, <4>2 DEF ChangeFits, SettingsFit
    <3>2. CASE change.kind # "failed"
      <4>1. /\ change' = [change EXCEPT !.at = IF change.kind = "enable" THEN "start" ELSE "save"]
            /\ UNCHANGED dbRow
        BY <1>3, <3>2 DEF Closes
      <4> QED
        BY <2>1, <3>2, <4>1 DEF ChangeFits, SettingsFit
    <3> QED
      BY <3>1, <3>2
  <2> QED
    BY <2>2, <2>3
<1>4. CASE LetsGo \/ Starts \/ Started
  BY <1>4 DEF LetsGo, Starts, Started, stored, ChangeFits, SlicersFit, SettingsFit
<1>5. CASE StartFails
  BY <1>5 DEF StartFails, stored, ChangeFits, SlicersFit, SettingsFit
<1>6. CASE Saves
  <2>1. SlicersFit'
    BY <1>6 DEF Saves, SlicersFit
  <2>2. ChangeFits' /\ SettingsFit'
    <3>1. change' = Nobody /\ change.at = "save" /\ UNCHANGED <<config, listening>>
          /\ Nobody \in ChangeRec /\ Nobody.at = "rest" /\ Nobody.kind = "none" /\ config = change.gen
      BY <1>6 DEF Saves, Nobody, SettingsFit
    <3>2. CASE change.kind = "enable"
      <4>1. dbRow' = [gen |-> change.gen, enabled |-> TRUE] /\ dbCode' = change.gen /\ given' = change.gen
        BY <1>6, <3>2 DEF Saves
      <4> QED
        BY <3>1, <4>1 DEF ChangeFits, SettingsFit
    <3>3. CASE change.kind = "disable"
      <4>1. dbRow' = [dbRow EXCEPT !.enabled = FALSE] /\ dbCode' = 0 /\ given' = given
        BY <1>6, <3>3 DEF Saves
      <4>2. config = 0
        BY <3>1, <3>3 DEF ChangeFits
      <4> QED
        BY <3>1, <4>1, <4>2 DEF ChangeFits, SettingsFit
    <3> QED
      BY <3>1, <3>2, <3>3 DEF ChangeFits
  <2> QED
    BY <2>1, <2>2
<1>7. CASE Restarts
  <2>1. SlicersFit'
    BY <1>7, AwayFits DEF Restarts, SlicersFit
  <2>2. ChangeFits' /\ SettingsFit'
    BY <1>7 DEF Restarts, Nobody, stored, ChangeFits, SettingsFit
  <2> QED
    BY <2>1, <2>2
<1>8. CASE Forgets \/ Resolves
  BY <1>8 DEF Forgets, Resolves, Frame, stored, ChangeFits, SlicersFit, SettingsFit
<1> QED
  BY <1>1, <1>2, <1>3, <1>4, <1>5, <1>6, <1>7, <1>8

LEMMA SessionStays ==
    ASSUME SessionInv, [SessionNext]_sessionVars
    PROVE  SessionInv'
<1>1. CASE UNCHANGED sessionVars
  BY <1>1 DEF sessionVars, stored, SessionInv, SlicersFit, ChangeFits, SettingsFit
<1> QED
  BY <1>1, SlicerSteps, ChangeSteps DEF SessionNext

\* However logins, publishes, faults and changes of the settings overlap, and whichever handlers work
\* on after their connections: whoever was let in had given the code of the configuration in force at
\* that moment, and whoever is connected is of the one in force; the code last given to the owner is
\* in force and comes back after a restart; and a publish that is redelivered is acted on once
\* (native_gateway.py: enable(), disable(), close(), authenticate(), mqtt()).
THEOREM SessionsAreSound == SessionSpec => []SessionsSound
<1>1. SessionInv => SessionsSound
  <2> SUFFICES ASSUME SessionInv PROVE SessionsSound
    OBVIOUS
  <2>1. SessionIsCurrent /\ ActedOnce
    BY DEF SessionInv, SlicersFit, SlicerFits, SlicerRec, Running, SessionIsCurrent, ActedOnce
  <2>2. GivenIsKept
    BY DEF SessionInv, SettingsFit, GivenIsKept
  <2> QED
    BY <2>1, <2>2 DEF SessionsSound
<1> QED
  BY <1>1, InitFits, SessionStays, PTL DEF SessionSpec

-----------------------------------------------------------------------------

(***************************************************************************)
(* The identity a phone pins.  Once a key is published it is the key, and   *)
(* whatever a process has loaded, signed or shown is that one.              *)
(***************************************************************************)
MakerRec == [at : {"rest", "keyless", "missing", "load", "mismatch", "publish", "judge", "sign", "serve"}, made : Nat, loaded : Nat, pin : Nat]

MakerFits(x, key) ==
    /\ x.at # "mismatch" /\ (x.at = "missing" => key # 0)
    /\ x.at = "publish" => x.made # 0
    /\ x.at \in {"load", "judge", "sign", "serve"} => key # 0
    /\ x.at \in {"judge", "sign", "serve"} => x.loaded = key

IdentityFits ==
    /\ keyFile \in Nat /\ keysMade \in Nat /\ certFile \in [key : Nat, current : BOOLEAN]
    /\ certFile.key # 0 => certFile.key = keyFile
    /\ \A p \in pins : p = keyFile /\ keyFile # 0
    /\ maker \in [Makers -> MakerRec] /\ \A m \in Makers : MakerFits(maker[m], keyFile)

\* One process takes a step, and the key that is published stays.
LEMMA MakerPut ==
    ASSUME IdentityFits, NEW m \in Makers, NEW x \in MakerRec, maker' = [maker EXCEPT ![m] = x],
           keyFile # 0 => keyFile' = keyFile, MakerFits(x, keyFile')
    PROVE  maker' \in [Makers -> MakerRec] /\ \A n \in Makers : MakerFits(maker'[n], keyFile')
<1>1. maker' \in [Makers -> MakerRec]
  BY DEF IdentityFits
<1>2. ASSUME NEW n \in Makers PROVE MakerFits(maker'[n], keyFile')
  <2>1. CASE n = m
    BY <2>1 DEF IdentityFits, MakerFits
  <2>2. CASE n # m
    BY <2>2 DEF IdentityFits, MakerFits
  <2> QED
    BY <2>1, <2>2
<1> QED
  BY <1>1, <1>2

LEMMA MakerSteps ==
    ASSUME IdentityFits, NEW m \in Makers,
           Looks(m) \/ Makes(m) \/ Links(m) \/ Loads(m) \/ Judges(m) \/ Signs(m) \/ Serves(m) \/ Stops(m)
    PROVE  IdentityFits'
<1> DEFINE x == maker[m]
<1>0. x \in MakerRec /\ MakerFits(x, keyFile) /\ NoMaker \in MakerRec /\ NoMaker.at = "rest"
  BY DEF IdentityFits, MakerRec, NoMaker
<1>1. CASE Looks(m)
  <2> DEFINE y == [NoMaker EXCEPT !.at = IF keyFile # 0 THEN "load" ELSE "keyless"]
  <2>1. y \in MakerRec /\ y.at = IF keyFile # 0 THEN "load" ELSE "keyless"
    BY DEF MakerRec, NoMaker
  <2>2. maker' = [maker EXCEPT ![m] = y] /\ UNCHANGED <<keyFile, certFile, pins, keysMade>>
    BY <1>1 DEF Looks, Maker
  <2> HIDE DEF y
  <2>3. MakerFits(y, keyFile')
    BY <2>1, <2>2 DEF MakerFits
  <2> QED
    BY <2>1, <2>2, <2>3, MakerPut DEF IdentityFits
<1>8. CASE Makes(m)
  <2>0. x.at = "keyless" /\ UNCHANGED <<keyFile, certFile, pins>>
    BY <1>8 DEF Makes
  <2>1. CASE certFile.key # 0
    <3> DEFINE y == [x EXCEPT !.at = "missing"]
    <3>1. y \in MakerRec /\ y.at = "missing"
      BY <1>0 DEF MakerRec
    <3>2. maker' = [maker EXCEPT ![m] = y] /\ UNCHANGED keysMade
      BY <1>8, <2>1 DEF Makes, Maker
    <3> HIDE DEF y
    <3>3. MakerFits(y, keyFile')
      BY <2>0, <2>1, <3>1 DEF MakerFits, IdentityFits
    <3> QED
      BY <2>0, <3>1, <3>2, <3>3, MakerPut DEF IdentityFits
  <2>2. CASE certFile.key = 0
    <3> DEFINE y == [x EXCEPT !.at = "publish", !.made = keysMade + 1]
    <3>1. y \in MakerRec /\ y.at = "publish" /\ y.made # 0
      <4>1. keysMade + 1 \in Nat /\ keysMade + 1 # 0
        BY DEF IdentityFits
      <4> QED
        BY <1>0, <4>1 DEF MakerRec
    <3>2. maker' = [maker EXCEPT ![m] = y] /\ keysMade' = keysMade + 1
      BY <1>8, <2>2 DEF Makes, Maker
    <3> HIDE DEF y
    <3>3. MakerFits(y, keyFile')
      BY <3>1 DEF MakerFits
    <3> QED
      BY <2>0, <3>1, <3>2, <3>3, MakerPut DEF IdentityFits
  <2> QED
    BY <2>1, <2>2
<1>2. CASE Links(m)
  <2> DEFINE y == [x EXCEPT !.at = "load"]
  <2>1. y \in MakerRec /\ y.at = "load"
    BY <1>0 DEF MakerRec
  <2>2. /\ maker' = [maker EXCEPT ![m] = y] /\ UNCHANGED <<certFile, pins, keysMade>>
        /\ keyFile' = Linked(x.made) /\ x.at = "publish"
    BY <1>2 DEF Links, Maker
  <2>3. keyFile' \in Nat /\ keyFile' # 0 /\ (keyFile # 0 => keyFile' = keyFile)
    BY <1>0, <2>2 DEF Linked, MakerFits, MakerRec, IdentityFits
  <2> HIDE DEF y
  <2>4. MakerFits(y, keyFile')
    BY <2>1, <2>3 DEF MakerFits
  <2> QED
    BY <2>1, <2>2, <2>3, <2>4, MakerPut DEF IdentityFits
<1>3. CASE Loads(m)
  <2> DEFINE y == [x EXCEPT !.at = "judge", !.loaded = keyFile]
  <2>1. y \in MakerRec /\ y.at = "judge" /\ y.loaded = keyFile
    BY <1>0 DEF MakerRec, IdentityFits
  <2>2. maker' = [maker EXCEPT ![m] = y] /\ UNCHANGED <<keyFile, certFile, pins, keysMade>> /\ x.at = "load"
    BY <1>3 DEF Loads, Maker
  <2> HIDE DEF y
  <2>3. MakerFits(y, keyFile')
    BY <1>0, <2>1, <2>2 DEF MakerFits
  <2> QED
    BY <2>1, <2>2, <2>3, MakerPut DEF IdentityFits
<1>4. CASE Judges(m)
  <2>1. x.at = "judge" /\ UNCHANGED <<keyFile, certFile, pins, keysMade>> /\ certFile.key \in {0, x.loaded}
    BY <1>0, <1>4 DEF Judges, MakerFits, IdentityFits
  <2>2. PICK at \in {"sign", "serve"} : maker' = [maker EXCEPT ![m] = [x EXCEPT !.at = at]]
    BY <1>4, <2>1 DEF Judges, Maker
  <2> DEFINE y == [x EXCEPT !.at = at]
  <2>3. y \in MakerRec /\ y.at \in {"sign", "serve"} /\ y.loaded = x.loaded
    BY <1>0 DEF MakerRec
  <2> HIDE DEF y
  <2>4. MakerFits(y, keyFile')
    BY <1>0, <2>1, <2>3 DEF MakerFits
  <2> QED
    BY <2>1, <2>2, <2>3, <2>4, MakerPut DEF IdentityFits, y
<1>5. CASE Signs(m)
  <2> DEFINE y == [x EXCEPT !.at = "serve"]
  <2>1. y \in MakerRec /\ y.at = "serve" /\ y.loaded = x.loaded
    BY <1>0 DEF MakerRec
  <2>2. /\ maker' = [maker EXCEPT ![m] = y] /\ UNCHANGED <<keyFile, pins, keysMade>> /\ x.at = "sign"
        /\ certFile' = [key |-> x.loaded, current |-> TRUE]
    BY <1>5 DEF Signs, Maker
  <2> HIDE DEF y
  <2>3. MakerFits(y, keyFile')
    BY <1>0, <2>1, <2>2 DEF MakerFits
  <2>4. certFile' \in [key : Nat, current : BOOLEAN] /\ certFile'.key = keyFile
    BY <1>0, <2>2 DEF MakerFits, IdentityFits
  <2> QED
    BY <2>1, <2>2, <2>3, <2>4, MakerPut DEF IdentityFits
<1>6. CASE Serves(m)
  <2> DEFINE y == [x EXCEPT !.pin = x.loaded]
  <2>1. y \in MakerRec /\ y.at = x.at /\ y.loaded = x.loaded
    BY <1>0 DEF MakerRec
  <2>2. /\ maker' = [maker EXCEPT ![m] = y] /\ UNCHANGED <<keyFile, certFile, keysMade>> /\ x.at = "serve"
        /\ pins' = pins \cup {x.loaded}
    BY <1>6 DEF Serves, Maker
  <2> HIDE DEF y
  <2>3. MakerFits(y, keyFile') /\ x.loaded = keyFile /\ keyFile # 0
    BY <1>0, <2>1, <2>2 DEF MakerFits
  <2> QED
    BY <2>1, <2>2, <2>3, MakerPut DEF IdentityFits
<1>7. CASE Stops(m)
  <2>1. maker' = [maker EXCEPT ![m] = NoMaker] /\ UNCHANGED <<keyFile, certFile, pins, keysMade>>
    BY <1>7 DEF Stops
  <2>2. MakerFits(NoMaker, keyFile')
    BY <1>0 DEF MakerFits, NoMaker
  <2> QED
    BY <1>0, <2>1, <2>2, MakerPut DEF IdentityFits
<1> QED
  BY <1>1, <1>2, <1>3, <1>4, <1>5, <1>6, <1>7, <1>8

(***************************************************************************)
(* Invitations: one that is spent, for every phone that got a device.       *)
(***************************************************************************)
DeviceRec == [secret : Secrets \cup {None}, tokens : Nat]
Devices == {p \in Phones : device[p] # "none"}
Spent == {s \in Secrets : invitation[s] = "gone"}

DevicesFit ==
    /\ invitation \in [Secrets -> {"none", "active", "gone"}]
    /\ device \in [Phones -> {"none", "active", "revoked"}] /\ claim \in [Phones -> DeviceRec]
    /\ \A p \in Phones : claim[p].secret # None => device[p] = "none"
    /\ InvitedOnce

LEMMA Counted ==
    ASSUME CredentialConstants, NEW A \in SUBSET Secrets, NEW D \in SUBSET Phones
    PROVE  /\ Cardinality(A) \in Nat /\ Cardinality(D) \in Nat
           /\ \A s \in Secrets \ A : Cardinality(A \cup {s}) = Cardinality(A) + 1
           /\ \A p \in Phones \ D : Cardinality(D \cup {p}) = Cardinality(D) + 1
<1>1. IsFiniteSet(A) /\ IsFiniteSet(D)
  BY FS_Subset DEF CredentialConstants
<1> QED
  BY <1>1, FS_CardinalityType, FS_AddElement

\* An invitation is spent, by a phone or not.
LEMMA SpendsOne ==
    ASSUME CredentialConstants, DevicesFit, NEW s \in Secrets, invitation[s] = "active",
           invitation' = [invitation EXCEPT ![s] = "gone"]
    PROVE  /\ invitation' \in [Secrets -> {"none", "active", "gone"}]
           /\ Cardinality(Spent') = Cardinality(Spent) + 1
<1>1. Spent' = Spent \cup {s} /\ s \notin Spent
  BY DEF DevicesFit, Spent
<1> QED
  BY <1>1, Counted DEF DevicesFit, Spent

LEMMA InvitedCounts == InvitedOnce <=> Cardinality(Devices) <= Cardinality(Spent)
BY DEF InvitedOnce, Devices, Spent

LEMMA DeviceSteps ==
    ASSUME CredentialConstants, DevicesFit,
           \/ \E s \in Secrets : Invites(s) \/ Ends(s) \/ (\E p \in Phones : Scans(p, s))
           \/ \E p \in Phones : Claims(p) \/ Revokes(p)
    PROVE  DevicesFit'
<1>0. Cardinality(Devices) \in Nat /\ Cardinality(Spent) \in Nat /\ Cardinality(Devices) <= Cardinality(Spent)
  BY Counted, InvitedCounts DEF Devices, Spent, DevicesFit
<1>1. ASSUME NEW s \in Secrets, Invites(s) PROVE DevicesFit'
  <2>1. Spent' = Spent /\ Devices' = Devices
    BY <1>1 DEF Invites, Spent, Devices, DevicesFit
  <2>2. InvitedOnce'
    BY <1>0, <2>1 DEF InvitedOnce, Spent, Devices
  <2> QED
    BY <1>1, <2>2 DEF Invites, DevicesFit
<1>2. ASSUME NEW s \in Secrets, Ends(s) PROVE DevicesFit'
  <2>1. Cardinality(Spent') = Cardinality(Spent) + 1 /\ Devices' = Devices
    BY <1>2, SpendsOne DEF Ends, Devices
  <2>2. InvitedOnce'
    BY <1>0, <2>1 DEF InvitedOnce, Spent, Devices
  <2> QED
    BY <1>2, <2>2, SpendsOne DEF Ends, DevicesFit
<1>3. ASSUME NEW s \in Secrets, NEW p \in Phones, Scans(p, s) PROVE DevicesFit'
  <2>1. UNCHANGED <<invitation, device>> /\ device[p] = "none" /\ claim' = [claim EXCEPT ![p].secret = s]
    BY <1>3 DEF Scans
  <2>2. [claim[p] EXCEPT !.secret = s] \in DeviceRec
    BY DEF DevicesFit, DeviceRec
  <2>3. claim' \in [Phones -> DeviceRec]
    BY <2>1, <2>2 DEF DevicesFit
  <2>4. \A q \in Phones : claim'[q].secret # None => device[q] = "none"
    BY <2>1 DEF DevicesFit
  <2> QED
    BY <2>1, <2>3, <2>4 DEF DevicesFit, InvitedOnce
<1>4. ASSUME NEW p \in Phones, Claims(p) PROVE DevicesFit'
  <2> DEFINE s == claim[p].secret
  <2>1. s \in Secrets /\ s # None /\ device[p] = "none" /\ claim[p] \in DeviceRec
    BY <1>4 DEF Claims, DevicesFit, DeviceRec
  <2>2. CASE Consumed(s)
    <3>1. /\ invitation[s] = "active" /\ invitation' = [invitation EXCEPT ![s] = "gone"]
          /\ device' = [device EXCEPT ![p] = "active"]
          /\ claim' = [claim EXCEPT ![p] = [secret |-> None, tokens |-> claim[p].tokens + 1]]
      BY <1>4, <2>2 DEF Claims, Consumed, DevicesFit
    <3>2. Devices' = Devices \cup {p} /\ p \notin Devices
      BY <2>1, <3>1 DEF Devices, DevicesFit
    <3>3. Cardinality(Devices') = Cardinality(Devices) + 1
      BY <3>2, Counted DEF Devices
    <3>4. Cardinality(Spent') = Cardinality(Spent) + 1 /\ invitation' \in [Secrets -> {"none", "active", "gone"}]
      BY <2>1, <3>1, SpendsOne
    <3>5. InvitedOnce'
      BY <1>0, <3>3, <3>4 DEF InvitedOnce, Spent, Devices
    <3>6. [secret |-> None, tokens |-> claim[p].tokens + 1] \in DeviceRec
      BY <2>1 DEF DeviceRec
    <3>7. /\ claim' \in [Phones -> DeviceRec] /\ device' \in [Phones -> {"none", "active", "revoked"}]
          /\ \A q \in Phones : claim'[q].secret # None => device'[q] = "none"
      BY <3>1, <3>6 DEF DevicesFit
    <3> QED
      BY <3>4, <3>5, <3>7 DEF DevicesFit
  <2>3. CASE ~ Consumed(s)
    <3>1. UNCHANGED <<invitation, device>> /\ claim' = [claim EXCEPT ![p].secret = None]
      BY <1>4, <2>3 DEF Claims
    <3>2. [claim[p] EXCEPT !.secret = None] \in DeviceRec
      BY <2>1 DEF DeviceRec
    <3>3. claim' \in [Phones -> DeviceRec]
      BY <3>1, <3>2 DEF DevicesFit
    <3>4. \A q \in Phones : claim'[q].secret # None => device[q] = "none"
      BY <3>1 DEF DevicesFit
    <3> QED
      BY <3>1, <3>3, <3>4 DEF DevicesFit, InvitedOnce
  <2> QED
    BY <2>2, <2>3
<1>5. ASSUME NEW p \in Phones, Revokes(p) PROVE DevicesFit'
  <2>1. UNCHANGED <<invitation, claim>> /\ device[p] = "active" /\ device' = [device EXCEPT ![p] = "revoked"]
    BY <1>5 DEF Revokes
  <2>2. Devices' = Devices /\ Spent' = Spent
    BY <2>1 DEF Devices, Spent, DevicesFit
  <2>3. InvitedOnce'
    BY <1>0, <2>2 DEF InvitedOnce, Spent, Devices
  <2> QED
    BY <2>1, <2>3 DEF DevicesFit
<1> QED
  BY <1>1, <1>2, <1>3, <1>4, <1>5

(***************************************************************************)
(* Uploads under a slicer's key.                                           *)
(***************************************************************************)
UploadRec == [at : {"none", "read", "refused", "ready", "started", "stored"}, key : {None, "store", "print"},
              checked : BOOLEAN]
UploadsFit ==
    /\ upload \in [Uploads -> UploadRec]
    /\ \A u \in Uploads : upload[u].at \in {"ready", "started", "stored"} => upload[u].checked

LEMMA UploadPut ==
    ASSUME UploadsFit, NEW u \in Uploads, NEW x \in UploadRec, upload' = [upload EXCEPT ![u] = x],
           x.at \in {"ready", "started", "stored"} => x.checked
    PROVE  UploadsFit'
BY DEF UploadsFit

LEMMA UploadSteps ==
    ASSUME UploadsFit, NEW u \in Uploads, Asks(u) \/ Rechecks(u) \/ Sends(u)
    PROVE  UploadsFit'
<1>0. upload[u] \in UploadRec
  BY DEF UploadsFit
<1>1. CASE Asks(u)
  <2>1. PICK key \in {"store", "print"} :
           upload' = [upload EXCEPT ![u] = [NoUpload EXCEPT !.at = "read", !.key = key]]
    BY <1>1 DEF Asks, Upload
  <2> DEFINE x == [NoUpload EXCEPT !.at = "read", !.key = key]
  <2>2. x \in UploadRec /\ x.at = "read"
    BY DEF NoUpload, UploadRec
  <2> QED
    BY <2>1, <2>2, UploadPut
<1>2. CASE Rechecks(u)
  <2>1. CASE StillHeld /\ Upload(u, [upload[u] EXCEPT !.at = "ready", !.checked = (grant = "active")])
    <3> DEFINE x == [upload[u] EXCEPT !.at = "ready", !.checked = TRUE]
    <3>1. upload' = [upload EXCEPT ![u] = x]
      BY <2>1 DEF StillHeld, Upload
    <3>2. x \in UploadRec /\ x.checked
      BY <1>0 DEF UploadRec
    <3> QED
      BY <3>1, <3>2, UploadPut
  <2>2. CASE Upload(u, [upload[u] EXCEPT !.at = "refused"])
    <3>1. [upload[u] EXCEPT !.at = "refused"] \in UploadRec /\ [upload[u] EXCEPT !.at = "refused"].at = "refused"
      BY <1>0 DEF UploadRec
    <3> QED
      BY <2>2, <3>1, UploadPut DEF Upload
  <2> QED
    BY <1>2, <2>1, <2>2 DEF Rechecks
<1>3. CASE Sends(u)
  <2>1. PICK at \in {"started", "stored", "refused"} : upload' = [upload EXCEPT ![u] = [upload[u] EXCEPT !.at = at]]
    BY <1>3 DEF Sends, Upload
  <2>2. upload[u].checked
    BY <1>3 DEF Sends, UploadsFit
  <2> DEFINE x == [upload[u] EXCEPT !.at = at]
  <2>3. x \in UploadRec /\ x.checked = upload[u].checked
    BY <1>0 DEF UploadRec
  <2> QED
    BY <2>1, <2>2, <2>3, UploadPut
<1> QED
  BY <1>1, <1>2, <1>3

CredentialInv == IdentityFits /\ DevicesFit /\ UploadsFit

LEMMA CredentialStarts ==
    ASSUME CredentialConstants, CredentialInit
    PROVE  CredentialInv
<1>1. IdentityFits
  BY DEF CredentialInit, IdentityFits, MakerFits, MakerRec, NoMaker
<1>2. UploadsFit
  BY DEF CredentialInit, UploadsFit, UploadRec, NoUpload
<1>3. DevicesFit
  <2>1. Devices = {}
    BY DEF CredentialInit, Devices
  <2>2. Cardinality(Devices) = 0 /\ Cardinality(Spent) \in Nat
    BY <2>1, Counted, FS_EmptySet DEF Spent
  <2>3. InvitedOnce
    BY <2>2, InvitedCounts
  <2> QED
    BY <2>3 DEF CredentialInit, DevicesFit, DeviceRec
<1> QED
  BY <1>1, <1>2, <1>3 DEF CredentialInv

LEMMA CredentialStays ==
    ASSUME CredentialConstants, CredentialInv, [CredentialNext]_credentialVars
    PROVE  CredentialInv'
<1>1. CASE \E m \in Makers : Looks(m) \/ Makes(m) \/ Links(m) \/ Loads(m) \/ Judges(m) \/ Signs(m) \/ Serves(m) \/ Stops(m)
  <2>1. PICK m \in Makers : Looks(m) \/ Makes(m) \/ Links(m) \/ Loads(m) \/ Judges(m) \/ Signs(m) \/ Serves(m) \/ Stops(m)
    BY <1>1
  <2>2. UNCHANGED <<deviceVars, uploadVars>>
    BY <2>1 DEF Looks, Makes, Links, Loads, Judges, Signs, Serves, Stops, Maker
  <2>3. DevicesFit' /\ UploadsFit'
    BY <2>2 DEF CredentialInv, DevicesFit, UploadsFit, InvitedOnce, deviceVars, uploadVars
  <2> QED
    BY <2>1, <2>3, MakerSteps DEF CredentialInv
<1>2. CASE \/ \E s \in Secrets : Invites(s) \/ Ends(s) \/ (\E p \in Phones : Scans(p, s))
           \/ \E p \in Phones : Claims(p) \/ Revokes(p)
  <2>1. UNCHANGED <<identityVars, uploadVars>>
    BY <1>2 DEF Invites, Ends, Scans, Claims, Revokes, Frozen
  <2>2. IdentityFits' /\ UploadsFit'
    BY <2>1 DEF CredentialInv, IdentityFits, MakerFits, UploadsFit, identityVars, uploadVars
  <2> QED
    BY <1>2, <2>2, DeviceSteps DEF CredentialInv
<1>3. CASE \E u \in Uploads : Asks(u) \/ Rechecks(u) \/ Sends(u)
  <2>1. PICK u \in Uploads : Asks(u) \/ Rechecks(u) \/ Sends(u)
    BY <1>3
  <2>2. UNCHANGED <<identityVars, deviceVars>>
    BY <2>1 DEF Asks, Rechecks, Sends, Upload
  <2>3. IdentityFits' /\ DevicesFit'
    BY <2>2 DEF CredentialInv, IdentityFits, MakerFits, DevicesFit, InvitedOnce, identityVars, deviceVars
  <2> QED
    BY <2>1, <2>3, UploadSteps DEF CredentialInv
<1>4. CASE Ages
  <2>1. /\ certFile' = [certFile EXCEPT !.current = FALSE] /\ UNCHANGED <<keyFile, maker, pins, keysMade, upload>>
        /\ UNCHANGED deviceVars
    BY <1>4 DEF Ages, uploadVars
  <2>2. certFile' \in [key : Nat, current : BOOLEAN] /\ certFile'.key = certFile.key
    BY <2>1 DEF CredentialInv, IdentityFits
  <2>3. IdentityFits'
    BY <2>1, <2>2 DEF CredentialInv, IdentityFits, MakerFits
  <2> QED
    BY <2>1, <2>3 DEF CredentialInv, DevicesFit, UploadsFit, InvitedOnce, deviceVars
<1>5. CASE Withdraws \/ UNCHANGED credentialVars
  <2>1. UNCHANGED <<identityVars, deviceVars, upload>>
    BY <1>5 DEF Withdraws, credentialVars, identityVars, deviceVars
  <2> QED
    BY <2>1 DEF CredentialInv, IdentityFits, MakerFits, DevicesFit, UploadsFit, InvitedOnce, identityVars, deviceVars
<1> QED
  BY <1>1, <1>2, <1>3, <1>4, <1>5 DEF CredentialNext

\* Whatever processes make the identity at once and stop, phones claim and owners revoke: the pin a
\* phone was shown stays the bridge's, an invitation is good for one device, and nothing is sent
\* under a key that was revoked before its file had been read (pairing.py: identity(), claim();
\* api/orca.py: upload()).
THEOREM CredentialsAreSound ==
    ASSUME CredentialConstants
    PROVE  CredentialSpec => []CredentialsSound
<1>1. CredentialInv => CredentialsSound
  <2> SUFFICES ASSUME CredentialInv PROVE CredentialsSound
    OBVIOUS
  <2>1. PinStays
    BY DEF CredentialInv, IdentityFits, MakerFits, PinStays
  <2>2. SentWasHeld /\ InvitedOnce
    BY DEF CredentialInv, DevicesFit, UploadsFit, SentWasHeld
  <2> QED
    BY <2>1, <2>2 DEF CredentialsSound
<1> QED
  BY <1>1, CredentialStarts, CredentialStays, PTL DEF CredentialSpec

-----------------------------------------------------------------------------

(***************************************************************************)
(* A transfer over FTPS.  A passive channel has no connection but its own,  *)
(* and what a session keeps of its client's commands, the directory, the    *)
(* offset and the file, is what the printer's connection is given.          *)
(***************************************************************************)
SessionRec == [at : {"out", "idle", "slot", "data", "through"}, dir : Dirs \cup {Home}, there : Dirs \cup {Home},
               rest : BOOLEAN, channel : Nat, got : Nat \X Nat, file : Files \cup {"none"}, retr : BOOLEAN,
               clear : Nat, meant : BOOLEAN]
Transfers == {"slot", "data", "through"}

\* With an inbox (cust) there is no offset and the server's own directory; with a print (pr)
\* under way, an upload let in since is not onto its file.
TransferFits(x, cust, pr) ==
    /\ x.clear <= pr.n
    /\ (x.meant => x.rest) /\ (x.rest => x.meant)
    /\ cust \/ (x.retr /\ x.at \in Transfers) => ~ x.rest
    /\ x.at = "through" => ~ cust /\ ~ x.retr /\ x.got[1] = x.got[2]
    /\ ~ cust /\ x.at # "through" => x.there = x.dir
    /\ ~ cust /\ ~ x.retr /\ x.at \in Transfers /\ pr.n <= x.clear => x.file # pr.file

ChannelsFit == /\ channel \in Seq(Nat)
               /\ \A n \in DOMAIN channel : channel[n] \in {Pending, Cancelled, n}
SessionsFit ==
    /\ session \in [Clients -> SessionRec] /\ custody \in BOOLEAN
    /\ printing \in [file : Files \cup {"none"}, n : Nat]
    /\ \A c \in Clients : /\ session[c].channel \in {0} \cup DOMAIN channel
                          /\ TransferFits(session[c], custody, printing)

\* No client asks for a download at an offset.
NoOdd == \A l \in FtpsLimits : l = [e \in DOMAIN l |-> l[e]] /\ "odd" \in DOMAIN l /\ l["odd"] = 0
SpareEven == spare = [e \in DOMAIN spare |-> spare[e]] /\ "odd" \in DOMAIN spare /\ spare["odd"] = 0

FtpsInv == ChannelsFit /\ SessionsFit /\ SpareEven /\ FtpsSound

LEMMA FreshFits ==
    ASSUME NEW cust, NEW pr, pr.n \in Nat
    PROVE  /\ Fresh \in SessionRec /\ Fresh.channel = 0 /\ Fresh.at = "out"
           /\ TransferFits(Fresh, cust, pr)
<1>1. Fresh \in SessionRec
  BY DEF Fresh, SessionRec
<1>2. /\ Fresh.channel = 0 /\ Fresh.at = "out" /\ Fresh.clear = 0 /\ Fresh.meant = FALSE /\ Fresh.rest = FALSE
      /\ Fresh.there = Fresh.dir
  BY DEF Fresh
<1> QED
  BY <1>1, <1>2 DEF TransferFits, Transfers

LEMMA SparesEven ==
    ASSUME SpareEven, NEW what \in {"moves", "faults", "prints"}, Spends(what)
    PROVE  SpareEven'
<1>1. spare' = [spare EXCEPT ![what] = @ - 1] /\ what # "odd"
  BY DEF Spends
<1>2. DOMAIN spare' = DOMAIN spare /\ spare'["odd"] = 0 /\ spare' = [e \in DOMAIN spare' |-> spare'[e]]
  BY <1>1 DEF SpareEven
<1> QED
  BY <1>2 DEF SpareEven

\* Closing a channel that got no connection; the channels stay what they are.
LEMMA ChannelCleared ==
    ASSUME ChannelsFit, SessionsFit, NEW c \in Clients
    PROVE  /\ Cleared(c) \in Seq(Nat) /\ DOMAIN Cleared(c) = DOMAIN channel /\ Len(Cleared(c)) = Len(channel)
           /\ \A n \in DOMAIN channel : Cleared(c)[n] \in {Pending, Cancelled, n}
<1>1. CASE session[c].channel = 0
  BY <1>1 DEF Cleared, ChannelsFit
<1>2. CASE session[c].channel # 0
  <2> DEFINE k == session[c].channel
             v == IF channel[k] = Pending THEN Cancelled ELSE channel[k]
  <2>1. k \in DOMAIN channel /\ channel \in Seq(Nat) /\ DOMAIN channel = 1 .. Len(channel)
    BY <1>2, LenProperties DEF SessionsFit, ChannelsFit
  <2>2. v \in Nat /\ v \in {Pending, Cancelled, k}
    BY <2>1, ElementOfSeq DEF ChannelsFit, Cancelled, Pending
  <2>3. Cleared(c) = [channel EXCEPT ![k] = v]
    BY <1>2 DEF Cleared, Shut
  <2> HIDE DEF k, v
  <2>4. Cleared(c) \in Seq(Nat) /\ Len(Cleared(c)) = Len(channel)
    BY <2>1, <2>2, <2>3, ExceptSeq
  <2>5. DOMAIN Cleared(c) = DOMAIN channel
    BY <2>3
  <2> QED
    BY <2>1, <2>2, <2>3, <2>4, <2>5 DEF ChannelsFit
<1> QED
  BY <1>1, <1>2

\* One session is written; its channel is one of those there are then.
LEMMA SessionPut ==
    ASSUME ChannelsFit, SessionsFit, NEW c \in Clients, NEW x \in SessionRec, SessionIs(c, x),
           UNCHANGED <<custody, printing>>, TransferFits(x, custody, printing),
           DOMAIN channel \subseteq DOMAIN channel', x.channel \in {0} \cup DOMAIN channel'
    PROVE  SessionsFit'
<1>1. session' = [session EXCEPT ![c] = x] /\ session' \in [Clients -> SessionRec]
  BY DEF SessionIs, SessionsFit
<1>2. ASSUME NEW d \in Clients
      PROVE  /\ session'[d].channel \in {0} \cup DOMAIN channel'
             /\ TransferFits(session'[d], custody', printing')
  <2>1. CASE d = c
    BY <1>1, <2>1 DEF SessionsFit
  <2>2. CASE d # c
    BY <1>1, <2>2 DEF SessionsFit
  <2> QED
    BY <2>1, <2>2
<1> QED
  BY <1>1, <1>2 DEF SessionsFit

\* A session is written and its channel given up.
LEMMA DropsFit ==
    ASSUME ChannelsFit, SessionsFit, NEW c \in Clients, NEW x \in SessionRec, Drops(c, x),
           UNCHANGED <<custody, printing>>, TransferFits([x EXCEPT !.channel = 0], custody, printing)
    PROVE  ChannelsFit' /\ SessionsFit'
<1> DEFINE y == [x EXCEPT !.channel = 0]
<1>1. y \in SessionRec /\ y.channel = 0
  BY DEF SessionRec
<1>2. SessionIs(c, y) /\ channel' = Cleared(c)
  BY DEF Drops
<1>3. ChannelsFit' /\ DOMAIN channel' = DOMAIN channel
  BY <1>2, ChannelCleared DEF ChannelsFit
<1> HIDE DEF y
<1>4. TransferFits(y, custody, printing)
  BY DEF y
<1> QED
  BY <1>1, <1>2, <1>3, <1>4, SessionPut

LEMMA DropsFresh ==
    ASSUME ChannelsFit, SessionsFit, NEW c \in Clients, Drops(c, Fresh), UNCHANGED <<custody, printing>>
    PROVE  ChannelsFit' /\ SessionsFit'
<1>1. printing.n \in Nat
  BY DEF SessionsFit
<1> DEFINE y == [Fresh EXCEPT !.channel = 0]
<1>2. y.clear = 0 /\ y.meant = FALSE /\ y.rest = FALSE /\ y.at = "out" /\ y.there = y.dir
  BY DEF Fresh
<1> HIDE DEF y
<1>3. TransferFits(y, custody, printing)
  BY <1>1, <1>2 DEF TransferFits, Transfers
<1>4. Fresh \in SessionRec
  BY <1>1, FreshFits
<1> QED
  BY <1>3, <1>4, DropsFit DEF y

(***************************************************************************)
(* The control connection.                                                  *)
(***************************************************************************)
LEMMA CommandSteps ==
    ASSUME FtpsInv, NEW c \in Clients,
           \/ SignsIn(c) \/ Rests(c) \/ Passive(c) \/ Enters(c)
           \/ \E d \in Dirs : Moves(c, d)
    PROVE  ChannelsFit' /\ SessionsFit' /\ SpareEven'
<1> DEFINE s == session[c]
<1>0. /\ s \in SessionRec /\ TransferFits(s, custody, printing) /\ s.channel \in {0} \cup DOMAIN channel
      /\ printing.n \in Nat /\ ChannelsFit /\ SessionsFit /\ SpareEven
  BY DEF FtpsInv, SessionsFit
<1>1. CASE SignsIn(c)
  <2> DEFINE x == [Fresh EXCEPT !.at = "idle"]
  <2>1. /\ x \in SessionRec /\ x.channel = 0 /\ x.at = "idle" /\ x.clear = 0 /\ x.meant = FALSE /\ x.rest = FALSE
        /\ x.there = x.dir
    BY DEF Fresh, SessionRec
  <2>2. SessionIs(c, x) /\ UNCHANGED <<custody, printing, channel, spare>>
    BY <1>1 DEF SignsIn, Around
  <2> HIDE DEF x
  <2>3. TransferFits(x, custody, printing)
    BY <1>0, <2>1 DEF TransferFits, Transfers
  <2>4. SessionsFit'
    BY <1>0, <2>1, <2>2, <2>3, SessionPut
  <2> QED
    BY <1>0, <2>2, <2>4 DEF ChannelsFit, SpareEven
<1>2. CASE Rests(c)
  <2> DEFINE x == [s EXCEPT !.rest = TRUE, !.meant = TRUE]
  <2>1. /\ x \in SessionRec /\ x.rest = TRUE /\ x.meant = TRUE /\ x.at = s.at /\ x.channel = s.channel /\ x.clear = s.clear
        /\ x.there = s.there /\ x.dir = s.dir
    BY <1>0 DEF SessionRec
  <2>2. /\ SessionIs(c, x) /\ UNCHANGED <<custody, printing, channel>> /\ s.at = "idle" /\ ~ custody
        /\ Spends("moves")
    BY <1>2 DEF Rests, Around
  <2> HIDE DEF x
  <2>3. TransferFits(x, custody, printing)
    BY <1>0, <2>1, <2>2 DEF TransferFits, Transfers
  <2>4. SessionsFit' /\ SpareEven'
    BY <1>0, <2>1, <2>2, <2>3, SessionPut, SparesEven
  <2> QED
    BY <1>0, <2>2, <2>4 DEF ChannelsFit
<1>3. CASE Passive(c)
  <2> DEFINE x == [s EXCEPT !.channel = Len(channel) + 1]
             cleared == Cleared(c)
  <2>1. /\ cleared \in Seq(Nat) /\ Len(cleared) = Len(channel) /\ Len(channel) \in Nat /\ Pending \in Nat
        /\ DOMAIN channel = 1 .. Len(channel) /\ \A n \in DOMAIN channel : cleared[n] \in {Pending, Cancelled, n}
    BY <1>0, ChannelCleared, LenProperties DEF ChannelsFit, Pending
  <2>2. /\ s.at = "idle" /\ channel' = Append(cleared, Pending) /\ SessionIs(c, x)
        /\ UNCHANGED <<custody, printing, spare>>
    BY <1>3 DEF Passive, Around
  <2>0. Len(channel) + 1 \in Nat
    BY <2>1
  <2>3. /\ x \in SessionRec /\ x.channel = Len(channel) + 1 /\ x.at = s.at /\ x.rest = s.rest /\ x.meant = s.meant
        /\ x.clear = s.clear /\ x.there = s.there /\ x.dir = s.dir
    BY <1>0, <2>0 DEF SessionRec
  <2> HIDE DEF x, cleared
  <2>4. /\ channel' \in Seq(Nat) /\ DOMAIN channel' = 1 .. Len(channel) + 1
        /\ channel'[Len(channel) + 1] = Pending /\ \A n \in 1 .. Len(channel) : channel'[n] = cleared[n]
    BY <2>1, <2>2, AppendProperties, LenProperties
  <2>5. ChannelsFit' /\ DOMAIN channel \subseteq DOMAIN channel' /\ Len(channel) + 1 \in DOMAIN channel'
    <3>1. ASSUME NEW n \in DOMAIN channel' PROVE channel'[n] \in {Pending, Cancelled, n}
      <4>1. CASE n = Len(channel) + 1
        BY <2>4, <4>1
      <4>2. CASE n \in DOMAIN channel
        BY <2>1, <2>4, <4>2
      <4> QED
        BY <2>1, <2>4, <3>1, <4>1, <4>2
    <3>2. DOMAIN channel \subseteq DOMAIN channel' /\ Len(channel) + 1 \in DOMAIN channel'
      BY <2>0, <2>1, <2>4
    <3>3. \A n \in DOMAIN channel' : channel'[n] \in {Pending', Cancelled', n}
      BY <3>1 DEF Pending, Cancelled
    <3> QED
      BY <2>4, <3>2, <3>3 DEF ChannelsFit
  <2>6. TransferFits(x, custody, printing)
    BY <1>0, <2>2, <2>3 DEF TransferFits, Transfers
  <2>7. SessionsFit'
    BY <1>0, <2>2, <2>3, <2>5, <2>6, SessionPut
  <2> QED
    BY <1>0, <2>2, <2>5, <2>7 DEF SpareEven
<1>4. CASE Enters(c)
  <2> DEFINE x == [s EXCEPT !.at = "data"]
  <2>1. /\ x \in SessionRec /\ x.at = "data" /\ x.channel = s.channel /\ x.rest = s.rest /\ x.meant = s.meant
        /\ x.clear = s.clear /\ x.there = s.there /\ x.dir = s.dir /\ x.retr = s.retr /\ x.file = s.file
    BY <1>0 DEF SessionRec
  <2>2. SessionIs(c, x) /\ UNCHANGED <<custody, printing, channel, spare>> /\ s.at = "slot"
    BY <1>4 DEF Enters, Around
  <2> HIDE DEF x
  <2>3. TransferFits(x, custody, printing)
    BY <1>0, <2>1, <2>2 DEF TransferFits, Transfers
  <2>4. SessionsFit'
    BY <1>0, <2>1, <2>2, <2>3, SessionPut
  <2> QED
    BY <1>0, <2>2, <2>4 DEF ChannelsFit, SpareEven
<1>5. ASSUME NEW d \in Dirs, Moves(c, d) PROVE ChannelsFit' /\ SessionsFit' /\ SpareEven'
  <2> DEFINE x == [s EXCEPT !.dir = d, !.there = IF custody THEN @ ELSE d]
  <2>1. /\ x \in SessionRec /\ x.at = s.at /\ x.channel = s.channel /\ x.rest = s.rest /\ x.meant = s.meant
        /\ x.clear = s.clear /\ x.dir = d /\ (~ custody => x.there = d)
    BY <1>0 DEF SessionRec
  <2>2. SessionIs(c, x) /\ UNCHANGED <<custody, printing, channel>> /\ s.at = "idle" /\ Spends("moves")
    BY <1>5 DEF Moves, Around
  <2> HIDE DEF x
  <2>3. TransferFits(x, custody, printing)
    BY <1>0, <2>1, <2>2 DEF TransferFits, Transfers
  <2>4. SessionsFit' /\ SpareEven'
    BY <1>0, <2>1, <2>2, <2>3, SessionPut, SparesEven
  <2> QED
    BY <1>0, <2>2, <2>4 DEF ChannelsFit
<1> QED
  BY <1>1, <1>2, <1>3, <1>4, <1>5

(***************************************************************************)
(* Transfers: let in, received, passed on, ended.                           *)
(***************************************************************************)
LEMMA OpensFit ==
    ASSUME FtpsInv, NEW c \in Clients, NEW f \in Files, NEW retr \in BOOLEAN, Opens(c, f, retr)
    PROVE  ChannelsFit' /\ SessionsFit' /\ SpareEven'
<1> DEFINE s == session[c]
<1>0. /\ s \in SessionRec /\ TransferFits(s, custody, printing) /\ s.channel \in {0} \cup DOMAIN channel
      /\ printing \in [file : Files \cup {"none"}, n : Nat] /\ ChannelsFit /\ SessionsFit /\ SpareEven
  BY DEF FtpsInv, SessionsFit
<1>1. s.at = "idle" /\ UNCHANGED <<custody, printing, spare>> /\ (retr => ~ s.rest)
  BY <1>0 DEF Opens, Around, SpareEven
<1>2. CASE Drops(c, s)
  <2> DEFINE x == [s EXCEPT !.channel = 0]
  <2>1. /\ x.at = s.at /\ x.rest = s.rest /\ x.meant = s.meant /\ x.clear = s.clear /\ x.there = s.there /\ x.dir = s.dir
    BY <1>0 DEF SessionRec
  <2> HIDE DEF x
  <2>2. TransferFits(x, custody, printing)
    BY <1>0, <1>1, <2>1 DEF TransferFits, Transfers
  <2>3. ChannelsFit' /\ SessionsFit'
    BY <1>0, <1>1, <1>2, <2>2, DropsFit DEF x
  <2> QED
    BY <1>0, <1>1, <2>3 DEF SpareEven
<1>3. CASE ~ Drops(c, s)
  <2> DEFINE x == [s EXCEPT !.at = "slot", !.file = f, !.retr = retr, !.clear = printing.n]
  <2>1. /\ x \in SessionRec /\ x.at = "slot" /\ x.file = f /\ x.retr = retr /\ x.clear = printing.n
        /\ x.channel = s.channel /\ x.rest = s.rest /\ x.meant = s.meant /\ x.there = s.there /\ x.dir = s.dir
    BY <1>0 DEF SessionRec
  <2>2. SessionIs(c, x) /\ UNCHANGED channel /\ (~ custody /\ ~ retr => f # printing.file)
    BY <1>3 DEF Opens, Clear, Guarded
  <2> HIDE DEF x
  <2>3. x.clear <= printing.n
    BY <1>0, <2>1
  <2>4. TransferFits(x, custody, printing)
    BY <1>0, <1>1, <2>1, <2>2, <2>3 DEF TransferFits, Transfers
  <2>5. SessionsFit'
    BY <1>0, <1>1, <2>1, <2>2, <2>4, SessionPut
  <2> QED
    BY <1>0, <1>1, <2>2, <2>5 DEF ChannelsFit, SpareEven
<1> QED
  BY <1>2, <1>3

\* What a session's channel is connected to is the connection its client made for it.
LEMMA OwnConnection ==
    ASSUME ChannelsFit, SessionsFit, NEW c \in Clients, Connection(c) # 0
    PROVE  Connection(c) = session[c].channel /\ session[c].channel \in Nat
BY DEF ChannelsFit, SessionsFit, SessionRec, Connection, Pending

\* Nothing is answered, or one transfer that did what was meant.
LEMMA StillSound ==
    ASSUME FtpsSound, refused' => refused, spoiled' => spoiled,
           ended' = ended \/ \E a : ended' = ended \cup {[meant |-> a, did |-> a]}
    PROVE  FtpsSound'
<1>1. SentIsTaken'
  BY DEF FtpsSound, SentIsTaken
<1>2. PrintedIsKept'
  BY DEF FtpsSound, PrintedIsKept
<1>3. ASSUME ended' = ended PROVE AnsweredAsMeant'
  BY <1>3 DEF FtpsSound, AnsweredAsMeant
<1>4. ASSUME NEW a, ended' = ended \cup {[meant |-> a, did |-> a]} PROVE AnsweredAsMeant'
  <2> DEFINE b == [meant |-> a, did |-> a]
  <2>1. b.did = b.meant
    OBVIOUS
  <2> HIDE DEF b
  <2>2. ended' = ended \cup {b}
    BY <1>4 DEF b
  <2> QED
    BY <2>1, <2>2 DEF FtpsSound, AnsweredAsMeant
<1> QED
  BY <1>1, <1>2, <1>3, <1>4 DEF FtpsSound, AnsweredAsMeant

LEMMA ReceivedFits ==
    ASSUME FtpsInv, NEW c \in Clients, Received(c)
    PROVE  FtpsInv'
<1> DEFINE s == session[c]
<1>0. /\ s \in SessionRec /\ TransferFits(s, custody, printing) /\ ChannelsFit /\ SessionsFit /\ SpareEven /\ FtpsSound
  BY DEF FtpsInv, SessionsFit
<1>1. /\ s.at = "data" /\ ~ s.retr /\ Connection(c) = s.channel /\ UNCHANGED <<custody, printing, refused, spoiled, spare>>
  BY <1>0, OwnConnection DEF Received, Around
<1>2. CASE custody
  <2> DEFINE x == [s EXCEPT !.at = "idle"]
             y == [x EXCEPT !.channel = 0]
  <2>1. /\ x \in SessionRec /\ y.at = "idle" /\ y.rest = s.rest /\ y.meant = s.meant /\ y.clear = s.clear
    BY <1>0 DEF SessionRec
  <2>2. Drops(c, x) /\ ended' = ended \cup {[meant |-> Meant(c, s.channel), did |-> Did(s.dir, c, Connection(c), FALSE)]}
    BY <1>2 DEF Received
  <2>3. s.meant = FALSE
    BY <1>0, <1>2 DEF TransferFits, SessionRec
  <2>4. Meant(c, s.channel) = Did(s.dir, c, Connection(c), FALSE)
    BY <1>1, <2>3 DEF Meant, Did
  <2> HIDE DEF y
  <2>5. TransferFits(y, custody, printing)
    BY <1>0, <1>2, <2>1 DEF TransferFits, Transfers
  <2> HIDE DEF x
  <2>6. ChannelsFit' /\ SessionsFit'
    BY <1>0, <1>1, <2>1, <2>2, <2>5, DropsFit DEF y
  <2>7. FtpsSound'
    BY <1>0, <1>1, <2>2, <2>4, StillSound
  <2> QED
    BY <1>0, <1>1, <2>6, <2>7 DEF FtpsInv, SpareEven
<1>3. CASE ~ custody
  <2> DEFINE x == [s EXCEPT !.at = "through", !.got = <<s.channel, Connection(c)>>, !.there = Home]
             y == [x EXCEPT !.channel = 0]
  <2>0. <<s.channel, Connection(c)>> \in Nat \X Nat
    BY <1>0, <1>1 DEF SessionRec
  <2>1. /\ x \in SessionRec /\ y.at = "through" /\ y.rest = s.rest /\ y.meant = s.meant /\ y.clear = s.clear
        /\ y.got = <<s.channel, Connection(c)>> /\ y.retr = s.retr /\ y.file = s.file
    BY <1>0, <2>0 DEF SessionRec
  <2>2. Drops(c, x) /\ UNCHANGED ended
    BY <1>3 DEF Received
  <2>3. y.got[1] = y.got[2]
    BY <1>1, <2>1
  <2> HIDE DEF y
  <2>5. TransferFits(y, custody, printing)
    BY <1>0, <1>1, <1>3, <2>1, <2>3 DEF TransferFits, Transfers
  <2> HIDE DEF x
  <2>6. ChannelsFit' /\ SessionsFit'
    BY <1>0, <1>1, <2>1, <2>2, <2>5, DropsFit DEF y
  <2>7. FtpsSound'
    BY <1>0, <1>1, <2>2, StillSound
  <2> QED
    BY <1>0, <1>1, <2>6, <2>7 DEF FtpsInv, SpareEven
<1> QED
  BY <1>2, <1>3

LEMMA StoresFit ==
    ASSUME FtpsInv, NEW c \in Clients, Stores(c)
    PROVE  FtpsInv'
<1> DEFINE s == session[c]
           x == [s EXCEPT !.at = "idle", !.rest = FALSE, !.meant = FALSE, !.got = <<0, 0>>, !.there = s.dir]
<1>0. /\ s \in SessionRec /\ TransferFits(s, custody, printing) /\ s.channel \in {0} \cup DOMAIN channel
      /\ ChannelsFit /\ SessionsFit /\ SpareEven /\ FtpsSound
  BY DEF FtpsInv, SessionsFit
<1>1. /\ s.at = "through" /\ SessionIs(c, x) /\ UNCHANGED <<custody, channel, printing, refused, spare>>
      /\ ended' = ended \cup {[meant |-> Meant(c, s.got[1]), did |-> Did(s.dir, c, s.got[2], s.rest)]}
      /\ spoiled' = (spoiled \/ (s.file = printing.file /\ printing.n <= s.clear))
  BY DEF Stores, Directory, Restored
<1>2. /\ x \in SessionRec /\ x.at = "idle" /\ x.rest = FALSE /\ x.meant = FALSE /\ x.there = x.dir /\ x.channel = s.channel
      /\ x.clear = s.clear
  BY <1>0 DEF SessionRec
<1> HIDE DEF x
<1>3. TransferFits(x, custody, printing)
  BY <1>0, <1>2 DEF TransferFits, Transfers
<1>4. SessionsFit'
  BY <1>0, <1>1, <1>2, <1>3, SessionPut
<1>5. s.got[1] = s.got[2] /\ s.meant = s.rest /\ ~ (s.file = printing.file /\ printing.n <= s.clear)
  BY <1>0, <1>1 DEF TransferFits, Transfers, SessionRec
<1>6. Meant(c, s.got[1]) = Did(s.dir, c, s.got[2], s.rest)
  BY <1>5 DEF Meant, Did
<1>7. FtpsSound'
  <2>1. ~ spoiled'
    BY <1>0, <1>1, <1>5 DEF FtpsSound, PrintedIsKept
  <2> QED
    BY <1>0, <1>1, <1>6, <2>1, StillSound
<1> QED
  BY <1>0, <1>1, <1>4, <1>7 DEF FtpsInv, ChannelsFit, SpareEven

\* What is meant by a download has no offset.
LEMMA OffsetForgotten ==
    ASSUME NEW d, NEW f, NEW u, NEW r
    PROVE  [[dir |-> d, file |-> f, upload |-> u, rest |-> r] EXCEPT !.rest = FALSE]
             = [dir |-> d, file |-> f, upload |-> u, rest |-> FALSE]
<1> DEFINE R == [dir : {d}, file : {f}, upload : {u}, rest : {FALSE, r}]
           x == [dir |-> d, file |-> f, upload |-> u, rest |-> r]
           z == [dir |-> d, file |-> f, upload |-> u, rest |-> FALSE]
<1>1. x \in R /\ x.dir = d /\ x.file = f /\ x.upload = u
  OBVIOUS
<1>2. z \in R /\ z.dir = d /\ z.file = f /\ z.upload = u /\ z.rest = FALSE
  OBVIOUS
<1> HIDE DEF x, z
<1> DEFINE y == [x EXCEPT !.rest = FALSE]
<1>3. y \in R /\ y.rest = FALSE /\ y.dir = d /\ y.file = f /\ y.upload = u
  BY <1>1
<1>4. y = z
  BY <1>2, <1>3
<1> QED
  BY <1>4 DEF x, z

LEMMA RetrievesFit ==
    ASSUME FtpsInv, NEW c \in Clients, Retrieves(c)
    PROVE  FtpsInv'
<1> DEFINE s == session[c]
           x == [s EXCEPT !.at = "idle", !.meant = FALSE]
           y == [x EXCEPT !.channel = 0]
           there == IF custody THEN s.dir ELSE s.there
<1>0. /\ s \in SessionRec /\ TransferFits(s, custody, printing) /\ ChannelsFit /\ SessionsFit /\ SpareEven /\ FtpsSound
  BY DEF FtpsInv, SessionsFit
<1>1. /\ s.at = "data" /\ s.retr /\ Connection(c) = s.channel /\ UNCHANGED <<custody, printing, refused, spoiled, spare>>
      /\ ended' = ended \cup {[meant |-> [Meant(c, s.channel) EXCEPT !.rest = FALSE], did |-> Did(there, c, Connection(c), FALSE)]}
      /\ Drops(c, x)
  BY <1>0, OwnConnection DEF Retrieves, Around
<1>2. /\ x \in SessionRec /\ y.at = "idle" /\ y.rest = s.rest /\ y.meant = FALSE /\ y.clear = s.clear
      /\ y.there = s.there /\ y.dir = s.dir
  BY <1>0 DEF SessionRec
<1>3. there = s.dir /\ ~ s.rest
  BY <1>0, <1>1 DEF TransferFits, Transfers
<1>4. [Meant(c, s.channel) EXCEPT !.rest = FALSE] = Did(there, c, Connection(c), FALSE)
  <2>1. there = s.dir /\ Connection(c) = s.channel
    BY <1>1, <1>3
  <2> HIDE DEF there
  <2> QED
    BY <2>1, OffsetForgotten DEF Meant, Did
<1> HIDE DEF y
<1>5. TransferFits(y, custody, printing)
  BY <1>0, <1>2, <1>3, <1>1 DEF TransferFits, Transfers
<1> HIDE DEF x
<1>6. ChannelsFit' /\ SessionsFit'
  BY <1>0, <1>1, <1>2, <1>5, DropsFit DEF y
<1>7. FtpsSound'
  BY <1>0, <1>1, <1>4, StillSound
<1> QED
  BY <1>0, <1>1, <1>6, <1>7 DEF FtpsInv, SpareEven

LEMMA EndSteps ==
    ASSUME FtpsInv, NEW c \in Clients, Resets(c) \/ Fails(c) \/ Quits(c)
    PROVE  FtpsInv'
<1>1. Drops(c, Fresh) /\ UNCHANGED <<custody, printing, ended, spoiled>>
  BY DEF Resets, Fails, Quits, Disconnects
<1>2. ChannelsFit' /\ SessionsFit'
  BY <1>1, DropsFresh DEF FtpsInv
<1>3. refused' => refused
  <2>1. CASE Resets(c)
    <3>1. refused' = (refused \/ data[Connection(c)] = "whole then cut") /\ data[Connection(c)] = "cut"
      BY <2>1 DEF Resets, Readable, EndFirst
    <3> QED
      BY <3>1
  <2> QED
    BY <2>1 DEF Fails, Quits
<1>4. SpareEven'
  BY SparesEven DEF Resets, Fails, Quits, FtpsInv, SpareEven
<1>5. FtpsSound'
  BY <1>1, <1>3, StillSound DEF FtpsInv
<1> QED
  BY <1>2, <1>4, <1>5 DEF FtpsInv

(***************************************************************************)
(* Connections and prints.                                                  *)
(***************************************************************************)
LEMMA ConnectionSteps ==
    ASSUME FtpsInv, NEW n \in DOMAIN channel, Dials(n) \/ Accepts(n) \/ SendsAll(n) \/ Breaks(n)
    PROVE  FtpsInv'
<1>1. UNCHANGED <<custody, session, printing, ended, refused, spoiled>>
  BY DEF Dials, Accepts, SendsAll, Breaks, Around
<1>2. channel' = channel \/ channel' = [channel EXCEPT ![n] = n]
  BY DEF Dials, Accepts, SendsAll, Breaks, Target, OwnChannel
<1>3. ChannelsFit' /\ DOMAIN channel' = DOMAIN channel
  <2>1. channel \in Seq(Nat) /\ n \in 1 .. Len(channel) /\ n \in Nat
    BY LenProperties DEF FtpsInv, ChannelsFit
  <2>2. CASE channel' = [channel EXCEPT ![n] = n]
    BY <2>1, <2>2, ExceptSeq DEF FtpsInv, ChannelsFit
  <2> QED
    BY <1>2, <2>2 DEF FtpsInv, ChannelsFit
<1>4. SessionsFit'
  BY <1>1, <1>3 DEF FtpsInv, SessionsFit
<1>5. SpareEven'
  BY SparesEven DEF Dials, Accepts, SendsAll, Breaks, FtpsInv, SpareEven
<1> QED
  BY <1>1, <1>3, <1>4, <1>5 DEF FtpsInv, FtpsSound, AnsweredAsMeant, SentIsTaken, PrintedIsKept

LEMMA PrintSteps ==
    ASSUME FtpsInv, NEW f \in Files, Prints(f)
    PROVE  FtpsInv'
<1>1. /\ printing' = [file |-> f, n |-> printing.n + 1] /\ SpareEven'
      /\ UNCHANGED <<custody, session, channel, ended, refused, spoiled>>
  BY SparesEven DEF Prints, FtpsInv
<1>2. printing'.n \in Nat /\ printing'.n = printing.n + 1 /\ printing.n \in Nat
      /\ printing' \in [file : Files \cup {"none"}, n : Nat]
  BY <1>1 DEF FtpsInv, SessionsFit
<1>3. ASSUME NEW c \in Clients PROVE TransferFits(session[c], custody, printing')
  <2>1. session[c] \in SessionRec /\ TransferFits(session[c], custody, printing) /\ session[c].clear \in Nat
    BY DEF FtpsInv, SessionsFit, SessionRec
  <2>2. session[c].clear <= printing.n /\ session[c].clear <= printing'.n /\ ~ (printing'.n <= session[c].clear)
    BY <1>2, <2>1 DEF TransferFits
  <2> QED
    BY <2>1, <2>2 DEF TransferFits
<1>4. SessionsFit'
  BY <1>1, <1>2, <1>3 DEF FtpsInv, SessionsFit
<1> QED
  BY <1>1, <1>4 DEF FtpsInv, ChannelsFit, FtpsSound, AnsweredAsMeant, SentIsTaken, PrintedIsKept

LEMMA FtpsStarts ==
    ASSUME NoOdd, FtpsInit
    PROVE  FtpsInv
<1>1. printing = [file |-> "none", n |-> 0] /\ printing.n = 0 /\ printing \in [file : Files \cup {"none"}, n : Nat]
  BY DEF FtpsInit
<1>2. SessionsFit
  BY <1>1, FreshFits DEF FtpsInit, SessionsFit
<1>3. ChannelsFit
  BY EmptySeq DEF FtpsInit, ChannelsFit
<1> QED
  BY <1>2, <1>3 DEF FtpsInit, FtpsInv, SpareEven, NoOdd, FtpsSound, AnsweredAsMeant, SentIsTaken, PrintedIsKept

LEMMA FtpsStays ==
    ASSUME FtpsInv, [FtpsNext]_ftpsVars
    PROVE  FtpsInv'
<1>1. ASSUME NEW c \in Clients,
             \/ SignsIn(c) \/ Rests(c) \/ Passive(c) \/ Enters(c)
             \/ \E d \in Dirs : Moves(c, d)
             \/ \E f \in Files : \E retr \in BOOLEAN : Opens(c, f, retr)
      PROVE  FtpsInv'
  <2>1. UNCHANGED <<ended, refused, spoiled>>
    BY <1>1 DEF SignsIn, Rests, Passive, Enters, Moves, Opens, Around
  <2>2. ChannelsFit' /\ SessionsFit' /\ SpareEven'
    BY <1>1, CommandSteps, OpensFit
  <2> QED
    BY <2>1, <2>2 DEF FtpsInv, FtpsSound, AnsweredAsMeant, SentIsTaken, PrintedIsKept
<1>2. ASSUME NEW c \in Clients, Received(c) \/ Stores(c) \/ Retrieves(c) \/ Resets(c) \/ Fails(c) \/ Quits(c)
      PROVE  FtpsInv'
  BY <1>2, ReceivedFits, StoresFit, RetrievesFit, EndSteps
<1>3. CASE UNCHANGED ftpsVars
  BY <1>3 DEF ftpsVars, FtpsInv, ChannelsFit, SessionsFit, SpareEven, FtpsSound, AnsweredAsMeant, SentIsTaken, PrintedIsKept
<1> QED
  BY <1>1, <1>2, <1>3, ConnectionSteps, PrintSteps DEF FtpsNext

\* However channels, late handshakes, dropped connections, prints and other clients race: a transfer
\* answered 226 was of the file, directory, offset and data its client meant, nobody who sent
\* everything is refused, and no upload spoils the file of a print that had begun
\* (native_ftps.py: serve_ftps(), accept(), UploadReader).
THEOREM TransfersAreAsMeant ==
    ASSUME NoOdd
    PROVE  FtpsSpec => []FtpsSound
<1>1. FtpsInv => FtpsSound
  BY DEF FtpsInv
<1> QED
  BY <1>1, FtpsStarts, FtpsStays, PTL DEF FtpsSpec
=============================================================================
