----------------------------- MODULE Credentials -----------------------------
(***************************************************************************)
(* What phones and slicers present to the bridge: the TLS identity they pin     *)
(* (pairing.py, identity()), invitations and devices (pairing.py,               *)
(* api/pairing.py), and slicer keys with the uploads made under them (orca.py,   *)
(* api/orca.py).  Two processes (the server and the pairing command) may make    *)
(* the identity at once, and either may stop at any step.                       *)
(***************************************************************************)
EXTENDS Naturals, FiniteSets

CONSTANTS Makers,     \* processes that call identity()
          Secrets,    \* invitations
          Phones, Uploads,
          OwnerCases  \* what the owner may do, and what a behaviour is about (bounds)

\* What a proof needs of the constants: invitations and phones can be counted.
CredentialConstants == IsFiniteSet(Secrets) /\ IsFiniteSet(Phones)

VARIABLES keyFile,    \* the key on disk, 0 before there is one
          certFile,   \* the certificate: [key, current], key 0 before there is one
          maker,      \* per process: [at, made, loaded, pin]
          pins,       \* every pin ever shown to a phone
          keysMade,   \* keys generated so far (bounded by MaxKeys)
          invitation, \* per secret: none, active, gone
          claim,      \* per phone: the secret it holds, and the devices it got
          device,     \* per phone: none, active, revoked
          grant,      \* the slicer's key: active or revoked
          upload,     \* per upload: [at, key]
          owner       \* what the owner may still do

credentialVars == <<keyFile, certFile, maker, pins, keysMade, invitation, claim, device, grant, upload, owner>>
identityVars == <<keyFile, certFile, maker, pins, keysMade>>
deviceVars == <<invitation, claim, device>>
uploadVars == <<grant, upload>>
MaxKeys == 3
None == "none"

NoMaker == [at |-> "rest", made |-> 0, loaded |-> 0, pin |-> 0]
NoUpload == [at |-> "none", key |-> None, checked |-> FALSE]
CredentialInit ==
    /\ keyFile = 0 /\ certFile = [key |-> 0, current |-> FALSE] /\ maker = [m \in Makers |-> NoMaker]
    /\ pins = {} /\ keysMade = 0
    /\ invitation = [s \in Secrets |-> "none"] /\ claim = [p \in Phones |-> [secret |-> None, tokens |-> 0]]
    /\ device = [p \in Phones |-> "none"] /\ grant = "active"
    /\ upload = [u \in Uploads |-> NoUpload] /\ owner \in OwnerCases
About(topic) == topic \in owner.about
Owner(what) == owner[what] > 0 /\ owner' = [owner EXCEPT ![what] = @ - 1]

------------------------------------------------------------------------------
(* identity(): a key is published whole or not at all, and never replaced.    *)

Maker(m, next) == maker' = [maker EXCEPT ![m] = next]
                  /\ UNCHANGED <<deviceVars, uploadVars, owner>>
Looks(m) == /\ maker[m].at = "rest" /\ About("identity")
            /\ Maker(m, [NoMaker EXCEPT !.at = IF keyFile # 0 THEN "load" ELSE "keyless"])
            /\ UNCHANGED <<keyFile, certFile, pins, keysMade>>
\* Whoever saw no key, and a certificate then, asks for the backup: also when another process has
\* made both in between.
Makes(m) == /\ maker[m].at = "keyless" /\ UNCHANGED <<keyFile, certFile, pins>>
            /\ IF certFile.key # 0 THEN Maker(m, [maker[m] EXCEPT !.at = "missing"]) /\ UNCHANGED keysMade
               ELSE /\ keysMade < MaxKeys /\ keysMade' = keysMade + 1
                    /\ Maker(m, [maker[m] EXCEPT !.at = "publish", !.made = keysMade + 1])
Replaced(made) == made
Linked(made) == IF keyFile = 0 THEN made ELSE keyFile          \* os.link() leaves a key that is there
Links(m) == /\ maker[m].at = "publish" /\ keyFile' = Linked(maker[m].made)
            /\ Maker(m, [maker[m] EXCEPT !.at = "load"]) /\ UNCHANGED <<certFile, pins, keysMade>>
Loads(m) == /\ maker[m].at = "load" /\ Maker(m, [maker[m] EXCEPT !.at = "judge", !.loaded = keyFile])
            /\ UNCHANGED <<keyFile, certFile, pins, keysMade>>
Judges(m) ==
    /\ maker[m].at = "judge" /\ UNCHANGED <<keyFile, certFile, pins, keysMade>>
    /\ Maker(m, [maker[m] EXCEPT !.at = IF certFile.key = 0 THEN "sign"
                                        ELSE IF certFile.key # maker[m].loaded THEN "mismatch"
                                        ELSE IF certFile.current THEN "serve" ELSE "sign"])
Signs(m) == /\ maker[m].at = "sign" /\ certFile' = [key |-> maker[m].loaded, current |-> TRUE]
            /\ Maker(m, [maker[m] EXCEPT !.at = "serve"]) /\ UNCHANGED <<keyFile, pins, keysMade>>
Serves(m) == /\ maker[m].at = "serve" /\ maker[m].pin = 0 /\ pins' = pins \cup {maker[m].loaded}
             /\ Maker(m, [maker[m] EXCEPT !.pin = maker[m].loaded]) /\ UNCHANGED <<keyFile, certFile, keysMade>>
Stops(m) == /\ maker[m].at # "rest" /\ Owner("stops") /\ maker' = [maker EXCEPT ![m] = NoMaker]
            /\ UNCHANGED <<keyFile, certFile, pins, keysMade, deviceVars, uploadVars>>
\* A year passes, or the bridge gets another address.
Ages == /\ certFile.current /\ Owner("expiries") /\ certFile' = [certFile EXCEPT !.current = FALSE]
        /\ UNCHANGED <<keyFile, maker, pins, keysMade, deviceVars, uploadVars>>

------------------------------------------------------------------------------
(* Invitations and devices: every statement is a transaction of its own.      *)

Frozen == UNCHANGED <<identityVars, uploadVars>>
Invites(s) == /\ invitation[s] = "none" /\ About("device") /\ pins # {} /\ invitation' = [invitation EXCEPT ![s] = "active"]
              /\ UNCHANGED <<claim, device, owner>> /\ Frozen
Scans(p, s) == /\ invitation[s] # "none" /\ device[p] = "none" /\ claim[p].secret = None
               /\ claim' = [claim EXCEPT ![p].secret = s] /\ UNCHANGED <<invitation, device, owner>> /\ Frozen
Ends(s) == /\ invitation[s] = "active" /\ invitation' = [invitation EXCEPT ![s] = "gone"]   \* cancelled, expired
           /\ UNCHANGED <<claim, device, owner>> /\ Frozen
\* claim(): the deletion's row count decides; the answer, with the token, may be lost.
Known(s) == invitation[s] # "none"
Consumed(s) == invitation[s] = "active"
Claims(p) ==
    LET s == claim[p].secret
    IN  /\ s # None
        /\ IF Consumed(s)
           THEN /\ invitation' = [invitation EXCEPT ![s] = "gone"] /\ device' = [device EXCEPT ![p] = "active"]
                /\ claim' = [claim EXCEPT ![p] = [secret |-> None, tokens |-> @.tokens + 1]]
           ELSE claim' = [claim EXCEPT ![p].secret = None] /\ UNCHANGED <<invitation, device>>
        /\ UNCHANGED owner /\ Frozen
Revokes(p) == /\ device[p] = "active" /\ Owner("revokes") /\ device' = [device EXCEPT ![p] = "revoked"]
              /\ UNCHANGED <<invitation, claim>> /\ Frozen

------------------------------------------------------------------------------
(* An upload under a slicer's key: read and validated, then judged again.     *)

Upload(u, next) == /\ upload' = [upload EXCEPT ![u] = next]
                   /\ UNCHANGED <<identityVars, deviceVars, grant, owner>>
Asks(u) == /\ upload[u].at = "none" /\ About("upload") /\ grant = "active"
           /\ \E key \in {"store", "print"} : Upload(u, [NoUpload EXCEPT !.at = "read", !.key = key])
Unasked == TRUE
StillHeld == grant = "active"
Rechecks(u) == /\ upload[u].at = "read"
               /\ \/ StillHeld /\ Upload(u, [upload[u] EXCEPT !.at = "ready", !.checked = (grant = "active")])
                  \/ Upload(u, [upload[u] EXCEPT !.at = "refused"])    \* not sliced as it should be
\* jobs.submit() claims the printer, or the file is only stored.
Busy == \E u \in Uploads : upload[u].at = "started"
Sends(u) == /\ upload[u].at = "ready"
            /\ \/ upload[u].key = "print" /\ ~ Busy /\ Upload(u, [upload[u] EXCEPT !.at = "started"])
               \/ upload[u].key = "store" /\ Upload(u, [upload[u] EXCEPT !.at = "stored"])
               \/ Upload(u, [upload[u] EXCEPT !.at = "refused"])       \* offline, busy, or the transfer failed
Withdraws == /\ grant = "active" /\ Owner("revokes") /\ grant' = "revoked"
             /\ UNCHANGED <<identityVars, deviceVars, upload>>

CredentialNext ==
    \/ \E m \in Makers : Looks(m) \/ Makes(m) \/ Links(m) \/ Loads(m) \/ Judges(m) \/ Signs(m) \/ Serves(m) \/ Stops(m)
    \/ Ages \/ Withdraws
    \/ \E s \in Secrets : Invites(s) \/ Ends(s) \/ (\E p \in Phones : Scans(p, s))
    \/ \E p \in Phones : Claims(p) \/ Revokes(p)
    \/ \E u \in Uploads : Asks(u) \/ Rechecks(u) \/ Sends(u)
CredentialSpec == CredentialInit /\ [][CredentialNext]_credentialVars

------------------------------------------------------------------------------
(* Properties.                                                              *)

\* The pin a phone scanned stays the bridge's, whichever processes made the identity at once
\* and wherever one of them stopped: there is one pin, what is served has its key, and no process
\* finds a certificate of another key.  One may be refused for a key it missed, and is not the next time.
PinStays == /\ \A p \in pins : p = keyFile
            /\ \A m \in Makers : maker[m].at # "mismatch" /\ (maker[m].at = "missing" => keyFile # 0)
            /\ certFile.key # 0 => certFile.key = keyFile
\* An invitation is good for one device.
InvitedOnce == Cardinality({p \in Phones : device[p] # "none"}) <= Cardinality({s \in Secrets : invitation[s] = "gone"})
\* Nothing is sent under a key that was revoked before its file had been read.
SentWasHeld == \A u \in Uploads : upload[u].at \in {"started", "stored"} => upload[u].checked
CredentialsSound == PinStays /\ InvitedOnce /\ SentWasHeld

\* pairing.py:173 "Identity key missing; restore backup before starting": told only when there is no
\* key.  Two processes that make the identity at once break it.
MissingIsMissing == \A m \in Makers : maker[m].at = "missing" => keyFile = 0
=============================================================================
