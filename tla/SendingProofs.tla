--------------------------- MODULE SendingProofs ----------------------------
(***************************************************************************)
(* What is sent late is still what was asked for.  Backups and restores of   *)
(* the native inbox, for any number of uploads, copies, faults and restores: *)
(* no start is sent twice, nothing that was acknowledged is lost, and there  *)
(* is an inbox to start from.  Objects skipped, for any number of clients,   *)
(* objects, files and prints: a skip meets the plate it was picked from.     *)
(* The two share no state.                                                  *)
(***************************************************************************)
EXTENDS InboxRecovery, SkipObjects, TLAPS

(***************************************************************************)
(* Types: a row that has a state has its files.                            *)
(***************************************************************************)
RowStates == {"none", "receiving", "stored", "delivering", "delivered", "failed", "discarded"}
RowStarts == {"none", "queued", "dispatching", "sent", "running", "completed", "unknown", "blocked", "resolved"}
Rows == {r \in [there : BOOLEAN, state : RowStates, start : RowStarts] :
            r.state \notin {"none", "discarded"} => r.there}
Directories == [there : BOOLEAN, rows : [Uploads -> Rows]]
Steps == {"rest", "staged", "saved", "closed", "aside", "placed", "opened", "back"}
Closed == {"closed", "aside", "placed", "back"}

FilesTyped ==
    /\ inbox \in Directories /\ aside \in Directories /\ away \in Directories
    /\ zips \in [Zips -> Directories] /\ restore \in [at : Steps, rows : Directories]
CountsTyped ==
    /\ told \in [Uploads -> {"new", "begun", "kept", "given up"}]
    /\ asked \in [Uploads -> Nat] /\ sent \in [Uploads -> Nat]

\* When the gateway runs there is an inbox, and while the directories are swapped it does not.
UpFits ==
    /\ up \in BOOLEAN /\ up => inbox.there
    /\ restore.at \in Closed => ~ up
    /\ restore.at \in {"staged", "saved", "opened"} => up
    /\ restore.at \in {"closed", "placed", "back"} => inbox.there
    /\ restore.at \in {"aside", "placed"} => aside.there
    /\ restore.at \in {"staged", "saved", "closed", "aside"} => restore.rows.there
Typed == FilesTyped /\ CountsTyped /\ UpFits

LEMMA NothingIs ==
    /\ Empty \in Directories /\ Missing \in Directories /\ Empty.there /\ ~ Missing.there
    /\ \A u \in Uploads : Empty.rows[u] = NoRow /\ Missing.rows[u] = NoRow
    /\ AtRest = [at |-> "rest", rows |-> Missing]
<1>1. Empty = [there |-> TRUE, rows |-> [u \in Uploads |-> NoRow]]
  BY DEF Empty, Directory, NoRowOf
<1>2. NoRow \in Rows
  BY DEF NoRow, Rows, RowStates, RowStarts
<1>3. Empty \in Directories /\ \A u \in Uploads : Empty.rows[u] = NoRow
  BY <1>1, <1>2 DEF Directories
<1>4. Missing \in Directories /\ ~ Missing.there /\ Missing.rows = Empty.rows
  BY <1>3 DEF Missing, Directories
<1> QED
  BY <1>1, <1>3, <1>4 DEF AtRest

LEMMA RowPut ==
    ASSUME Typed, NEW u \in Uploads, NEW r \in Rows, Becomes(u, r)
    PROVE  /\ inbox' \in Directories /\ inbox'.there = inbox.there /\ inbox'.rows[u] = r
           /\ \A v \in Uploads : v # u => inbox'.rows[v] = inbox.rows[v]
           /\ up /\ UNCHANGED <<up, aside, zips, away, restore>>
BY DEF Becomes, Typed, FilesTyped, Directories, copies

(***************************************************************************)
(* A call of the running inbox writes one row.                             *)
(***************************************************************************)
Pending == {"queued", "dispatching"}

Others(u) == \A v \in Uploads \ {u} : told'[v] = told[v] /\ asked'[v] = asked[v] /\ sent'[v] = sent[v]

\* What was acknowledged has its files, and is acknowledged in a window of a restore only where
\* the bounds have one.
KeptHere(u, r) ==
    told'[u] = "kept" =>
        \/ r.there /\ (told[u] = "kept" \/ restore.at # "saved" \/ room["window"] > 0)
        \/ told[u] = "kept" /\ (inbox.rows[u].there => r.there)

\* A start that is still to be sent is one that was asked for and not sent.
SentHere(u, r) ==
    sent[u] <= asked[u] /\ (inbox.rows[u].start \in Pending => sent[u] < asked[u]) =>
        sent'[u] <= asked'[u] /\ (r.start \in Pending => sent'[u] < asked'[u])

Call(u) ==
    /\ CountsTyped' /\ Others(u)
    /\ \E r \in Rows : Becomes(u, r) /\ KeptHere(u, r) /\ SentHere(u, r)

\* The row moves on, no count changes.
LEMMA MovesOn ==
    ASSUME Typed, NEW u \in Uploads, NEW r \in Rows, Becomes(u, r), UNCHANGED <<told, asked, sent>>,
           inbox.rows[u].there => r.there, r.start \in Pending => inbox.rows[u].start \in Pending
    PROVE  Call(u)
BY DEF Call, CountsTyped, Typed, Others, KeptHere, SentHere

LEMMA CallStep ==
    ASSUME Typed, NEW u \in Uploads,
           \/ Receives(u) \/ Acks(u) \/ Delivers(u) \/ Fails(u) \/ Queues(u) \/ Claims(u) \/ Sends(u)
           \/ Observed(u) \/ Resolves(u) \/ Retries(u) \/ Discards(u)
    PROVE  Call(u)
<1> DEFINE row == inbox.rows[u]
<1>1. row \in Rows /\ row = [there |-> row.there, state |-> row.state, start |-> row.start]
  BY DEF Typed, FilesTyped, Directories, Rows
<1>2. ASSUME NEW state \in RowStates \ {"none", "discarded"}, row.there
      PROVE  [row EXCEPT !.state = state] \in Rows
  BY <1>1, <1>2 DEF Rows
<1>3. ASSUME NEW start \in RowStarts
      PROVE  [row EXCEPT !.start = start] \in Rows
  BY <1>1, <1>3 DEF Rows
<1>4. row.state \notin {"none", "discarded"} => row.there
  BY <1>1 DEF Rows
<1>5. ASSUME NEW from, NEW to \in RowStates \ {"none", "discarded"}, Moves(u, from, to),
             from \notin {"none", "discarded"}
      PROVE  /\ [row EXCEPT !.state = to] \in Rows /\ Becomes(u, [row EXCEPT !.state = to])
             /\ row.there /\ row.state = from
  BY <1>2, <1>4, <1>5 DEF Moves
<1>6. ASSUME NEW from, NEW to \in RowStarts, Starts(u, from, to)
      PROVE  /\ [row EXCEPT !.start = to] \in Rows /\ Becomes(u, [row EXCEPT !.start = to])
             /\ row.start = from
  BY <1>3, <1>6 DEF Starts
<1>7. CASE Receives(u)
  <2> DEFINE r == Row("receiving", "none")
  <2>1. r \in Rows /\ r.there /\ r.start = "none"
    BY DEF Row, Rows, RowStates, RowStarts
  <2>2. Becomes(u, r) /\ told' = [told EXCEPT ![u] = "begun"] /\ UNCHANGED <<asked, sent>>
    BY <1>7 DEF Receives
  <2> QED
    BY <2>1, <2>2 DEF Call, CountsTyped, Typed, Others, KeptHere, SentHere, Pending
<1>8. CASE Acks(u)
  <2> DEFINE r == [row EXCEPT !.state = "stored"]
  <2>1. r \in Rows /\ Becomes(u, r) /\ row.there
    BY <1>5, <1>8 DEF Acks, RowStates
  <2>2. r.there /\ r.start = row.start
    BY <1>1, <2>1
  <2>3. told' = [told EXCEPT ![u] = "kept"] /\ UNCHANGED <<asked, sent>>
        /\ (restore.at # "saved" \/ room["window"] > 0)
    BY <1>8 DEF Acks, Takes
  <2> HIDE DEF r
  <2> QED
    BY <2>1, <2>2, <2>3 DEF Call, CountsTyped, Typed, Others, KeptHere, SentHere
<1>9. CASE Delivers(u)
  <2>1. PICK to \in {"delivering", "delivered"} :
           [row EXCEPT !.state = to] \in Rows /\ Becomes(u, [row EXCEPT !.state = to])
    BY <1>5, <1>9 DEF Delivers, RowStates
  <2>2. [row EXCEPT !.state = to].there = row.there /\ [row EXCEPT !.state = to].start = row.start
    BY <1>1
  <2> QED
    BY <1>9, <2>1, <2>2, MovesOn DEF Delivers, Same
<1>10. CASE Fails(u)
  <2> DEFINE r == Row("failed", IF row.start = "queued" THEN "blocked" ELSE row.start)
  <2>1. r \in Rows /\ r.there /\ (r.start \in Pending => row.start \in Pending)
    BY <1>1 DEF Row, Rows, RowStates, RowStarts, Pending
  <2>2. Becomes(u, r) /\ UNCHANGED <<told, asked, sent>>
    BY <1>10 DEF Fails, Same
  <2> HIDE DEF r
  <2> QED
    BY <2>1, <2>2, MovesOn
<1>11. CASE Queues(u)
  <2> DEFINE r == [row EXCEPT !.start = "queued"]
  <2>1. r \in Rows /\ Becomes(u, r) /\ r.there = row.there
    BY <1>1, <1>6, <1>11 DEF Queues, RowStarts
  <2>2. asked' = [asked EXCEPT ![u] = @ + 1] /\ UNCHANGED <<told, sent>>
    BY <1>11 DEF Queues
  <2> HIDE DEF r
  <2>3. KeptHere(u, r)
    BY <2>1, <2>2 DEF KeptHere
  <2>4. asked \in [Uploads -> Nat] /\ sent \in [Uploads -> Nat] /\ asked[u] \in Nat /\ sent[u] \in Nat
    BY DEF Typed, CountsTyped
  <2>5. asked' \in [Uploads -> Nat] /\ asked'[u] = asked[u] + 1 /\ \A v \in Uploads \ {u} : asked'[v] = asked[v]
    BY <2>2, <2>4
  <2>6. CountsTyped' /\ Others(u)
    BY <2>2, <2>4, <2>5 DEF Typed, CountsTyped, Others
  <2>7. SentHere(u, r)
    BY <2>2, <2>4, <2>5 DEF SentHere
  <2> QED
    BY <2>1, <2>3, <2>6, <2>7 DEF Call
<1>12. CASE Claims(u)
  <2>1. [row EXCEPT !.start = "dispatching"] \in Rows /\ Becomes(u, [row EXCEPT !.start = "dispatching"])
        /\ row.start = "queued"
    BY <1>6, <1>12 DEF Claims, RowStarts
  <2>2. [row EXCEPT !.start = "dispatching"].there = row.there
    BY <1>1
  <2> QED
    BY <1>12, <2>1, <2>2, MovesOn DEF Claims, Same, Pending
<1>13. CASE Sends(u)
  <2> DEFINE r == [row EXCEPT !.start = "sent"]
  <2>1. r \in Rows /\ Becomes(u, r) /\ r.there = row.there /\ r.start = "sent" /\ row.start \in Pending
    BY <1>1, <1>6, <1>13 DEF Sends, RowStarts, Pending
  <2>2. sent' = [sent EXCEPT ![u] = @ + 1] /\ UNCHANGED <<told, asked>>
    BY <1>13 DEF Sends
  <2> HIDE DEF r
  <2>3. KeptHere(u, r)
    BY <2>1, <2>2 DEF KeptHere
  <2>4. asked \in [Uploads -> Nat] /\ sent \in [Uploads -> Nat] /\ asked[u] \in Nat /\ sent[u] \in Nat
    BY DEF Typed, CountsTyped
  <2>5. sent' \in [Uploads -> Nat] /\ sent'[u] = sent[u] + 1 /\ \A v \in Uploads \ {u} : sent'[v] = sent[v]
    BY <2>2, <2>4
  <2>6. CountsTyped' /\ Others(u)
    BY <2>2, <2>4, <2>5 DEF Typed, CountsTyped, Others
  <2>7. SentHere(u, r)
    BY <2>1, <2>2, <2>4, <2>5 DEF SentHere, Pending
  <2> QED
    BY <2>1, <2>3, <2>6, <2>7 DEF Call
<1>14. CASE Observed(u) \/ Resolves(u)
  <2>1. PICK to \in {"running", "completed", "resolved"} :
           [row EXCEPT !.start = to] \in Rows /\ Becomes(u, [row EXCEPT !.start = to])
    BY <1>3, <1>6, <1>14 DEF Observed, Resolves, Act, RowStarts
  <2>2. [row EXCEPT !.start = to].there = row.there /\ [row EXCEPT !.start = to].start = to
    BY <1>1
  <2> QED
    BY <1>14, <2>1, <2>2, MovesOn DEF Observed, Resolves, Same, Pending
<1>15. CASE Retries(u)
  <2>1. [row EXCEPT !.state = "stored"] \in Rows /\ Becomes(u, [row EXCEPT !.state = "stored"])
    BY <1>2, <1>4, <1>15 DEF Retries, Act, RowStates
  <2>2. [row EXCEPT !.state = "stored"].there = row.there /\ [row EXCEPT !.state = "stored"].start = row.start
    BY <1>1
  <2> QED
    BY <1>15, <2>1, <2>2, MovesOn DEF Retries, Same
<1>16. CASE Discards(u)
  <2> DEFINE r == [row EXCEPT !.there = FALSE, !.state = "discarded"]
  <2>1. r \in Rows /\ r.start = row.start
    BY <1>1 DEF Rows, RowStates
  <2>2. Becomes(u, r) /\ told' = [told EXCEPT ![u] = "given up"] /\ UNCHANGED <<asked, sent>>
    BY <1>16 DEF Discards, Act
  <2> HIDE DEF r
  <2> QED
    BY <2>1, <2>2 DEF Call, CountsTyped, Typed, Others, KeptHere, SentHere
<1> QED
  BY <1>7, <1>8, <1>9, <1>10, <1>11, <1>12, <1>13, <1>14, <1>15, <1>16

(***************************************************************************)
(* What happens to a row when its inbox is closed, restored or opened.      *)
(***************************************************************************)
LEMMA RowsPass ==
    ASSUME NEW r \in Rows
    PROVE  /\ Reviewed(r) \in Rows /\ Reviewed(r).there = r.there /\ Reviewed(r).start \notin Pending
           /\ Recovered(r) \in Rows /\ Recovered(r).there = r.there
           /\ Recovered(r).start \in Pending => r.start \in Pending
           /\ Cancelled(r) \in Rows /\ Cancelled(r).there = r.there /\ Cancelled(r).start = r.start
<1>1. r.there \in BOOLEAN /\ r.state \in RowStates /\ r.start \in RowStarts
      /\ (r.state \notin {"none", "discarded"} => r.there)
      /\ r \in [there : BOOLEAN, state : RowStates, start : RowStarts]
  BY DEF Rows
<1>2. Reviewed(r) \in Rows /\ Reviewed(r).there = r.there /\ Reviewed(r).start \notin Pending
  <2> DEFINE state == IF r.state \in {"receiving", "stored", "delivering"} THEN "failed" ELSE r.state
             start == IF r.start = "queued" THEN "blocked"
                      ELSE IF r.start \in {"dispatching", "sent", "running"} THEN "unknown" ELSE r.start
  <2>1. Reviewed(r) = [r EXCEPT !.state = state, !.start = start]
    BY DEF Reviewed
  <2>2. state \in RowStates /\ start \in RowStarts /\ start \notin Pending
        /\ (state \notin {"none", "discarded"} => r.there)
    BY <1>1 DEF RowStates, RowStarts, Pending
  <2> HIDE DEF state, start
  <2> QED
    BY <1>1, <2>1, <2>2 DEF Rows
<1>3. /\ Recovered(r) \in Rows /\ Recovered(r).there = r.there
      /\ Recovered(r).start \in Pending => r.start \in Pending
  <2> DEFINE state == IF r.state \in {"receiving", "delivering"} THEN "failed" ELSE r.state
             start == IF r.start = "dispatching" THEN "unknown"
                      ELSE IF r.start = "queued" /\ r.state \in {"receiving", "delivering", "failed"} THEN "blocked"
                      ELSE r.start
  <2>1. Recovered(r) = [r EXCEPT !.state = state, !.start = start]
    BY DEF Recovered
  <2>2. state \in RowStates /\ start \in RowStarts /\ (start \in Pending => r.start \in Pending)
        /\ (state \notin {"none", "discarded"} => r.there)
    BY <1>1 DEF RowStates, RowStarts, Pending
  <2> HIDE DEF state, start
  <2> QED
    BY <1>1, <2>1, <2>2 DEF Rows
<1>4. Cancelled(r) \in Rows /\ Cancelled(r).there = r.there /\ Cancelled(r).start = r.start
  BY <1>1 DEF Cancelled, Rows, RowStates
<1> QED
  BY <1>2, <1>3, <1>4

LEMMA OpenedIs ==
    ASSUME NEW d \in Directories
    PROVE  /\ Opened(d) \in Directories /\ Opened(d).there
           /\ \A u \in Uploads : Opened(d).rows[u] = Recovered(d.rows[u])
BY RowsPass DEF Opened, Directories

(***************************************************************************)
(* Types are kept.                                                         *)
(***************************************************************************)
LEMMA InitTyped == RecoveryInit => Typed
BY NothingIs DEF RecoveryInit, Typed, FilesTyped, CountsTyped, UpFits, Steps, Closed

LEMMA CallTyped ==
    ASSUME Typed, NEW u \in Uploads, Call(u)
    PROVE  Typed'
<1>1. PICK r \in Rows : Becomes(u, r)
  BY DEF Call
<1> QED
  BY <1>1, RowPut DEF Call, Typed, FilesTyped, UpFits

\* The steps that copy directories.
CopySteps == \E z \in Zips : Backup(z) \/ Downloads(z) \/ Imports(z) \/ Deletes(z)
RestoreSteps == \/ \E z \in Zips : Stages(z) \/ Saves(z)
                \/ NoSpace \/ Shuts \/ MovesAside \/ Swaps \/ Reopens \/ Cleans \/ Undoes \/ Resumes
StopSteps == Crashes \/ Restarts

LEMMA StepIs ==
    ASSUME Typed, [RecoveryNext]_recoveryVars
    PROVE  \/ \E u \in Uploads : Call(u)
           \/ CopySteps \/ RestoreSteps \/ StopSteps \/ UNCHANGED recoveryVars
BY CallStep DEF RecoveryNext, CopySteps, RestoreSteps, StopSteps

LEMMA CopyTyped ==
    ASSUME Typed, CopySteps
    PROVE  Typed'
<1>1. ASSUME NEW z \in Zips, Backup(z) \/ Downloads(z) \/ Imports(z) PROVE Typed'
  <2>1. UNCHANGED <<up, inbox, aside, restore, told, asked, sent>>
    BY <1>1 DEF Backup, Downloads, Imports, Same
  <2>2. zips' \in [Zips -> Directories] /\ away' \in Directories
    BY <1>1 DEF Backup, Downloads, Imports, Saved, Same, Typed, FilesTyped
  <2> QED
    BY <2>1, <2>2 DEF Typed, FilesTyped, CountsTyped, UpFits
<1>2. ASSUME NEW z \in Zips, Deletes(z) PROVE Typed'
  <2>1. told' \in [Uploads -> {"new", "begun", "kept", "given up"}]
    BY <1>2 DEF Deletes, Typed, CountsTyped
  <2>2. zips' \in [Zips -> Directories] /\ UNCHANGED <<up, inbox, aside, away, restore, asked, sent>>
    BY <1>2, NothingIs DEF Deletes, Typed, FilesTyped
  <2> QED
    BY <2>1, <2>2 DEF Typed, FilesTyped, CountsTyped, UpFits
<1> QED
  BY <1>1, <1>2 DEF CopySteps

LEMMA ClosedRows ==
    ASSUME Typed, Shuts
    PROVE  /\ inbox' \in Directories /\ inbox'.there = inbox.there
           /\ \A u \in Uploads : inbox'.rows[u] = Cancelled(inbox.rows[u])
<1> DEFINE f == [u \in Uploads |-> Cancelled(inbox.rows[u])]
<1>1. inbox' = [inbox EXCEPT !.rows = f]
  BY DEF Shuts
<1>2. f \in [Uploads -> Rows]
  BY RowsPass DEF Typed, FilesTyped, Directories
<1>3. \A u \in Uploads : f[u] = Cancelled(inbox.rows[u])
  OBVIOUS
<1> HIDE DEF f
<1> QED
  BY <1>1, <1>2, <1>3 DEF Typed, FilesTyped, Directories

LEMMA RestoreTyped ==
    ASSUME Typed, RestoreSteps
    PROVE  Typed'
<1> USE DEF Typed, CountsTyped, UpFits, Steps, Closed
<1>1. ASSUME NEW z \in Zips, Stages(z) PROVE Typed'
  <2> DEFINE d == [there |-> TRUE, rows |-> [u \in Uploads |-> Reviewed(zips[z].rows[u])]]
  <2>1. d \in Directories /\ d.there
    <3>1. \A u \in Uploads : Reviewed(zips[z].rows[u]) \in Rows
      <4>1. zips[z].rows \in [Uploads -> Rows]
        BY DEF FilesTyped, Directories
      <4> QED
        BY <4>1, RowsPass
    <3> QED
      BY <3>1 DEF Directories
  <2>2. /\ restore' = [at |-> "staged", rows |-> d] /\ aside' = Missing /\ up
        /\ UNCHANGED <<up, inbox, zips, away, told, asked, sent>>
    BY <1>1 DEF Stages, Same
  <2> HIDE DEF d
  <2> QED
    BY <2>1, <2>2, NothingIs DEF FilesTyped
<1>2. ASSUME NEW z \in Zips, Saves(z) PROVE Typed'
  BY <1>2 DEF Saves, Saved, Goes, Same, FilesTyped
<1>3. CASE NoSpace
  BY <1>3, NothingIs DEF NoSpace, Same, copies, FilesTyped
<1>4. CASE Shuts
  BY <1>4, ClosedRows DEF Shuts, Goes, Same, copies, FilesTyped
<1>5. CASE MovesAside
  BY <1>5, NothingIs DEF MovesAside, Goes, Same, FilesTyped
<1>9. CASE Swaps
  BY <1>9 DEF Swaps, Goes, Same, copies, FilesTyped
<1>10. CASE Cleans
  BY <1>10, NothingIs DEF Cleans, Same, FilesTyped
<1>6. CASE Reopens
  BY <1>6, OpenedIs DEF Reopens, Goes, Same, copies, FilesTyped
<1>7. CASE Undoes
  BY <1>7, NothingIs DEF Undoes, Goes, Same, copies, FilesTyped
<1>8. CASE Resumes
  BY <1>8, OpenedIs, NothingIs DEF Resumes, Goes, Same, copies, FilesTyped
<1> QED
  BY <1>1, <1>2, <1>3, <1>4, <1>5, <1>6, <1>7, <1>8, <1>9, <1>10 DEF RestoreSteps

LEMMA StopTyped ==
    ASSUME Typed, StopSteps
    PROVE  Typed'
<1> USE DEF Typed, FilesTyped, CountsTyped, UpFits, Steps, Closed
<1>1. CASE Crashes
  BY <1>1, NothingIs DEF Crashes, Same, copies
<1>2. CASE Restarts
  BY <1>2, OpenedIs DEF Restarts, Same, copies
<1> QED
  BY <1>1, <1>2 DEF StopSteps

LEMMA StaysTyped ==
    ASSUME Typed, [RecoveryNext]_recoveryVars
    PROVE  Typed'
<1>1. CASE UNCHANGED recoveryVars
  BY <1>1 DEF recoveryVars, Typed, FilesTyped, CountsTyped, UpFits
<1> QED
  BY <1>1, StepIs, CallTyped, CopyTyped, RestoreTyped, StopTyped

(***************************************************************************)
(* A start is sent once per request.  What a backup still has to send is     *)
(* blocked before it becomes an inbox again; what stands aside meanwhile has *)
(* been sent by nobody when it is put back.                                  *)
(***************************************************************************)
SentFits ==
    \A u \in Uploads :
        /\ sent[u] <= asked[u]
        /\ inbox.rows[u].start \in Pending => sent[u] < asked[u]
        /\ restore.at \in {"aside", "placed"} /\ aside.rows[u].start \in Pending => sent[u] < asked[u]
        /\ restore.at \in {"staged", "saved", "closed", "aside"} => restore.rows.rows[u].start \notin Pending

LEMMA InitSent == RecoveryInit => SentFits
<1> SUFFICES ASSUME RecoveryInit, NEW u \in Uploads
             PROVE  /\ sent[u] <= asked[u] /\ inbox.rows[u].start \notin Pending
                    /\ restore.at = "rest"
  BY DEF SentFits
<1>1. sent[u] = 0 /\ asked[u] = 0
  BY DEF RecoveryInit
<1>2. inbox.rows[u] = NoRow /\ restore.at = "rest"
  BY NothingIs DEF RecoveryInit
<1> QED
  BY <1>1, <1>2 DEF NoRow, Pending

LEMMA CallSent ==
    ASSUME Typed, SentFits, NEW u \in Uploads, Call(u)
    PROVE  SentFits'
<1>1. PICK r \in Rows : Becomes(u, r) /\ SentHere(u, r)
  BY DEF Call
<1>2. restore.at \notin {"aside", "placed"} /\ UNCHANGED <<aside, restore>>
  BY <1>1, RowPut DEF Typed, UpFits, Closed
<1>3. /\ sent'[u] <= asked'[u] /\ (inbox'.rows[u].start \in Pending => sent'[u] < asked'[u])
  BY <1>1, RowPut DEF SentFits, SentHere
<1>4. ASSUME NEW v \in Uploads \ {u}
      PROVE  inbox'.rows[v] = inbox.rows[v] /\ asked'[v] = asked[v] /\ sent'[v] = sent[v]
  BY <1>1, RowPut DEF Call, Others
<1> QED
  BY <1>2, <1>3, <1>4 DEF SentFits

LEMMA RestoreSent ==
    ASSUME Typed, SentFits, RestoreSteps
    PROVE  SentFits'
<1>1. UNCHANGED <<asked, sent>>
  BY DEF RestoreSteps, Stages, Saves, NoSpace, Shuts, MovesAside, Swaps, Reopens, Cleans, Undoes, Resumes, Same
<1>2. ASSUME NEW z \in Zips, Stages(z) PROVE SentFits'
  <2>1. restore'.at = "staged" /\ \A u \in Uploads : restore'.rows.rows[u] = Reviewed(zips[z].rows[u])
    BY <1>2 DEF Stages
  <2>2. \A u \in Uploads : zips[z].rows[u] \in Rows
    BY DEF Typed, FilesTyped, Directories
  <2>3. inbox' = inbox
    BY <1>2 DEF Stages, Same
  <2> QED
    BY <1>1, <2>1, <2>2, <2>3, RowsPass DEF SentFits
<1>3. CASE NoSpace \/ \E z \in Zips : Saves(z)
  BY <1>1, <1>3 DEF NoSpace, Saves, Goes, Same, AtRest, SentFits, Typed, FilesTyped
<1>4. CASE Shuts
  <2>1. restore.at = "saved" /\ restore'.at = "closed" /\ restore'.rows = restore.rows
    BY <1>4 DEF Shuts, Goes, Typed, FilesTyped
  <2>2. \A u \in Uploads : inbox'.rows[u].start = inbox.rows[u].start
    BY <1>4, ClosedRows, RowsPass DEF Typed, FilesTyped, Directories
  <2> QED
    BY <1>1, <2>1, <2>2 DEF SentFits
<1>5. CASE MovesAside
  <2>1. /\ restore.at = "closed" /\ restore'.at = "aside" /\ restore'.rows = restore.rows
        /\ aside' = inbox /\ inbox' = Missing
    BY <1>5 DEF MovesAside, Goes, Typed, FilesTyped
  <2> QED
    BY <1>1, <2>1, NothingIs DEF SentFits, NoRow, Pending
<1>6. CASE Swaps
  <2>1. restore.at = "aside" /\ restore'.at = "placed" /\ inbox' = restore.rows /\ aside' = aside
    BY <1>6 DEF Swaps, Goes, copies, Same, Typed, FilesTyped
  <2> QED
    BY <1>1, <2>1 DEF SentFits
<1>7. CASE Reopens \/ Resumes
  <2>1. restore'.at \in {"rest", "opened"} /\ inbox' \in {inbox, Opened(inbox)}
    BY <1>7 DEF Reopens, Resumes, Goes, AtRest, Typed, FilesTyped
  <2>2. \A u \in Uploads : inbox.rows[u] \in Rows /\ inbox \in Directories
    BY DEF Typed, FilesTyped, Directories
  <2>3. \A u \in Uploads : inbox'.rows[u].start \in Pending => inbox.rows[u].start \in Pending
    BY <2>1, <2>2, OpenedIs, RowsPass
  <2> QED
    BY <1>1, <2>1, <2>3 DEF SentFits
<1>8. CASE Cleans \/ Undoes
  <2>1. \/ restore'.at = "rest" /\ inbox' = inbox
        \/ restore'.at = "back" /\ restore.at = "closed" /\ inbox' = inbox
        \/ restore'.at = "back" /\ restore.at \in {"aside", "placed"} /\ inbox' = aside
    BY <1>8 DEF Cleans, Undoes, Goes, AtRest, Same, Typed, FilesTyped
  <2> QED
    BY <1>1, <2>1 DEF SentFits
<1> QED
  BY <1>2, <1>3, <1>4, <1>5, <1>6, <1>7, <1>8 DEF RestoreSteps

LEMMA StaysSent ==
    ASSUME Typed, SentFits, [RecoveryNext]_recoveryVars
    PROVE  SentFits'
<1>1. CASE CopySteps \/ UNCHANGED recoveryVars
  <2>1. UNCHANGED <<inbox, restore, asked, sent, aside>>
    BY <1>1 DEF CopySteps, Backup, Downloads, Imports, Deletes, Same, recoveryVars
  <2> QED
    BY <2>1 DEF SentFits
<1>2. CASE StopSteps
  <2>1. restore'.at = "rest" /\ inbox' \in {inbox, Opened(inbox)} /\ UNCHANGED <<asked, sent>>
    BY <1>2 DEF StopSteps, Crashes, Restarts, Same, AtRest
  <2>2. \A u \in Uploads : inbox.rows[u] \in Rows /\ inbox \in Directories
    BY DEF Typed, FilesTyped, Directories
  <2>3. \A u \in Uploads : inbox'.rows[u].start \in Pending => inbox.rows[u].start \in Pending
    BY <2>1, <2>2, OpenedIs, RowsPass
  <2> QED
    BY <2>1, <2>3 DEF SentFits
<1> QED
  BY <1>1, <1>2, StepIs, CallSent, RestoreSent

(***************************************************************************)
(* Nothing that was acknowledged is lost.  From the moment the safety        *)
(* backup is made until the inbox is open again, the copies alone hold it.   *)
(***************************************************************************)
NoWindow == \A l \in RecoveryLimits : /\ l = [e \in DOMAIN l |-> l[e]]
                                      /\ "window" \in DOMAIN l /\ l["window"] = 0
RoomShut == /\ room = [e \in DOMAIN room |-> room[e]]
            /\ "window" \in DOMAIN room /\ room["window"] = 0

Holds(directory, u) == directory.there /\ directory.rows[u].there
CopyHolds(u) == Holds(away, u) \/ \E z \in Zips : Holds(zips[z], u)

HeldFits ==
    \A u \in Uploads : told[u] = "kept" =>
        /\ CopyHolds(u) \/ Holds(inbox, u)
        /\ restore.at \in {"saved"} \cup Closed => CopyHolds(u)

LEMMA RoomStays ==
    ASSUME RoomShut, [RecoveryNext]_recoveryVars
    PROVE  RoomShut'
<1>1. ASSUME NEW what, Takes(what) PROVE RoomShut'
  <2>1. what # "window" /\ room' = [room EXCEPT ![what] = @ - 1]
    BY <1>1 DEF Takes, RoomShut
  <2>2. DOMAIN room' = DOMAIN room /\ room'["window"] = 0 /\ room' = [e \in DOMAIN room' |-> room'[e]]
    BY <2>1 DEF RoomShut
  <2> QED
    BY <2>2 DEF RoomShut
<1>2. CASE UNCHANGED room
  BY <1>2 DEF RoomShut
<1>3. \/ UNCHANGED room
      \/ \E what : Takes(what)
  BY DEF RecoveryNext, recoveryVars, Receives, Acks, Delivers, Fails, Queues, Claims, Sends, Observed, Resolves,
         Retries, Discards, Backup, Downloads, Imports, Deletes, Stages, Saves, NoSpace, Shuts, MovesAside, Swaps,
         Reopens, Cleans, Undoes, Resumes, Crashes, Restarts, Same
<1> QED
  BY <1>1, <1>2, <1>3

LEMMA CallHeld ==
    ASSUME Typed, HeldFits, RoomShut, NEW u \in Uploads, Call(u)
    PROVE  HeldFits'
<1>1. PICK r \in Rows : Becomes(u, r) /\ KeptHere(u, r)
  BY DEF Call
<1>2. up /\ inbox.there /\ restore.at \notin Closed /\ UNCHANGED <<zips, away, restore>>
      /\ inbox'.there /\ inbox'.rows[u] = r
  BY <1>1, RowPut DEF Typed, UpFits
<1>3. \A v \in Uploads : CopyHolds(v)' = CopyHolds(v)
  BY <1>2 DEF CopyHolds, Holds
<1>4. ASSUME NEW v \in Uploads \ {u}
      PROVE  Holds(inbox, v)' = Holds(inbox, v) /\ told'[v] = told[v]
  BY <1>1, <1>2, RowPut DEF Call, Others, Holds
<1>5. told'[u] = "kept" => /\ CopyHolds(u) \/ r.there
                           /\ restore.at = "saved" => CopyHolds(u)
  BY <1>1, <1>2 DEF KeptHere, HeldFits, Holds, RoomShut
<1> QED
  BY <1>2, <1>3, <1>4, <1>5 DEF HeldFits, Holds

LEMMA CopyHeld ==
    ASSUME Typed, HeldFits, CopySteps
    PROVE  HeldFits'
<1>1. ASSUME NEW z \in Zips, Backup(z) \/ Downloads(z) \/ Imports(z) PROVE HeldFits'
  <2>1. UNCHANGED <<inbox, restore, told>>
    BY <1>1 DEF Backup, Downloads, Imports, Same
  <2>2. \/ away' = away /\ ~ zips[z].there /\ \A y \in Zips \ {z} : zips'[y] = zips[y]
        \/ zips' = zips /\ ~ away.there
    BY <1>1 DEF Backup, Downloads, Imports, Saved, Same, Typed, FilesTyped
  <2>3. \A u \in Uploads : CopyHolds(u) => CopyHolds(u)'
    BY <2>2 DEF CopyHolds, Holds
  <2> QED
    BY <2>1, <2>3 DEF HeldFits, Holds
<1>2. ASSUME NEW z \in Zips, Deletes(z) PROVE HeldFits'
  <2>1. restore.at = "rest" /\ UNCHANGED <<inbox, restore, away>>
        /\ told' = [u \in Uploads |-> IF told[u] = "kept" /\ ~ Held(u, Places') THEN "given up" ELSE told[u]]
    BY <1>2 DEF Deletes
  <2>2. ASSUME NEW u \in Uploads, told'[u] = "kept" PROVE CopyHolds(u)' \/ Holds(inbox, u)'
    <3>1. Held(u, Places')
      BY <2>1, <2>2
    <3> QED
      BY <2>1, <3>1 DEF Held, Places, CopyHolds, Holds
  <2> QED
    BY <2>1, <2>2 DEF HeldFits, Closed
<1> QED
  BY <1>1, <1>2 DEF CopySteps

LEMMA RestoreHeld ==
    ASSUME Typed, HeldFits, RestoreSteps
    PROVE  HeldFits'
<1>1. told' = told
  BY DEF RestoreSteps, Stages, Saves, NoSpace, Shuts, MovesAside, Swaps, Reopens, Cleans, Undoes, Resumes, Same
<1>2. ASSUME NEW z \in Zips, Saves(z) PROVE HeldFits'
  <2>1. /\ ~ zips[z].there /\ zips'[z] = inbox /\ \A y \in Zips \ {z} : zips'[y] = zips[y]
        /\ away' = away
    BY <1>2 DEF Saves, Saved, Same, Typed, FilesTyped
  <2>2. \A u \in Uploads : CopyHolds(u) \/ Holds(inbox, u) => CopyHolds(u)'
    BY <2>1 DEF CopyHolds, Holds
  <2> QED
    BY <1>1, <2>2 DEF HeldFits
<1>3. ASSUME UNCHANGED <<zips, away>>,
             \/ restore'.at \notin {"saved"} \cup Closed /\ \A u \in Uploads : Holds(inbox, u) => Holds(inbox, u)'
             \/ restore.at \in {"saved"} \cup Closed
      PROVE  HeldFits'
  <2>1. \A u \in Uploads : CopyHolds(u)' = CopyHolds(u)
    BY <1>3 DEF CopyHolds, Holds
  <2> QED
    BY <1>1, <1>3, <2>1 DEF HeldFits
<1>4. CASE NoSpace \/ \E z \in Zips : Stages(z)
  BY <1>3, <1>4 DEF NoSpace, Stages, Same, copies, AtRest, Closed, Holds
<1>5. CASE Shuts \/ MovesAside \/ Swaps \/ Reopens \/ Undoes \/ Resumes
  BY <1>3, <1>5 DEF Shuts, MovesAside, Swaps, Reopens, Undoes, Resumes, Same, copies, Closed
<1>6. CASE Cleans
  BY <1>3, <1>6 DEF Cleans, Same, AtRest, Closed, Holds
<1> QED
  BY <1>2, <1>4, <1>5, <1>6 DEF RestoreSteps

LEMMA StaysHeld ==
    ASSUME Typed, HeldFits, RoomShut, [RecoveryNext]_recoveryVars
    PROVE  HeldFits'
<1>1. CASE UNCHANGED recoveryVars
  BY <1>1 DEF recoveryVars, HeldFits, CopyHolds, Holds
<1>2. CASE StopSteps
  <2>1. restore'.at = "rest" /\ inbox' \in {inbox, Opened(inbox)} /\ UNCHANGED <<told, zips, away>>
    BY <1>2 DEF StopSteps, Crashes, Restarts, Same, copies, AtRest
  <2>2. inbox \in Directories /\ \A u \in Uploads : inbox.rows[u] \in Rows
    BY DEF Typed, FilesTyped, Directories
  <2>3. \A u \in Uploads : Holds(inbox, u) => Holds(inbox, u)'
    BY <2>1, <2>2, OpenedIs, RowsPass DEF Holds
  <2>4. \A u \in Uploads : CopyHolds(u)' = CopyHolds(u)
    BY <2>1 DEF CopyHolds, Holds
  <2> QED
    BY <2>1, <2>3, <2>4 DEF HeldFits, Closed
<1> QED
  BY <1>1, <1>2, StepIs, CallHeld, CopyHeld, RestoreHeld

(***************************************************************************)
(* There is an inbox, unless the process stopped between the two renames.    *)
(***************************************************************************)
NeverTorn == \A l \in RecoveryLimits : /\ l = [e \in DOMAIN l |-> l[e]]
                                       /\ "torn" \in DOMAIN l /\ l["torn"] = 0
RoomWhole == /\ room = [e \in DOMAIN room |-> room[e]]
             /\ "torn" \in DOMAIN room /\ room["torn"] = 0

LEMMA WholeStays ==
    ASSUME Typed, InboxIsThere, RoomWhole, [RecoveryNext]_recoveryVars
    PROVE  InboxIsThere' /\ RoomWhole'
<1>1. RoomWhole'
  <2>1. ASSUME NEW what, Takes(what) PROVE RoomWhole'
    <3>1. what # "torn" /\ room' = [room EXCEPT ![what] = @ - 1]
      BY <2>1 DEF Takes, RoomWhole
    <3>2. DOMAIN room' = DOMAIN room /\ room'["torn"] = 0 /\ room' = [e \in DOMAIN room' |-> room'[e]]
      BY <3>1 DEF RoomWhole
    <3> QED
      BY <3>2 DEF RoomWhole
  <2>2. CASE UNCHANGED room
    BY <2>2 DEF RoomWhole
  <2>3. UNCHANGED room \/ \E what : Takes(what)
    BY DEF RecoveryNext, recoveryVars, Receives, Acks, Delivers, Fails, Queues, Claims, Sends, Observed, Resolves,
         Retries, Discards, Backup, Downloads, Imports, Deletes, Stages, Saves, NoSpace, Shuts, MovesAside, Swaps,
         Reopens, Cleans, Undoes, Resumes, Crashes, Restarts, Same
  <2> QED
    BY <2>1, <2>2, <2>3
<1>2. CASE CopySteps \/ UNCHANGED recoveryVars
  <2>1. UNCHANGED <<inbox, restore>>
    BY <1>2 DEF CopySteps, Backup, Downloads, Imports, Deletes, Same, recoveryVars
  <2> QED
    BY <1>1, <2>1 DEF InboxIsThere
<1>3. ASSUME NEW u \in Uploads, Call(u) PROVE InboxIsThere'
  BY <1>3, RowPut DEF Call, InboxIsThere
<1>4. CASE Crashes
  <2>1. restore.at # "aside" /\ inbox' = inbox
    BY <1>4 DEF Crashes, Takes, RoomWhole, Same
  <2> QED
    BY <1>1, <2>1 DEF InboxIsThere, Typed, FilesTyped, UpFits, Steps
<1>5. CASE Restarts
  BY <1>1, <1>5, OpenedIs DEF Restarts, InboxIsThere, Typed, FilesTyped
<1>6. CASE RestoreSteps
  <2>1. Typed'
    BY <1>6, RestoreTyped
  <2>2. CASE NoSpace \/ Cleans \/ Resumes
    <3>1. inbox' \in {inbox, Opened(inbox)} /\ inbox.there /\ inbox \in Directories
      BY <2>2 DEF NoSpace, Cleans, Resumes, Same, Typed, FilesTyped, UpFits
    <3> QED
      BY <1>1, <3>1, OpenedIs DEF InboxIsThere
  <2>3. CASE ~ (NoSpace \/ Cleans \/ Resumes)
    <3>1. restore'.at # "rest"
      BY <1>6, <2>3 DEF RestoreSteps, Stages, Saves, Shuts, MovesAside, Swaps, Reopens, Undoes, Goes, Typed, FilesTyped
    <3> QED
      BY <1>1, <3>1 DEF InboxIsThere
  <2> QED
    BY <2>2, <2>3
<1> QED
  BY <1>1, <1>2, <1>3, <1>4, <1>5, <1>6, StepIs DEF StopSteps

(***************************************************************************)
(* The theorems.                                                           *)
(***************************************************************************)
LEMMA TypedHolds == RecoverySpec => []Typed
BY InitTyped, StaysTyped, PTL DEF RecoverySpec

\* Whatever backups are made, imported and restored, and however often a restore is undone or
\* cut short, a start is sent no more often than it was asked for: a restored start that waited
\* is blocked, one that may have been sent is unknown (native_recovery.py).
THEOREM RestoresSendOnce == RecoverySpec => []SentOnce
<1>1. Typed /\ SentFits /\ [RecoveryNext]_recoveryVars => SentFits'
  BY StaysSent
<1>2. SentFits => SentOnce
  BY DEF SentFits, SentOnce
<1> QED
  BY <1>1, <1>2, InitSent, TypedHolds, PTL DEF RecoverySpec

\* A restored inbox sends nothing twice and loses nothing that was acknowledged, and there is
\* always an inbox to start from: where no upload is acknowledged between the safety backup and
\* the close, and the process does not stop between the two renames (native_recovery.py).
THEOREM RestoreIsSound ==
    ASSUME NoWindow, NeverTorn
    PROVE  RecoverySpec => []RecoverySound
<1>1. RecoveryInit => RoomShut /\ RoomWhole /\ HeldFits /\ InboxIsThere
  BY NothingIs, NoWindow, NeverTorn DEF RecoveryInit, RoomShut, RoomWhole, NoWindow, NeverTorn, HeldFits, InboxIsThere
<1>2. Typed /\ RoomShut /\ HeldFits /\ [RecoveryNext]_recoveryVars => RoomShut' /\ HeldFits'
  BY RoomStays, StaysHeld
<1>3. Typed /\ RoomWhole /\ InboxIsThere /\ [RecoveryNext]_recoveryVars => RoomWhole' /\ InboxIsThere'
  BY WholeStays
<1>4. Typed /\ HeldFits => NothingLost
  BY DEF HeldFits, CopyHolds, Holds, NothingLost, Held, Places
<1>5. SentOnce /\ NothingLost /\ InboxIsThere => RecoverySound
  BY DEF RecoverySound
<1> QED
  BY <1>1, <1>2, <1>3, <1>4, <1>5, TypedHolds, RestoresSendOnce, PTL DEF RecoverySpec

(***************************************************************************)
(* Skipping objects.  What is read, pinned and judged under the run id the  *)
(* bridge counts now is about the print under way: the content it runs, or   *)
(* one with another layer count.                                            *)
(***************************************************************************)
Contained == Contents \cup {None}
States == {"IDLE", "RUNNING", "PAUSE", "FINISH"}
MachineRec == [gs : States, run : Nat, of : Contained, gone : SUBSET Objects]
SaidRec == [on : BOOLEAN, fresh : BOOLEAN, gs : States, run : Nat, layers : Nat, s_obj : SUBSET Objects]
LogRec == [run_id : Nat, skips : SUBSET Objects, pinned : Contained]
SheetRec == [run_id : Nat, of : Contained]
CallRec == [at : {"rest", "reading", "read", "judged", "sending", "sent"}, kind : {None, "get", "post"},
            ids : SUBSET Objects, run_id : Nat, of : Contained, stop : BOOLEAN]
SkipTyped == /\ machine \in MachineRec /\ said \in SaidRec /\ runLog \in LogRec /\ card \in Contents
             /\ sheet \in [Clients -> SheetRec] /\ call \in [Clients -> CallRec]

\* The reports (s) speak of the print under way (m).
Going(m, s) == m.gs \in SKIP_STATES /\ s.run = m.run
SaidFits(m, s) ==
    /\ (m.gs \in SKIP_STATES => m.run # 0) /\ (m.run # 0 => m.of \in Contents)
    /\ s.run <= m.run
    /\ s.gs \in SKIP_STATES /\ s.on /\ s.fresh => s.run = m.run
    /\ Going(m, s) => s.gs \in SKIP_STATES /\ s.layers = LayersOf[m.of] /\ s.s_obj \subseteq m.gone

\* A content that has the layers of the one printed is that one.
Like(m, f) == f \in Contents /\ LayersOf[f] = LayersOf[m.of] => f = m.of
LogFits(m, s, l) ==
    Going(m, s) => l.skips \subseteq m.gone /\ (l.pinned # None => Like(m, l.pinned))
CardFits(m, s, l, f) == m.gs \in SKIP_STATES /\ (s.run # m.run \/ l.pinned = None) => Like(m, f)

\* A request: what it has read, and what it is about to send.
CallFits(m, s, l, x) ==
    /\ x.at # "rest" => x.run_id <= l.run_id /\ (x.run_id = l.run_id => s.fresh)
    /\ x.at \in {"read", "judged", "sending", "sent"} => x.of \in Contents
    /\ x.at \in {"reading", "read"} => x.kind \in {"get", "post"}
    /\ x.at \in {"judged", "sending", "sent"} => x.kind = "post"
    /\ x.at = "rest" => x.kind = None /\ x.ids = {}
    /\ x.at = "read" /\ x.run_id = l.run_id /\ Going(m, s) /\ l.pinned = None => Like(m, x.of)
    /\ x.at = "judged" /\ x.run_id = l.run_id /\ Going(m, s) => Like(m, x.of)
    /\ x.at = "sending" /\ m.gs \in SKIP_STATES =>
         s.run = m.run /\ x.of = m.of /\ (x.stop <=> Objects \subseteq (m.gone \cup x.ids))
    /\ x.at = "sent" /\ m.gs \in SKIP_STATES => s.run = m.run /\ ~ x.stop /\ x.ids \subseteq m.gone

CallsFit == \A c \in Clients : CallFits(machine, said, runLog, call[c])
OnePost == \A c, d \in Clients : call[c].kind = "post" /\ call[d].kind = "post" => c = d
\* What is skipped was echoed, is remembered, or is about to be.
NoneForgotten == Going(machine, said) => \A o \in machine.gone :
    o \in said.s_obj \/ o \in runLog.skips \/ \E c \in Clients : call[c].at = "sent" /\ o \in call[c].ids

\* No command is overtaken by a print, no sheet asked for before the first report, no echo later
\* than the bridge waits, and after a reconnection no other print is taken for the lost one.
Plain(l) == /\ l = [e \in DOMAIN l |-> l[e]]
            /\ \A w \in {"late", "early", "slow", "further"} : w \in DOMAIN l /\ l[w] = 0
AllPlain == \A l \in SkipWorlds : Plain(l)

SkipInv == /\ SkipTyped /\ SaidFits(machine, said) /\ LogFits(machine, said, runLog) /\ CardFits(machine, said, runLog, card)
           /\ CallsFit /\ OnePost /\ NoneForgotten /\ Plain(chance) /\ SkipSound

LEMMA MayPlain ==
    ASSUME Plain(chance), NEW what \in {"runs", "pauses", "replaces", "drops", "asks"}, May(what)
    PROVE  Plain(chance')
<1>1. chance' = [chance EXCEPT ![what] = @ - 1] /\ what \notin {"late", "early", "slow", "further"}
  BY DEF May
<1>2. DOMAIN chance' = DOMAIN chance /\ chance' = [e \in DOMAIN chance' |-> chance'[e]]
      /\ \A w \in {"late", "early", "slow", "further"} : chance'[w] = chance[w]
  BY <1>1 DEF Plain
<1> QED
  BY <1>2 DEF Plain

LEMMA SkipStarts ==
    ASSUME SkipConstants, AllPlain, SkipInit
    PROVE  SkipInv
<1>1. /\ machine \in MachineRec /\ machine.gs = "IDLE" /\ machine.run = 0
      /\ said \in SaidRec /\ said.gs = "IDLE" /\ said.run = 0
      /\ runLog \in LogRec /\ card \in Contents
  BY DEF SkipInit, MachineRec, SaidRec, LogRec, States, Contained
<1>2. Idle \in CallRec /\ Idle.at = "rest" /\ Idle.kind = None /\ Idle.ids = {}
  BY DEF Idle, CallRec, Contained
<1>3. [run_id |-> 0, of |-> None] \in SheetRec
  BY DEF SheetRec, Contained
<1>4. SkipTyped
  BY <1>1, <1>2, <1>3 DEF SkipInit, SkipTyped
<1>5. SaidFits(machine, said) /\ LogFits(machine, said, runLog) /\ CardFits(machine, said, runLog, card) /\ NoneForgotten
  BY <1>1 DEF SaidFits, LogFits, CardFits, NoneForgotten, Going, SKIP_STATES
<1>6. \A c \in Clients : call[c] = Idle
  BY DEF SkipInit
<1>7. CallsFit
  BY <1>1, <1>2, <1>6 DEF CallsFit, CallFits, SKIP_STATES
<1>8. OnePost
  BY <1>2, <1>6 DEF OnePost, None
<1>9. SkipSound /\ Plain(chance)
  BY DEF SkipInit, AllPlain, SkipSound, SkipMeetsItsPlate, NeverEmptied, StopLeavesNothing
<1> QED
  BY <1>4, <1>5, <1>7, <1>8, <1>9 DEF SkipInv

(***************************************************************************)
(* The printer and its card.                                                *)
(***************************************************************************)
LEMMA StartsRunFits ==
    ASSUME SkipInv, StartsRun
    PROVE  SkipInv'
<1> DEFINE m == [gs |-> "RUNNING", run |-> machine.run + 1, of |-> card, gone |-> {}]
<1>0. SkipTyped /\ SaidFits(machine, said) /\ CallsFit /\ Plain(chance) /\ machine.run \in Nat /\ said.run \in Nat /\ said \in SaidRec
  BY DEF SkipInv, SkipTyped, MachineRec, SaidRec
<1>1. /\ machine.gs \in {"IDLE", "FINISH"} /\ May("runs") /\ machine' = m
      /\ UNCHANGED <<said, runLog, sheet, call, orders, card>>
      /\ (said.on /\ said.fresh => said.gs = machine.gs)
  BY DEF StartsRun, Machine, Heard
<1>2. Plain(chance') /\ \A c \in Clients : call[c].at \notin {"sending", "sent"}
  BY <1>0, <1>1, MayPlain DEF StartsRun, Plain
<1>3. /\ m \in MachineRec /\ m.gs = "RUNNING" /\ m.of = card /\ m.run = machine.run + 1 /\ m.run # 0 /\ card \in Contents
      /\ m.run # said.run /\ said.run <= m.run
  BY <1>0 DEF SkipTyped, MachineRec, SaidFits, States, Contained
<1> HIDE DEF m
<1>4. ~ Going(m, said)
  BY <1>3 DEF Going
<1>5. SaidFits(m, said) /\ LogFits(m, said, runLog) /\ CardFits(m, said, runLog, card)
  BY <1>1, <1>3, <1>4 DEF SaidFits, LogFits, CardFits, Like, SKIP_STATES
<1>6. ASSUME NEW c \in Clients PROVE CallFits(m, said, runLog, call[c])
  BY <1>0, <1>2, <1>4 DEF CallsFit, CallFits
<1> QED
  BY <1>0, <1>1, <1>2, <1>3, <1>4, <1>5, <1>6
  DEF SkipInv, SkipTyped, CallsFit, OnePost, NoneForgotten, SkipSound, SkipMeetsItsPlate, NeverEmptied, StopLeavesNothing

LEMMA MachineSteps ==
    ASSUME SkipInv, Finishes \/ Pauses
    PROVE  SkipInv'
<1> DEFINE m == machine'
<1>0. SkipTyped /\ SaidFits(machine, said) /\ CallsFit /\ machine \in MachineRec
  BY DEF SkipInv, SkipTyped
<1>1. /\ UNCHANGED <<said, runLog, sheet, call, orders, card>> /\ machine.gs \in SKIP_STATES
      /\ \E gs \in {"FINISH", "PAUSE", "RUNNING"} : machine' = [machine EXCEPT !.gs = gs]
  BY DEF Finishes, Pauses, Machine
<1>2. Plain(chance')
  BY MayPlain DEF Finishes, Pauses, SkipInv
<1>3. machine' \in MachineRec /\ machine'.run = machine.run /\ machine'.of = machine.of /\ machine'.gone = machine.gone
  BY <1>0, <1>1 DEF MachineRec, States
<1>4. Going(machine', said) => Going(machine, said)
  BY <1>1, <1>3 DEF Going
<1>5. ASSUME NEW f PROVE Like(machine, f) => Like(machine', f)
  BY <1>3 DEF Like
<1>6. SaidFits(machine', said) /\ LogFits(machine', said, runLog) /\ CardFits(machine', said, runLog, card)
  BY <1>1, <1>3, <1>4, <1>5 DEF SkipInv, SaidFits, LogFits, CardFits
<1>7. ASSUME NEW c \in Clients PROVE CallFits(machine', said, runLog, call[c])
  BY <1>0, <1>1, <1>3, <1>4, <1>5 DEF CallsFit, CallFits
<1> QED
  BY <1>0, <1>1, <1>2, <1>3, <1>4, <1>6, <1>7
  DEF SkipInv, SkipTyped, CallsFit, OnePost, NoneForgotten, SkipSound, SkipMeetsItsPlate, NeverEmptied, StopLeavesNothing

LEMMA ReplacesFit ==
    ASSUME SkipInv, NEW c \in Contents, Replaces(c)
    PROVE  SkipInv'
<1>1. card' = c /\ UNCHANGED <<machine, said, runLog, sheet, call, orders>> /\ Plain(chance')
  BY MayPlain DEF Replaces, SkipInv
<1>2. CardFits(machine, said, runLog, c)
  BY DEF Replaces, CardFits, Like
<1> QED
  BY <1>1, <1>2
  DEF SkipInv, SkipTyped, CallsFit, OnePost, NoneForgotten, SkipSound, SkipMeetsItsPlate, NeverEmptied, StopLeavesNothing

(***************************************************************************)
(* The link and the reports.                                                *)
(***************************************************************************)
LEMMA LinkSteps ==
    ASSUME SkipInv, LinkDrops \/ Reconnects
    PROVE  SkipInv'
<1>0. SkipTyped /\ said \in SaidRec /\ runLog \in LogRec /\ SaidFits(machine, said) /\ CallsFit
  BY DEF SkipInv, SkipTyped
<1>1. UNCHANGED <<machine, card, sheet, call, orders>> /\ Plain(chance')
  BY MayPlain DEF LinkDrops, Reconnects, SkipInv
<1>2. /\ said' \in SaidRec /\ said'.run = said.run /\ said'.gs = said.gs /\ said'.layers = said.layers /\ said'.s_obj = said.s_obj
      /\ said'.on /\ said'.fresh => said.on /\ said.fresh
  BY <1>0 DEF LinkDrops, Reconnects, SaidRec
<1>3. /\ runLog' \in LogRec /\ runLog'.skips = runLog.skips /\ runLog'.pinned = runLog.pinned
      /\ \/ runLog'.run_id = runLog.run_id /\ said'.fresh = said.fresh
         \/ runLog'.run_id = runLog.run_id + 1
  <2>1. CASE LinkDrops
    BY <1>0, <2>1 DEF LinkDrops, SaidRec
  <2>2. CASE Reconnects
    BY <1>0, <2>2 DEF Reconnects, LogRec
  <2> QED
    BY <2>1, <2>2
<1>4. Going(machine, said') <=> Going(machine, said)
  BY <1>2 DEF Going
<1>5. SaidFits(machine, said') /\ LogFits(machine, said', runLog') /\ CardFits(machine, said', runLog', card)
  BY <1>2, <1>3, <1>4 DEF SkipInv, SaidFits, LogFits, CardFits
<1>6. ASSUME NEW c \in Clients PROVE CallFits(machine, said', runLog', call[c])
  <2>1. CallFits(machine, said, runLog, call[c]) /\ call[c].run_id \in Nat /\ runLog.run_id \in Nat
    BY <1>0 DEF CallsFit, SkipTyped, CallRec, LogRec
  <2>2. CASE runLog'.run_id = runLog.run_id /\ said'.fresh = said.fresh
    BY <1>2, <1>3, <1>4, <2>1, <2>2 DEF CallFits
  <2>3. CASE runLog'.run_id = runLog.run_id + 1
    <3>1. call[c].at # "rest" => call[c].run_id <= runLog'.run_id /\ call[c].run_id # runLog'.run_id
      BY <2>1, <2>3 DEF CallFits
    <3> QED
      BY <1>2, <1>3, <2>1, <3>1 DEF CallFits
  <2> QED
    BY <1>3, <2>2, <2>3
<1> QED
  BY <1>0, <1>1, <1>2, <1>3, <1>4, <1>5, <1>6
  DEF SkipInv, SkipTyped, CallsFit, OnePost, NoneForgotten, SkipSound, SkipMeetsItsPlate, NeverEmptied, StopLeavesNothing

\* What a report makes of the RunLog: it starts over, it stays as it is for the print that went on, or it forgets.
Edge == /\ machine.gs # said.gs
        /\ {machine.gs, said.gs} \cap SKIP_STATES = {} \/ ~ {machine.gs, said.gs} \subseteq SKIP_STATES
Layers == IF machine.run = 0 THEN 0 ELSE LayersOf[machine.of]
SamePrint == machine.gs \in SKIP_STATES /\ Layers = said.layers /\ machine.run = said.run
LEMMA ReportIs ==
    ASSUME Reports, Plain(chance), runLog \in LogRec
    PROVE  /\ said.on /\ said' = [on |-> TRUE, fresh |-> TRUE, gs |-> machine.gs, run |-> machine.run,
                                  layers |-> Layers, s_obj |-> machine.gone]
           /\ UNCHANGED <<machine, card, sheet, call, orders, chance>>
           /\ runLog' \in LogRec
           /\ \/ Edge /\ runLog'.run_id = runLog.run_id + 1 /\ runLog'.skips = {} /\ runLog'.pinned = None
              \/ ~ Edge /\ (said.fresh \/ SamePrint) /\ runLog' = runLog
              \/ ~ Edge /\ ~ said.fresh /\ ~ SamePrint
                 /\ runLog'.run_id = runLog.run_id /\ runLog'.skips = {} /\ runLog'.pinned = None
<1> DEFINE now == [on |-> TRUE, fresh |-> TRUE, gs |-> machine.gs, run |-> machine.run, layers |-> Layers, s_obj |-> machine.gone]
           kept == IF said.fresh \/ SamePrint THEN runLog ELSE Forgets
<1>1. Forgets \in LogRec /\ Forgets.run_id = runLog.run_id /\ Forgets.skips = {} /\ Forgets.pinned = None
  BY DEF Forgets, LogRec, Contained
<1>2. now.gs = machine.gs /\ now.run = machine.run /\ now.layers = Layers
  OBVIOUS
<1>3. /\ said.on /\ said' = now /\ UNCHANGED <<machine, card, sheet, call, orders, chance>>
      /\ runLog' = IF Edge THEN [Forgets EXCEPT !.run_id = kept.run_id + 1] ELSE kept
  <2>1. ~ (chance.further > 0)
    BY DEF Plain
  <2> QED
    BY <2>1, <1>2 DEF Reports, Edge, Layers, SamePrint
<1> HIDE DEF now
<1>4. kept \in LogRec /\ kept.run_id = runLog.run_id
  BY <1>1
<1>5. CASE Edge
  <2>1. runLog' = [Forgets EXCEPT !.run_id = kept.run_id + 1] /\ kept.run_id + 1 \in Nat
    BY <1>3, <1>4, <1>5 DEF LogRec
  <2> HIDE DEF kept
  <2>2. runLog' \in LogRec /\ runLog'.run_id = runLog.run_id + 1 /\ runLog'.skips = {} /\ runLog'.pinned = None
    BY <1>1, <1>4, <2>1 DEF LogRec
  <2> QED
    BY <1>3, <1>5, <2>2 DEF now
<1>6. CASE ~ Edge
  BY <1>1, <1>3, <1>6 DEF now
<1> QED
  BY <1>5, <1>6

LEMMA ReportsFit ==
    ASSUME SkipConstants, SkipInv, Reports
    PROVE  SkipInv'
<1>0. /\ SkipTyped /\ said \in SaidRec /\ runLog \in LogRec /\ SaidFits(machine, said) /\ CallsFit /\ Plain(chance)
      /\ machine \in MachineRec /\ machine.run \in Nat /\ LogFits(machine, said, runLog) /\ CardFits(machine, said, runLog, card)
  BY DEF SkipInv, SkipTyped, MachineRec
<1>1. /\ said.on /\ UNCHANGED <<machine, card, sheet, call, orders, chance>> /\ runLog' \in LogRec
      /\ said' = [on |-> TRUE, fresh |-> TRUE, gs |-> machine.gs, run |-> machine.run, layers |-> Layers, s_obj |-> machine.gone]
  BY <1>0, ReportIs
<1>2. /\ said'.on = TRUE /\ said'.fresh = TRUE /\ said'.gs = machine.gs /\ said'.run = machine.run
      /\ said'.layers = Layers /\ said'.s_obj = machine.gone
  BY <1>1
<1>3. said' \in SaidRec
  <2>1. Layers \in Nat
    <3>1. CASE machine.run = 0
      BY <3>1 DEF Layers
    <3>2. CASE machine.run # 0
      BY <1>0, <3>2 DEF Layers, SaidFits, SkipConstants
    <3> QED
      BY <3>1, <3>2
  <2> QED
    BY <1>0, <1>1, <2>1 DEF MachineRec, SaidRec
<1>4. SaidFits(machine, said')
  BY <1>0, <1>2 DEF SaidFits, Going, Layers
<1>5. Going(machine, said) => SamePrint /\ ~ Edge
  BY <1>0 DEF SaidFits, Going, Layers, SamePrint, Edge
<1>6. CASE Edge
  <2>1. runLog'.run_id = runLog.run_id + 1 /\ runLog'.skips = {} /\ runLog'.pinned = None
    BY <1>0, <1>6, ReportIs
  <2>2. machine.gs \in SKIP_STATES => said.run # machine.run
    BY <1>5, <1>6 DEF Going
  <2>3. LogFits(machine, said', runLog') /\ CardFits(machine, said', runLog', card)
    BY <1>0, <2>1, <2>2 DEF LogFits, CardFits
  <2>4. ASSUME NEW c \in Clients PROVE CallFits(machine, said', runLog', call[c])
    <3>1. CallFits(machine, said, runLog, call[c]) /\ call[c].run_id \in Nat /\ runLog.run_id \in Nat
      BY <1>0 DEF CallsFit, SkipTyped, CallRec, LogRec
    <3>2. call[c].at # "rest" => call[c].run_id <= runLog'.run_id /\ call[c].run_id # runLog'.run_id
      BY <2>1, <3>1 DEF CallFits
    <3> QED
      BY <1>2, <2>1, <3>1, <3>2 DEF CallFits
  <2> QED
    BY <1>0, <1>1, <1>2, <1>3, <1>4, <2>3, <2>4
    DEF SkipInv, SkipTyped, CallsFit, OnePost, NoneForgotten, SkipSound, SkipMeetsItsPlate, NeverEmptied, StopLeavesNothing
<1>7. CASE ~ Edge /\ (said.fresh \/ SamePrint)
  <2>1. runLog' = runLog
    BY <1>0, <1>7, ReportIs
  <2>2. Going(machine, said') => Going(machine, said)
    <3>1. CASE SamePrint
      BY <3>1 DEF SamePrint, Going
    <3>2. CASE said.fresh /\ machine.gs \in SKIP_STATES
      <4>1. said.gs \in SKIP_STATES
        BY <1>7, <3>2 DEF Edge
      <4> QED
        BY <1>0, <1>1, <3>2, <4>1 DEF SaidFits, Going
    <3> QED
      BY <1>7, <3>1, <3>2 DEF Going
  <2>3. LogFits(machine, said', runLog')
    BY <1>0, <2>1, <2>2 DEF LogFits
  <2>4. CardFits(machine, said', runLog', card)
    BY <1>0, <1>2, <2>1 DEF CardFits
  <2>5. ASSUME NEW c \in Clients PROVE CallFits(machine, said', runLog', call[c])
    <3>1. CallFits(machine, said, runLog, call[c])
      BY <1>0 DEF CallsFit
    <3> QED
      BY <1>2, <2>1, <2>2, <3>1 DEF CallFits
  <2> QED
    BY <1>0, <1>1, <1>2, <1>3, <1>4, <2>3, <2>4, <2>5
    DEF SkipInv, SkipTyped, CallsFit, OnePost, NoneForgotten, SkipSound, SkipMeetsItsPlate, NeverEmptied, StopLeavesNothing
<1>8. CASE ~ Edge /\ ~ said.fresh /\ ~ SamePrint
  <2>1. runLog'.run_id = runLog.run_id /\ runLog'.skips = {} /\ runLog'.pinned = None
    BY <1>0, <1>8, ReportIs
  <2>2. machine.gs \in SKIP_STATES => said.run # machine.run
    BY <1>5, <1>8 DEF Going
  <2>3. LogFits(machine, said', runLog') /\ CardFits(machine, said', runLog', card)
    BY <1>0, <2>1, <2>2 DEF LogFits, CardFits
  <2>4. ASSUME NEW c \in Clients PROVE CallFits(machine, said', runLog', call[c])
    <3>1. CallFits(machine, said, runLog, call[c])
      BY <1>0 DEF CallsFit
    <3>2. call[c].at # "rest" => call[c].run_id <= runLog'.run_id /\ call[c].run_id # runLog'.run_id
      BY <1>8, <2>1, <3>1 DEF CallFits
    <3> QED
      BY <1>2, <2>1, <3>1, <3>2 DEF CallFits
  <2> QED
    BY <1>0, <1>1, <1>2, <1>3, <1>4, <2>3, <2>4
    DEF SkipInv, SkipTyped, CallsFit, OnePost, NoneForgotten, SkipSound, SkipMeetsItsPlate, NeverEmptied, StopLeavesNothing
<1> QED
  BY <1>6, <1>7, <1>8

(***************************************************************************)
(* The requests.                                                            *)
(***************************************************************************)
LEMMA OtherCalls ==
    ASSUME SkipTyped, NEW c \in Clients, NEW x \in CallRec, Step(c, x)
    PROVE  call' \in [Clients -> CallRec] /\ call'[c] = x /\ \A d \in Clients : d # c => call'[d] = call[d]
  BY DEF SkipTyped, Step

\* A step of one request that sends nothing and leaves the RunLog.
LEMMA CallSteps ==
    ASSUME SkipInv, NEW c \in Clients, NEW x \in CallRec, Step(c, x), UNCHANGED <<machine, card, said, runLog, orders>>,
           sheet' \in [Clients -> SheetRec], Plain(chance'), CallFits(machine, said, runLog, x), call[c].at # "sent",
           x.kind = "post" => call[c].kind = "post" \/ \A d \in Clients : call[d].kind # "post"
    PROVE  SkipInv'
<1>1. /\ SkipTyped /\ CallsFit /\ OnePost /\ NoneForgotten
  BY DEF SkipInv
<1>2. call' \in [Clients -> CallRec] /\ call'[c] = x /\ \A d \in Clients : d # c => call'[d] = call[d]
  BY <1>1, OtherCalls
<1>3. CallsFit'
  BY <1>1, <1>2 DEF CallsFit
<1>4. OnePost'
  BY <1>1, <1>2 DEF OnePost
<1>5. NoneForgotten'
  BY <1>1, <1>2 DEF NoneForgotten
<1> QED
  BY <1>1, <1>2, <1>3, <1>4, <1>5 DEF SkipInv, SkipTyped, SkipSound, SkipMeetsItsPlate, NeverEmptied, StopLeavesNothing

LEMMA RestFits ==
    ASSUME SkipInv
    PROVE  Idle \in CallRec /\ Idle.kind # "post" /\ CallFits(machine, said, runLog, Idle)
  BY DEF Idle, CallRec, Contained, None, CallFits

LEMMA AsksFit ==
    ASSUME SkipInv, NEW c \in Clients, Asks(c) \/ Reads(c)
    PROVE  SkipInv'
<1>1. /\ SkipTyped /\ call[c] \in CallRec /\ runLog \in LogRec /\ card \in Contents /\ Plain(chance) /\ CallsFit
      /\ CardFits(machine, said, runLog, card) /\ sheet' \in [Clients -> SheetRec]
      /\ UNCHANGED <<machine, card, said, runLog, sheet, orders>>
  BY DEF SkipInv, SkipTyped, Asks, Reads
<1>2. CASE Asks(c)
  <2> DEFINE x == [Loads(c) EXCEPT !.kind = "get"]
  <2>1. Step(c, x) /\ Plain(chance') /\ call[c].at = "rest" /\ said.fresh
    BY <1>1, <1>2, MayPlain DEF Asks, Known, Plain
  <2>2. x \in CallRec /\ x.at = "reading" /\ x.kind = "get" /\ x.run_id = runLog.run_id /\ runLog.run_id \in Nat
    BY <1>1 DEF CallRec, Loads, LogRec
  <2> HIDE DEF x
  <2>3. CallFits(machine, said, runLog, x)
    BY <2>1, <2>2 DEF CallFits
  <2> QED
    BY <1>1, <2>1, <2>2, <2>3, CallSteps
<1>3. CASE Reads(c)
  <2> DEFINE x == [call[c] EXCEPT !.at = "read", !.of = card]
  <2>1. Step(c, x) /\ Plain(chance') /\ call[c].at = "reading"
    BY <1>1, <1>3 DEF Reads
  <2>2. x \in CallRec /\ x.at = "read" /\ x.kind = call[c].kind /\ x.run_id = call[c].run_id /\ x.of = card
    BY <1>1 DEF CallRec, Contained
  <2> HIDE DEF x
  <2>3. CallFits(machine, said, runLog, x)
    BY <1>1, <2>1, <2>2 DEF CallFits, CallsFit, CardFits, Going
  <2> QED
    BY <1>1, <2>1, <2>2, <2>3, CallSteps
<1> QED
  BY <1>2, <1>3

LEMMA PostsFit ==
    ASSUME SkipInv, NEW c \in Clients, Posts(c)
    PROVE  SkipInv'
<1>1. /\ SkipTyped /\ call[c] \in CallRec /\ runLog \in LogRec /\ Plain(chance) /\ CallsFit /\ Plain(chance')
      /\ sheet' \in [Clients -> SheetRec] /\ UNCHANGED <<machine, card, said, runLog, orders>>
  BY MayPlain DEF SkipInv, SkipTyped, Posts
<1>2. PICK ids \in SUBSET Objects \ {{}}, stop \in BOOLEAN :
        Step(c, [Loads(c) EXCEPT !.kind = "post", !.ids = ids, !.stop = stop])
  BY DEF Posts
<1> DEFINE x == [Loads(c) EXCEPT !.kind = "post", !.ids = ids, !.stop = stop]
<1>3. x \in CallRec /\ x.at = "reading" /\ x.kind = "post" /\ x.run_id = runLog.run_id /\ runLog.run_id \in Nat
  BY <1>1 DEF CallRec, Loads, LogRec
<1>4. Step(c, x)
  BY <1>2
<1> HIDE DEF x
<1>5. said.fresh /\ call[c].at # "sent" /\ \A d \in Clients : call[d].kind # "post"
  BY <1>1 DEF Posts, Known, Plain, LockFree, CallsFit, CallFits, None
<1>6. CallFits(machine, said, runLog, x)
  BY <1>3, <1>5 DEF CallFits
<1> QED
  BY <1>1, <1>3, <1>4, <1>5, <1>6, CallSteps

\* What a request has read once its run id still counts is pinned, or compared with what is.
LEMMA PinningHolds ==
    ASSUME SkipInv, NEW c \in Clients, call[c].at = "read", call[c].run_id = runLog.run_id, Going(machine, said)
    PROVE  Pinning(c) /\ (runLog.pinned = None => Like(machine, call[c].of))
  BY DEF SkipInv, CallsFit, CallFits, SaidFits, Pinning, FreshState, SKIP_STATES

LEMMA PinsFit ==
    ASSUME SkipConstants, SkipInv, NEW c \in Clients, Pins(c)
    PROVE  SkipInv'
<1>1. /\ SkipTyped /\ call[c] \in CallRec /\ runLog \in LogRec /\ CallsFit /\ OnePost /\ NoneForgotten
      /\ SaidFits(machine, said) /\ LogFits(machine, said, runLog) /\ CardFits(machine, said, runLog, card)
      /\ Plain(chance') /\ UNCHANGED <<machine, card, said, orders, chance>> /\ call[c].at = "read"
  BY DEF SkipInv, SkipTyped, Pins
<1>2. call[c].of \in Contents /\ call[c].of # None /\ call[c].kind \in {"get", "post"}
  BY <1>1 DEF CallsFit, CallFits, SkipConstants, None
<1> DEFINE judged == [call[c] EXCEPT !.at = "judged"]
<1>3. judged \in CallRec /\ judged.at = "judged" /\ judged.kind = call[c].kind
      /\ judged.run_id = call[c].run_id /\ judged.of = call[c].of
  BY <1>1 DEF CallRec
<1> HIDE DEF judged
<1>4. PICK x \in {Idle, judged} : Step(c, x) /\ (x = judged => call[c].kind = "post")
  <2>1. Step(c, Idle) \/ (Step(c, judged) /\ call[c].kind # "get")
    BY DEF Pins, judged
  <2>2. Idle # judged
    BY <1>3 DEF Idle
  <2> QED
    BY <1>2, <2>1, <2>2
<1>5. sheet' \in [Clients -> SheetRec]
  BY <1>1 DEF Pins, SkipTyped, SheetRec, CallRec
<1>6. x = judged => ~ (Pinning(c) /\ runLog.pinned \notin {None, call[c].of})
  <2>1. SUFFICES ASSUME Pinning(c), runLog.pinned \notin {None, call[c].of} PROVE x # judged
    OBVIOUS
  <2>2. Step(c, Idle)
    BY <2>1 DEF Pins
  <2>3. x = Idle
    BY <1>1, <1>4, <2>2 DEF Step, SkipTyped
  <2> QED
    BY <1>3, <2>3 DEF Idle
<1>7. x \in CallRec /\ (x.kind = "post" => call[c].kind = "post") /\ x.at \in {"rest", "judged"}
  <2>1. Idle.at = "rest"
    BY DEF Idle
  <2> QED
    BY <1>3, <1>4, <2>1, RestFits
<1>8. CASE runLog' = runLog
  <2>1. CallFits(machine, said, runLog, x)
    <3>1. CASE x = Idle
      BY <3>1, RestFits
    <3>2. CASE x = judged
      <4>1. call[c].run_id = runLog.run_id /\ Going(machine, said) => Like(machine, call[c].of)
        BY <1>1, <1>6, <3>2, PinningHolds DEF LogFits
      <4> QED
        BY <1>1, <1>2, <1>3, <1>4, <3>2, <4>1 DEF CallFits, CallsFit
    <3> QED
      BY <1>4, <3>1, <3>2
  <2> QED
    BY <1>1, <1>4, <1>5, <1>7, <1>8, <2>1, CallSteps
<1>9. CASE runLog' # runLog
  <2>1. Pinning(c) /\ runLog.pinned = None /\ runLog' = [runLog EXCEPT !.pinned = call[c].of]
    BY <1>9 DEF Pins
  <2>2. /\ runLog' \in LogRec /\ runLog'.run_id = runLog.run_id /\ runLog'.skips = runLog.skips
        /\ runLog'.pinned = call[c].of /\ runLog'.pinned # None
    BY <1>1, <1>2, <2>1 DEF LogRec, Contained
  <2>3. call[c].run_id = runLog.run_id /\ (Going(machine, said) => Like(machine, call[c].of))
    BY <1>1, <2>1, PinningHolds DEF Pinning
  <2>4. LogFits(machine, said, runLog') /\ CardFits(machine, said, runLog', card)
    BY <1>1, <2>1, <2>2, <2>3 DEF LogFits, CardFits
  <2>5. call' \in [Clients -> CallRec] /\ call'[c] = x /\ \A d \in Clients : d # c => call'[d] = call[d]
    BY <1>1, <1>4, <1>7, OtherCalls
  <2>6. ASSUME NEW d \in Clients PROVE CallFits(machine, said, runLog', call'[d])
    <3>1. CASE d # c
      BY <1>1, <2>2, <2>5, <3>1 DEF CallsFit, CallFits
    <3>2. CASE d = c /\ x = Idle
      BY <2>5, <3>2 DEF CallFits, Idle
    <3>3. CASE d = c /\ x = judged
      BY <1>1, <1>2, <1>3, <1>4, <2>2, <2>3, <2>5, <3>3 DEF CallsFit, CallFits
    <3> QED
      BY <1>4, <3>1, <3>2, <3>3
  <2>7. OnePost'
    BY <1>1, <1>7, <2>5 DEF OnePost
  <2>8. NoneForgotten'
    BY <1>1, <2>2, <2>5 DEF NoneForgotten
  <2> QED
    BY <1>1, <1>5, <2>2, <2>4, <2>5, <2>6, <2>7, <2>8
    DEF SkipInv, SkipTyped, CallsFit, SkipSound, SkipMeetsItsPlate, NeverEmptied, StopLeavesNothing
<1> QED
  BY <1>8, <1>9

LEMMA JudgesFit ==
    ASSUME SkipInv, NEW c \in Clients, Judges(c)
    PROVE  SkipInv'
<1>1. /\ SkipTyped /\ call[c] \in CallRec /\ CallsFit /\ OnePost /\ NoneForgotten
      /\ SaidFits(machine, said) /\ LogFits(machine, said, runLog) /\ call[c].at = "judged" /\ call[c].kind = "post"
      /\ Plain(chance') /\ UNCHANGED <<machine, card, said, runLog, sheet, orders>> /\ sheet' \in [Clients -> SheetRec]
  BY DEF SkipInv, SkipTyped, Judges, CallsFit, CallFits
<1>2. CASE Step(c, Idle)
  BY <1>1, <1>2, RestFits, CallSteps
<1>3. CASE ~ Step(c, Idle)
  <2> DEFINE x == [call[c] EXCEPT !.at = "sending"]
  <2>1. /\ said.on /\ said.gs \in SKIP_STATES /\ Agrees(c) /\ said.layers = LayersOf[call[c].of]
        /\ call[c].stop = Stops(c) /\ Step(c, x)
    BY <1>3 DEF Judges
  <2>2. /\ x \in CallRec /\ x.at = "sending" /\ x.kind = "post" /\ x.run_id = call[c].run_id /\ x.of = call[c].of
        /\ x.stop = call[c].stop /\ x.ids = call[c].ids
    BY <1>1 DEF CallRec
  <2> HIDE DEF x
  <2>3. call[c].run_id = runLog.run_id /\ call[c].of \in Contents /\ said.fresh
        /\ (Going(machine, said) => Like(machine, call[c].of))
    BY <1>1, <2>1 DEF Agrees, CallsFit, CallFits
  <2>4. ASSUME machine.gs \in SKIP_STATES
        PROVE  said.run = machine.run /\ call[c].of = machine.of /\ (call[c].stop <=> Objects \subseteq (machine.gone \cup call[c].ids))
    <3>1. Going(machine, said) /\ said.run = machine.run
      BY <1>1, <2>1, <2>3, <2>4 DEF SaidFits, Going
    <3>2. call[c].of = machine.of
      BY <1>1, <2>1, <2>3, <3>1 DEF SaidFits, Like
    <3>3. machine.gone \subseteq Counted /\ Counted \subseteq machine.gone
      <4>1. \A d \in Clients : call[d].at # "sent"
        BY <1>1 DEF OnePost, CallsFit, CallFits
      <4> QED
        BY <1>1, <3>1, <4>1 DEF SaidFits, LogFits, NoneForgotten, Counted, Skipped
    <3>4. machine.gone = Counted
      BY <3>3
    <3>5. call[c].stop <=> Stops(c)
      BY <2>1
    <3> QED
      BY <3>1, <3>2, <3>4, <3>5 DEF Stops
  <2>5. CallFits(machine, said, runLog, x)
    BY <1>1, <2>2, <2>3, <2>4 DEF CallsFit, CallFits
  <2> QED
    BY <1>1, <2>1, <2>2, <2>5, CallSteps
<1> QED
  BY <1>2, <1>3

LEMMA PublishesFit ==
    ASSUME SkipInv, NEW c \in Clients, Publishes(c)
    PROVE  SkipInv'
<1>1. /\ SkipTyped /\ call[c] \in CallRec /\ CallsFit /\ OnePost /\ NoneForgotten /\ machine \in MachineRec /\ SkipSound
      /\ SaidFits(machine, said) /\ LogFits(machine, said, runLog) /\ CardFits(machine, said, runLog, card)
      /\ call[c].at = "sending" /\ call[c].kind = "post" /\ CallFits(machine, said, runLog, call[c])
      /\ Plain(chance') /\ UNCHANGED <<card, said, runLog, sheet>> /\ sheet' \in [Clients -> SheetRec]
  BY DEF SkipInv, SkipTyped, Publishes, CallsFit, CallFits, Rests
<1>2. CASE ~ said.on
  BY <1>1, <1>2, RestFits, CallSteps DEF Publishes, Rests
<1>3. CASE said.on
  <2> DEFINE x == [call[c] EXCEPT !.at = "sent"]
  <2>1. /\ Step(c, x) /\ orders' = orders \cup {Command(c)}
        /\ machine' = IF machine.gs \notin SKIP_STATES THEN machine
                      ELSE IF call[c].stop THEN [machine EXCEPT !.gs = "FINISH"]
                      ELSE [machine EXCEPT !.gone = @ \cup call[c].ids]
    BY <1>3 DEF Publishes
  <2>2. /\ x \in CallRec /\ x.at = "sent" /\ x.kind = "post" /\ x.run_id = call[c].run_id /\ x.of = call[c].of
        /\ x.stop = call[c].stop /\ x.ids = call[c].ids
    BY <1>1 DEF CallRec
  <2> HIDE DEF x
  <2>3. call' \in [Clients -> CallRec] /\ call'[c] = x /\ \A d \in Clients : d # c => call'[d] = call[d]
    BY <1>1, <2>1, <2>2, OtherCalls
  <2>4. \A d \in Clients : d # c => call[d].at \notin {"sending", "sent"}
    BY <1>1 DEF OnePost, CallsFit, CallFits
  <2>5. SkipSound'
    <3> DEFINE s == Command(c)
    <3>1. s.of = call[c].of /\ s.met = machine.of /\ s.ids = call[c].ids /\ s.stop = call[c].stop
          /\ s.left = Objects \ machine.gone /\ (s.running => machine.gs \in SKIP_STATES)
      BY DEF Command
    <3>2. s.running => /\ s.of = s.met /\ (s.stop <=> s.left \subseteq s.ids)
      BY <1>1, <3>1 DEF CallFits, CallRec
    <3> HIDE DEF s
    <3> QED
      BY <1>1, <2>1, <3>2 DEF SkipSound, SkipMeetsItsPlate, NeverEmptied, StopLeavesNothing, s
  <2>6. /\ machine' \in MachineRec /\ machine'.run = machine.run /\ machine'.of = machine.of /\ machine.gone \subseteq machine'.gone
        /\ (machine'.gs \in SKIP_STATES => machine.gs \in SKIP_STATES /\ ~ call[c].stop /\ machine'.gone = machine.gone \cup call[c].ids)
    BY <1>1, <2>1 DEF MachineRec, States, CallRec, SKIP_STATES
  <2>7. Going(machine', said) => Going(machine, said)
    BY <2>6 DEF Going
  <2>8. ASSUME NEW f PROVE Like(machine, f) => Like(machine', f)
    BY <2>6 DEF Like
  <2>9. SaidFits(machine', said) /\ LogFits(machine', said, runLog) /\ CardFits(machine', said, runLog, card)
    BY <1>1, <2>6, <2>7, <2>8 DEF SaidFits, LogFits, CardFits
  <2>10. ASSUME NEW d \in Clients PROVE CallFits(machine', said, runLog, call'[d])
    <3>1. CASE d = c
      BY <1>1, <2>2, <2>3, <2>6, <3>1 DEF CallFits
    <3>2. CASE d # c
      BY <1>1, <2>3, <2>4, <2>7, <2>8, <3>2 DEF CallsFit, CallFits
    <3> QED
      BY <3>1, <3>2
  <2>11. OnePost'
    BY <1>1, <2>2, <2>3 DEF OnePost
  <2>12. NoneForgotten'
    BY <1>1, <2>2, <2>3, <2>4, <2>6, <2>7 DEF NoneForgotten, Going
  <2> QED
    BY <1>1, <2>3, <2>5, <2>6, <2>9, <2>10, <2>11, <2>12 DEF SkipInv, SkipTyped, CallsFit
<1> QED
  BY <1>2, <1>3

LEMMA RemembersFit ==
    ASSUME SkipInv, NEW c \in Clients, Remembers(c)
    PROVE  SkipInv'
<1>1. /\ SkipTyped /\ call[c] \in CallRec /\ runLog \in LogRec /\ CallsFit /\ OnePost /\ NoneForgotten
      /\ SaidFits(machine, said) /\ LogFits(machine, said, runLog) /\ CardFits(machine, said, runLog, card)
      /\ call[c].at = "sent" /\ CallFits(machine, said, runLog, call[c]) /\ Step(c, Idle)
      /\ Plain(chance') /\ UNCHANGED <<machine, card, said, sheet, orders, chance>>
  BY DEF SkipInv, SkipTyped, Remembers, CallsFit
<1> DEFINE more == IF call[c].stop THEN {} ELSE call[c].ids
<1>2. /\ runLog' \in LogRec /\ runLog'.run_id = runLog.run_id /\ runLog'.pinned = runLog.pinned
      /\ runLog'.skips = runLog.skips \cup more
  BY <1>1 DEF Remembers, LogRec, CallRec
<1>3. Going(machine, said) => more = call[c].ids /\ more \subseteq machine.gone
  BY <1>1 DEF CallFits, Going
<1> HIDE DEF more
<1>4. call' \in [Clients -> CallRec] /\ call'[c] = Idle /\ \A d \in Clients : d # c => call'[d] = call[d]
  BY <1>1, RestFits, OtherCalls
<1>5. LogFits(machine, said, runLog') /\ CardFits(machine, said, runLog', card)
  BY <1>1, <1>2, <1>3 DEF LogFits, CardFits
<1>6. ASSUME NEW d \in Clients PROVE CallFits(machine, said, runLog', call'[d])
  <2>1. CASE d = c
    BY <1>4, <2>1 DEF CallFits, Idle
  <2>2. CASE d # c
    BY <1>1, <1>2, <1>4, <2>2 DEF CallsFit, CallFits
  <2> QED
    BY <2>1, <2>2
<1>7. OnePost'
  BY <1>1, <1>4, RestFits DEF OnePost
<1>8. NoneForgotten'
  BY <1>1, <1>2, <1>3, <1>4 DEF NoneForgotten
<1> QED
  BY <1>1, <1>2, <1>4, <1>5, <1>6, <1>7, <1>8
  DEF SkipInv, SkipTyped, CallsFit, SkipSound, SkipMeetsItsPlate, NeverEmptied, StopLeavesNothing

(***************************************************************************)
(* The specification.                                                       *)
(***************************************************************************)
LEMMA SkipStays ==
    ASSUME SkipConstants, SkipInv, [SkipNext]_skipVars
    PROVE  SkipInv'
<1>1. CASE UNCHANGED skipVars
  BY <1>1 DEF skipVars, SkipInv, SkipTyped, CallsFit, OnePost, NoneForgotten, SkipSound, SkipMeetsItsPlate, NeverEmptied,
     StopLeavesNothing
<1>2. CASE StartsRun \/ Finishes \/ Pauses
  BY <1>2, StartsRunFits, MachineSteps
<1>3. CASE Reports \/ LinkDrops \/ Reconnects
  BY <1>3, ReportsFit, LinkSteps
<1>4. ~ Expires
  BY DEF Expires, May, SkipInv, Plain
<1>5. CASE \E c \in Contents : Replaces(c)
  BY <1>5, ReplacesFit
<1>6. CASE \E c \in Clients : Asks(c) \/ Reads(c) \/ Pins(c) \/ Posts(c) \/ Judges(c) \/ Publishes(c) \/ Remembers(c)
  BY <1>6, AsksFit, PinsFit, PostsFit, JudgesFit, PublishesFit, RemembersFit
<1> QED
  BY <1>1, <1>2, <1>3, <1>4, <1>5, <1>6 DEF SkipNext

\* A skip meets the plate it was picked from, none empties a plate, and a stop is sent only when
\* nothing would be left, however many clients, objects, prints, reconnects and replaced files
\* there are: for worlds without the four chances of Plain, each of which breaks it.
THEOREM SkipsMeetTheirPlate ==
    ASSUME SkipConstants, AllPlain
    PROVE  SkipSpec => []SkipSound
<1>1. SkipInit => SkipInv
  BY SkipStarts
<1>2. SkipInv /\ [SkipNext]_skipVars => SkipInv'
  BY SkipStays
<1>3. SkipInv => SkipSound
  BY DEF SkipInv
<1> QED
  BY <1>1, <1>2, <1>3, PTL DEF SkipSpec
=============================================================================
