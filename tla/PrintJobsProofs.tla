-------------------------- MODULE PrintJobsProofs --------------------------
(***************************************************************************)
(* What the table of print jobs keeps, for any number of rows, prints at    *)
(* the panel and faults: its types, with the row of a run that has not      *)
(* ended; the end of every row that has one; and that a row tells of its own *)
(* print, in a world of the bridge's jobs and in one of prints at the panel. *)
(***************************************************************************)
EXTENDS PrintJobs, WellFoundedInduction, SequenceTheorems, FiniteSetTheorems, TLAPS

\* Induction over the natural numbers, as the least member of a set.
LEMMA LeastNatural ==
    ASSUME NEW T \in SUBSET Nat, T # {}
    PROVE  \E m \in T : \A y \in T : m <= y
<1> DEFINE Less == {ss \in Nat \X Nat : ss[1] < ss[2]}
<1>1. OpToRel(<, Nat) = Less
  BY Zenon DEF OpToRel
<1>2. IsWellFoundedOn(Less, Nat)
  BY <1>1, NatLessThanWellFounded, Zenon
<1>3. PICK m \in T : \A y \in T : <<y, m>> \notin Less
  <2> HIDE DEF Less
  <2> QED
    BY <1>2, WFMin, Zenon
<1>4. \A y \in T : m <= y
  <2> TAKE y \in T
  <2>1. ~ (y < m)
    BY <1>3
  <2> QED
    BY <2>1
<1> QED
  BY <1>4

\* A bounded set of numbers has a greatest member: the row the watcher writes next.
LEMMA MaxIsIn ==
    ASSUME NEW n \in Nat, NEW S \in SUBSET (1 .. n), S # {}
    PROVE  Max(S) \in S /\ \A x \in S : Max(S) >= x
<1> DEFINE T == {k \in Nat : n - k \in S}
<1>1. PICK x \in S : TRUE
  OBVIOUS
<1>2. n - x \in T
  BY <1>1
<1>3. PICK m \in T : \A y \in T : m <= y
  BY <1>2, LeastNatural
<1>4. n - m \in S /\ \A y \in S : n - m >= y
  <2>1. ASSUME NEW y \in S PROVE n - m >= y
    <3>1. n - y \in T
      OBVIOUS
    <3> QED
      BY <1>3, <3>1
  <2> QED
    BY <1>3, <2>1
<1> QED
  BY <1>4 DEF Max

(***************************************************************************)
(* The invariant.  The watcher holds a listing over its writes; what it     *)
(* still has to look at is about rows of the table, and never about the row *)
(* of a run whose task has not started.                                     *)
(***************************************************************************)
RunPc == {"create", "guard", "upload", "send", "track", "read", "wait"}
RunRec == [job : 1 .. MaxRows, pc : RunPc, cancel : BOOLEAN,
           stop : {"none", "watchdog", "user_cancel"}, sent : BOOLEAN, ran : BOOLEAN,
           overdue : BOOLEAN, wake : BOOLEAN, beforeFailed : BOOLEAN]
EventRec == {Delta} \cup [kind : {"print_started"}, name : Prints \cup {Unnamed}, print : Prints]
Wire == [kind : {"start", "stop"}, job : 1 .. MaxRows]

WorldTyped == world \in [rows : 0 .. MaxRows, jobs : 0 .. MaxRows, panel : 0 .. MaxPanel,
                         faults : Nat, events : SUBSET WorldMenu]
TableTyped == rows \in Seq(Row) /\ Len(rows) <= world.rows
RunTyped == /\ run \in Seq(RunRec) /\ Len(run) <= 1
            /\ run # <<>> => /\ R.job \in Ids /\ ~ rows[R.job].external
                             /\ rows[R.job].state \notin Terminal
                             /\ R.pc = "create" => rows[R.job].state = "QUEUED"
WatchTyped == /\ watch \in [pc : {"idle", "list", "close", "look", "create"}, queue : Seq(EventRec),
                            seen : {watch.seen}, view : {watch.view}, todo : SUBSET (Ids \X Live),
                            event : EventRec]
              /\ watch.pc \in {"look", "create"} => watch.event # Delta
              /\ \A e \in watch.todo : run # <<>> /\ R.job = e[1] => R.pc # "create"
ViewTyped == view \in [gs : GcodeState \cup {"UNKNOWN"}, fresh : BOOLEAN,
                       name : Prints \cup {None, Unnamed}, fed : BOOLEAN]
PrinterTyped == /\ printer \in [gs : GcodeState, name : Prints \cup {None}, fed : BOOLEAN,
                                print : Prints \cup {None}, next : Prints \cup {None}, panels : Nat]
                /\ printer.gs \in Active => printer.print \in Prints
                /\ wire \in Seq(Wire)
JobsTyped == /\ WorldTyped /\ TableTyped /\ RunTyped /\ WatchTyped /\ ViewTyped /\ PrinterTyped
             /\ orphanCancels \subseteq Ids

LEMMA InitJobs == JobsInit => JobsTyped
<1> SUFFICES ASSUME JobsInit PROVE JobsTyped
  OBVIOUS
<1>1. WorldTyped
  BY JobsAssumption DEF JobsInit, WorldTyped
<1>2. <<>> \in Seq(Row) /\ <<>> \in Seq(RunRec) /\ <<>> \in Seq(EventRec) /\ <<>> \in Seq(Wire)
      /\ Len(<<>>) = 0
  BY EmptySeq
<1>3. TableTyped /\ RunTyped
  BY <1>1, <1>2 DEF JobsInit, TableTyped, RunTyped, WorldTyped
<1>4. WatchTyped
  BY <1>2 DEF JobsInit, WatchTyped, Idle, EventRec
<1>5. ViewTyped /\ PrinterTyped
  BY <1>2 DEF JobsInit, ViewTyped, Unseen, PrinterTyped, GcodeState, Active, None, Unnamed
<1> QED
  BY <1>1, <1>3, <1>4, <1>5 DEF JobsTyped, JobsInit

LEMMA RowsAt ==
    ASSUME JobsTyped, NEW j \in Ids
    PROVE  /\ rows[j] \in Row /\ rows[j].state \in JobState /\ j \in 1 .. MaxRows /\ j \in Nat
           /\ DOMAIN rows = 1 .. Len(rows) /\ Len(rows) \in Nat
<1>1. rows \in Seq(Row) /\ Len(rows) <= MaxRows /\ MaxRows \in Nat
  BY JobsAssumption, LenProperties DEF JobsTyped, TableTyped, WorldTyped
<1>2. DOMAIN rows = 1 .. Len(rows) /\ Len(rows) \in Nat /\ j \in 1 .. Len(rows)
  BY <1>1, LenProperties DEF Ids
<1>3. rows[j] \in Row
  BY <1>1, <1>2, ElementOfSeq
<1> QED
  BY <1>1, <1>2, <1>3 DEF Row

LEMMA OneElement ==
    ASSUME NEW S, NEW s \in Seq(S), s # <<>>, Len(s) <= 1
    PROVE  Len(s) = 1
<1>1. Len(s) \in Nat \ {0}
  BY EmptySeq
<1> QED
  BY <1>1

LEMMA RunAt ==
    ASSUME JobsTyped, run # <<>>
    PROVE  R \in RunRec /\ R.job \in Ids /\ Len(run) = 1 /\ run = <<R>>
<1>1. run \in Seq(RunRec) /\ Len(run) = 1
  BY OneElement, Zenon DEF JobsTyped, RunTyped
<1>2. R \in RunRec
  BY <1>1, ElementOfSeq DEF R
<1> QED
  BY <1>1, <1>2, SeqEqual DEF JobsTyped, RunTyped, R

\* One row is written, one run moves on.
LEMMA RowSet ==
    ASSUME JobsTyped, NEW j \in Ids, NEW new \in Row
    PROVE  /\ [rows EXCEPT ![j] = new] \in Seq(Row)
           /\ Len([rows EXCEPT ![j] = new]) = Len(rows)
           /\ DOMAIN [rows EXCEPT ![j] = new] = Ids
<1>1. rows \in Seq(Row) /\ j \in 1 .. Len(rows)
  BY RowsAt DEF JobsTyped, TableTyped, Ids
<1> QED
  BY <1>1, ExceptSeq DEF Ids

LEMMA RunSet ==
    ASSUME JobsTyped, run # <<>>, NEW r \in RunRec
    PROVE  /\ [run EXCEPT ![1] = r] \in Seq(RunRec) /\ Len([run EXCEPT ![1] = r]) = 1
           /\ [run EXCEPT ![1] = r][1] = r /\ [run EXCEPT ![1] = r] # <<>>
BY RunAt, ExceptSeq, EmptySeq DEF JobsTyped, RunTyped

\* JobRun._set.
LEMMA SetTyped ==
    ASSUME JobsTyped, run # <<>>, NEW new \in JobState
    PROVE  /\ Set(new) \in Seq(Row) /\ Len(Set(new)) = Len(rows) /\ DOMAIN Set(new) = Ids
           /\ \A j \in Ids : Set(new)[j].external = rows[j].external
           /\ \A j \in Ids : rows[j].state \in Terminal => Set(new)[j].state = rows[j].state
           /\ \A j \in Ids : j # R.job => Set(new)[j] = rows[j]
           /\ Set(new)[R.job].state \in {rows[R.job].state, new}
<1>1. R.job \in Ids /\ rows[R.job] \in Row /\ rows[R.job].state \in JobState /\ DOMAIN rows = 1 .. Len(rows)
  BY RunAt, RowsAt
<1>2. rows \in Seq(Row)
  BY DEF JobsTyped, TableTyped
<1>3. CASE Set(new) = rows
  BY <1>1, <1>2, <1>3 DEF Ids
<1>4. CASE Set(new) # rows
  <2> DEFINE row == [rows[R.job] EXCEPT !.state = new]
  <2>1. Set(new) = [rows EXCEPT ![R.job] = row] /\ new \in Allowed[rows[R.job].state]
    BY <1>4 DEF Set
  <2>2. row \in Row /\ row.external = rows[R.job].external /\ row.state = new
    BY <1>1 DEF Row
  <2>3. rows[R.job].state \notin Terminal
    BY <1>1, <2>1 DEF Allowed, Terminal, JobState
  <2> HIDE DEF row
  <2> QED
    BY <1>1, <2>1, <2>2, <2>3, RowSet
<1> QED
  BY <1>3, <1>4

LEMMA RunFrame ==
    ASSUME JobsTyped, run # <<>>, UNCHANGED <<orphanCancels, watch, view, world>>, PrinterTyped',
           rows' \in Seq(Row), Len(rows') = Len(rows), DOMAIN rows' = Ids,
           rows'[R.job].external = rows[R.job].external,
           \/ run' = <<>>
           \/ \E r \in RunRec : /\ run' = [run EXCEPT ![1] = r] /\ r.job = R.job
                                /\ rows'[R.job].state \notin Terminal
                                /\ r.pc = "create" => R.pc = "create" /\ rows' = rows
    PROVE  JobsTyped'
<1>1. TableTyped' /\ ViewTyped' /\ WorldTyped' /\ orphanCancels' \subseteq Ids'
  BY DEF JobsTyped, TableTyped, ViewTyped, WorldTyped, Ids
<1>2. CASE run' = <<>>
  BY <1>1, <1>2, EmptySeq DEF JobsTyped, RunTyped, WatchTyped, Ids
<1>3. ASSUME NEW r \in RunRec, run' = [run EXCEPT ![1] = r], r.job = R.job,
             rows'[R.job].state \notin Terminal, r.pc = "create" => R.pc = "create" /\ rows' = rows
      PROVE  RunTyped' /\ WatchTyped'
  <2>1. run' \in Seq(RunRec) /\ Len(run') = 1 /\ run'[1] = r /\ run' # <<>>
    BY <1>3, RunSet
  <2>2. R' = r
    BY <2>1 DEF R
  <2> QED
    BY <1>3, <2>1, <2>2, RunAt DEF JobsTyped, RunTyped, WatchTyped, Ids
<1> QED
  BY <1>1, <1>2, <1>3 DEF JobsTyped

LEMMA RunOver ==
    ASSUME JobsTyped, run # <<>>, UNCHANGED <<orphanCancels, watch, view, printer, wire, world>>,
           NEW new \in JobState, EndRun(new)
    PROVE  JobsTyped'
<1>1. PrinterTyped'
  BY DEF JobsTyped, PrinterTyped
<1> QED
  BY <1>1, SetTyped, RunAt, RunFrame DEF EndRun

LEMMA RunMoves ==
    ASSUME JobsTyped, run # <<>>, UNCHANGED <<orphanCancels, watch, view, world>>, PrinterTyped',
           NEW r \in RunRec, run' = [run EXCEPT ![1] = r], r.job = R.job,
           \/ rows' = rows
           \/ \E new \in JobState \ Terminal : rows' = Set(new),
           r.pc = "create" => R.pc = "create" /\ rows' = rows
    PROVE  JobsTyped'
<1>1. CASE rows' = rows
  BY <1>1, RunFrame DEF JobsTyped, TableTyped, RunTyped, Ids
<1>2. ASSUME NEW new \in JobState \ Terminal, rows' = Set(new) PROVE JobsTyped'
  <2>1. rows[R.job].state \notin Terminal
    BY DEF JobsTyped, RunTyped
  <2> QED
    BY <1>2, <2>1, SetTyped, RunAt, RunFrame
<1> QED
  BY <1>1, <1>2

LEMMA Sent ==
    ASSUME JobsTyped, run # <<>>, NEW kind \in {"start", "stop"}
    PROVE  Append(wire, Command(kind, R.job)) \in Seq(Wire)
<1>1. Command(kind, R.job) \in Wire
  BY RunAt, RowsAt DEF Command, Wire
<1> QED
  BY <1>1, AppendProperties DEF JobsTyped, PrinterTyped

LEMMA TakingTyped ==
    ASSUME JobsTyped, RunStarts \/ RunRefused \/ RunBegins \/ UploadFails \/ UploadEnds
    PROVE  JobsTyped'
<1>1. run # <<>> /\ UNCHANGED <<orphanCancels, watch, view, printer, wire, world>>
  BY DEF RunStarts, RunRefused, RunBegins, UploadFails, UploadEnds, At
<1>2. PrinterTyped'
  BY <1>1 DEF JobsTyped, PrinterTyped
<1>3. ASSUME NEW new \in JobState, EndRun(new) PROVE JobsTyped'
  BY <1>1, <1>3, RunOver
<1>4. ASSUME NEW pc \in RunPc \ {"create"}, Goto(pc),
             rows' = rows \/ \E new \in JobState \ Terminal : rows' = Set(new)
      PROVE  JobsTyped'
  <2>1. [R EXCEPT !.pc = pc] \in RunRec /\ [R EXCEPT !.pc = pc].job = R.job
        /\ [R EXCEPT !.pc = pc].pc # "create"
    BY <1>1, <1>4, RunAt DEF RunRec
  <2>2. run' = [run EXCEPT ![1] = [R EXCEPT !.pc = pc]]
    BY <1>4 DEF Goto, R
  <2> QED
    BY <1>1, <1>2, <1>4, <2>1, <2>2, RunMoves
<1>5. {"UPLOADING", "SUBMITTED"} \subseteq JobState \ Terminal /\ {"FAILED", "CANCELED"} \subseteq JobState
      /\ {"guard", "upload", "send"} \subseteq RunPc \ {"create"}
  BY DEF JobState, Live, Terminal, RunPc
<1> QED
  BY <1>3, <1>4, <1>5 DEF RunStarts, RunRefused, RunBegins, UploadFails, UploadEnds

LEMMA SendTyped ==
    ASSUME JobsTyped, SendStart \/ StartNotSent
    PROVE  JobsTyped'
<1>1. run # <<>> /\ UNCHANGED <<orphanCancels, watch, view, printer, world>>
  BY DEF SendStart, StartNotSent, At
<1>2. CASE StartNotSent
  <2>1. "FAILED" \in JobState /\ UNCHANGED wire /\ EndRun("FAILED")
    BY <1>2 DEF StartNotSent, JobState, Terminal
  <2> QED
    BY <1>1, <2>1, RunOver
<1>3. CASE SendStart
  <2> DEFINE r == [R EXCEPT !.pc = "track", !.beforeFailed = (Gs(view) = "FAILED")]
  <2>1. r \in RunRec /\ r.job = R.job /\ r.pc # "create"
    BY <1>1, RunAt DEF RunRec, RunPc
  <2>2. run' = [run EXCEPT ![1] = r] /\ UNCHANGED rows
    BY <1>3 DEF SendStart, R
  <2>3. PrinterTyped'
    BY <1>1, <1>3, Sent DEF SendStart, JobsTyped, PrinterTyped
  <2> HIDE DEF r
  <2> QED
    BY <1>1, <2>1, <2>2, <2>3, RunMoves
<1> QED
  BY <1>2, <1>3

LEMMA TrackTyped ==
    ASSUME JobsTyped, TrackNoStop \/ TrackStop \/ TrackStopForgotten \/ TrackStopFails
    PROVE  JobsTyped'
<1>1. run # <<>> /\ UNCHANGED <<rows, orphanCancels, watch, view, printer, world>>
  BY DEF TrackNoStop, TrackStop, TrackStopForgotten, TrackStopFails, At
<1>2. PrinterTyped'
  <2>1. CASE UNCHANGED wire
    BY <1>1, <2>1 DEF JobsTyped, PrinterTyped
  <2>2. CASE TrackStop
    BY <1>1, <2>2, Sent DEF TrackStop, JobsTyped, PrinterTyped
  <2> QED
    BY <2>1, <2>2 DEF TrackNoStop, TrackStopForgotten, TrackStopFails
<1> DEFINE quiet == [R EXCEPT !.pc = "read", !.wake = FALSE]
           told == [R EXCEPT !.pc = "read", !.wake = FALSE, !.sent = TRUE]
<1>3. {quiet, told} \subseteq RunRec /\ quiet.job = R.job /\ told.job = R.job
      /\ quiet.pc = "read" /\ told.pc = "read"
  BY <1>1, RunAt, ZenonT(40) DEF RunRec, RunPc
<1>4. \/ run' = [run EXCEPT ![1] = quiet]
      \/ run' = [run EXCEPT ![1] = told]
  BY DEF TrackNoStop, TrackStop, TrackStopForgotten, TrackStopFails, R
<1> HIDE DEF quiet, told
<1> QED
  BY <1>1, <1>2, <1>3, <1>4, RunMoves

LEMMA ReadTyped ==
    ASSUME JobsTyped, TrackRead
    PROVE  JobsTyped'
<1>1. run # <<>> /\ R.pc = "read" /\ UNCHANGED <<orphanCancels, watch, view, printer, wire, world>>
  BY DEF TrackRead, At
<1>2. PrinterTyped' /\ rows[R.job].state \notin Terminal
  BY <1>1 DEF JobsTyped, PrinterTyped, RunTyped
<1>3. ASSUME NEW new \in JobState, EndRun(new) PROVE JobsTyped'
  BY <1>1, <1>3, RunOver
<1>4. ASSUME NEW r \in RunRec, run' = [run EXCEPT ![1] = r], r.job = R.job, r.pc # "create",
             rows' = rows \/ \E new \in JobState \ Terminal : rows' = Set(new)
      PROVE  JobsTyped'
  BY <1>1, <1>2, <1>4, RunMoves
<1>5. CASE ReadSubmitted
  <2>1. ASSUME NEW pc \in {"track", "wait"}, Goto(pc),
               rows' = rows \/ rows' = Set("PREPARING")
        PROVE  JobsTyped'
    <3>1. [R EXCEPT !.pc = pc] \in RunRec /\ [R EXCEPT !.pc = pc].job = R.job
          /\ [R EXCEPT !.pc = pc].pc # "create"
      BY <1>1, RunAt DEF RunRec, RunPc
    <3>2. run' = [run EXCEPT ![1] = [R EXCEPT !.pc = pc]] /\ "PREPARING" \in JobState \ Terminal
      BY <2>1 DEF Goto, R, JobState, Live, Terminal
    <3> QED
      BY <1>4, <2>1, <3>1, <3>2
  <2>2. \/ EndRun("CANCELED") \/ EndRun("FAILED")
        \/ rows' = Set("PREPARING") /\ Goto("track")
        \/ rows' = rows /\ Goto("wait")
    BY <1>5 DEF ReadSubmitted
  <2>3. {"CANCELED", "FAILED"} \subseteq JobState
    BY DEF JobState, Terminal
  <2> QED
    BY <1>3, <2>1, <2>2, <2>3
<1>6. CASE EndRun(CloseAs)
  <2>1. CloseAs \in JobState
    BY DEF CloseAs, JobState, Terminal
  <2> QED
    BY <1>3, <1>6, <2>1
<1>7. CASE ReadOngoing
  <2>1. PICK ran \in BOOLEAN, starved \in BOOLEAN :
           run' = [run EXCEPT ![1].pc = "wait", ![1].ran = ran,
                              ![1].stop = IF starved THEN "watchdog" ELSE @,
                              ![1].wake = @ \/ starved]
    <3> DEFINE ran == R.ran \/ Gs(view) = "RUNNING"
               starved == /\ rows[R.job].state = "PREPARING" /\ ran /\ Gs(view) # "UNKNOWN"
                          /\ ~ view.fed /\ R.overdue /\ R.stop = "none"
    <3>1. ran \in BOOLEAN /\ starved \in BOOLEAN
      BY <1>1, RunAt DEF RunRec
    <3>2. run' = [run EXCEPT ![1].pc = "wait", ![1].ran = ran,
                              ![1].stop = IF starved THEN "watchdog" ELSE @,
                              ![1].wake = @ \/ starved]
      BY <1>7 DEF ReadOngoing
    <3> QED
      BY <3>1, <3>2
  <2> DEFINE r == [R EXCEPT !.pc = "wait", !.ran = ran, !.stop = IF starved THEN "watchdog" ELSE @,
                            !.wake = @ \/ starved]
  <2>2. r \in RunRec /\ r.job = R.job /\ r.pc # "create"
    BY <1>1, RunAt, ZenonT(40) DEF RunRec, RunPc
  <2>3. run' = [run EXCEPT ![1] = r]
    BY <2>1 DEF R
  <2>4. rows' = rows \/ rows' = Set("PRINTING")
    BY <1>7 DEF ReadOngoing
  <2>5. "PRINTING" \in JobState \ Terminal
    BY DEF JobState, Live, Terminal
  <2> HIDE DEF r
  <2> QED
    BY <1>4, <2>2, <2>3, <2>4, <2>5
<1> QED
  BY <1>5, <1>6, <1>7 DEF TrackRead

\* A wake, a deadline, a stop that is asked for: the rows stay.
LEMMA NoticeTyped ==
    ASSUME JobsTyped, \/ TrackWakes \/ FeedOverdue \/ Spaghetti
                      \/ \E j \in Ids : CancelRun(j)
    PROVE  JobsTyped'
<1>1. run # <<>> /\ UNCHANGED <<rows, orphanCancels, watch, view, printer, wire, world>>
  BY DEF TrackWakes, FeedOverdue, Spaghetti, CancelRun, InRuns, At
<1>2. PrinterTyped' /\ R \in RunRec
  BY <1>1, RunAt DEF JobsTyped, PrinterTyped
<1>3. ASSUME NEW r \in RunRec, run' = [run EXCEPT ![1] = r], r.job = R.job,
             r.pc = "create" => R.pc = "create"
      PROVE  JobsTyped'
  BY <1>1, <1>2, <1>3, RunMoves
<1>4. CASE TrackWakes
  <2>1. [R EXCEPT !.pc = "track"] \in RunRec /\ [R EXCEPT !.pc = "track"].job = R.job
        /\ [R EXCEPT !.pc = "track"].pc # "create"
    BY <1>2 DEF RunRec, RunPc
  <2>2. run' = [run EXCEPT ![1] = [R EXCEPT !.pc = "track"]]
    BY <1>4 DEF TrackWakes, Goto, R
  <2> QED
    BY <1>3, <2>1, <2>2
<1>5. CASE FeedOverdue
  <2>1. [R EXCEPT !.overdue = TRUE] \in RunRec /\ [R EXCEPT !.overdue = TRUE].job = R.job
        /\ [R EXCEPT !.overdue = TRUE].pc = R.pc
    BY <1>2 DEF RunRec
  <2>2. run' = [run EXCEPT ![1] = [R EXCEPT !.overdue = TRUE]]
    BY <1>5 DEF FeedOverdue, R
  <2> QED
    BY <1>3, <2>1, <2>2
<1>6. CASE Spaghetti
  <2> DEFINE r == [R EXCEPT !.stop = "watchdog", !.wake = TRUE]
  <2>1. r \in RunRec /\ r.job = R.job /\ r.pc = R.pc
    BY <1>2 DEF RunRec
  <2>2. run' = [run EXCEPT ![1] = r]
    BY <1>6 DEF Spaghetti, R
  <2> HIDE DEF r
  <2> QED
    BY <1>3, <2>1, <2>2
<1>7. ASSUME NEW j \in Ids, CancelRun(j) PROVE JobsTyped'
  <2> DEFINE r == [R EXCEPT !.cancel = TRUE, !.wake = @ \/ R.stop = "none",
                            !.stop = IF R.stop = "none" THEN "user_cancel" ELSE @]
  <2>1. r \in RunRec /\ r.job = R.job /\ r.pc = R.pc
    BY <1>2 DEF RunRec
  <2>2. run' = [run EXCEPT ![1] = r]
    BY <1>7 DEF CancelRun, R
  <2> HIDE DEF r
  <2> QED
    BY <1>3, <2>1, <2>2
<1> QED
  BY <1>4, <1>5, <1>6, <1>7

LEMMA RowsFrame ==
    ASSUME JobsTyped, UNCHANGED <<run, world, view, printer, wire>>,
           rows' \in Seq(Row), Len(rows') <= world.rows, Ids \subseteq Ids',
           \A j \in Ids : run # <<>> /\ R.job = j => /\ rows'[j].state = rows[j].state
                                                     /\ rows'[j].external = rows[j].external,
           orphanCancels' \subseteq Ids', WatchTyped'
    PROVE  JobsTyped'
<1>1. WorldTyped' /\ ViewTyped' /\ PrinterTyped' /\ TableTyped'
  BY DEF JobsTyped, WorldTyped, ViewTyped, PrinterTyped, TableTyped
<1>2. RunTyped'
  BY DEF JobsTyped, RunTyped, R
<1> QED
  BY <1>1, <1>2 DEF JobsTyped

LEMMA ElapseTyped ==
    ASSUME JobsTyped, NEW j \in Ids, Elapse(j) \/ CancelOrphan(j)
    PROVE  JobsTyped'
<1>1. CASE Elapse(j)
  <2> DEFINE row == [rows[j] EXCEPT !.late = TRUE]
  <2>1. rows' = [rows EXCEPT ![j] = row] /\ UNCHANGED <<run, orphanCancels, watch, view, printer, wire, world>>
    BY <1>1 DEF Elapse
  <2>2. row \in Row /\ row.state = rows[j].state /\ row.external = rows[j].external
    BY RowsAt DEF Row
  <2> HIDE DEF row
  <2>3. rows' \in Seq(Row) /\ Len(rows') = Len(rows) /\ Ids' = Ids
        /\ \A i \in Ids : rows'[i].state = rows[i].state /\ rows'[i].external = rows[i].external
    BY <2>1, <2>2, RowSet DEF Ids
  <2>4. WatchTyped'
    BY <2>1, <2>3 DEF JobsTyped, WatchTyped, R
  <2> QED
    BY <2>1, <2>3, <2>4, RowsFrame DEF JobsTyped, TableTyped
<1>2. CASE CancelOrphan(j)
  <2>1. Command("stop", j) \in Wire
    BY RowsAt DEF Command, Wire
  <2>2. wire' \in Seq(Wire) /\ UNCHANGED <<rows, run, watch, view, printer, world>>
        /\ orphanCancels' = orphanCancels \cup {j}
    BY <1>2, <2>1, AppendProperties DEF CancelOrphan, JobsTyped, PrinterTyped
  <2> QED
    BY <2>2 DEF JobsTyped, WorldTyped, ViewTyped, PrinterTyped, TableTyped, RunTyped, WatchTyped, R, Ids
<1> QED
  BY <1>1, <1>2

LEMMA SubmitTyped ==
    ASSUME JobsTyped, Submit
    PROVE  JobsTyped'
<1> DEFINE j == Len(rows) + 1
           row == NewRow("QUEUED", NameOf(j), FALSE, j)
<1>1. /\ run = <<>> /\ Len(rows) < world.rows /\ rows' = Append(rows, row) /\ run' = <<NewRun(j)>>
      /\ UNCHANGED <<orphanCancels, watch, view, printer, wire, world>>
  BY DEF Submit
<1>2. rows \in Seq(Row) /\ Len(rows) \in Nat /\ world.rows \in 0 .. MaxRows /\ Ids = 1 .. Len(rows)
  BY LenProperties DEF JobsTyped, TableTyped, WorldTyped, Ids
<1>3. j \in 1 .. MaxRows /\ j \notin Ids /\ j <= world.rows
  BY <1>1, <1>2, JobsAssumption
<1>4. row \in Row /\ row.state = "QUEUED" /\ row.external = FALSE
  BY <1>3, JobsAssumption DEF NewRow, NameOf, Row, Prints, JobState
<1> HIDE DEF row
<1>5. rows' \in Seq(Row) /\ Len(rows') = j /\ rows'[j] = row /\ Ids' = 1 .. j
  BY <1>1, <1>2, <1>4, AppendProperties, LenProperties DEF Ids
<1>6. NewRun(j) \in RunRec /\ NewRun(j).job = j
  BY <1>3 DEF NewRun, RunRec, RunPc
<1>7. TableTyped' /\ WorldTyped' /\ ViewTyped' /\ PrinterTyped' /\ orphanCancels' \subseteq Ids'
  BY <1>1, <1>2, <1>3, <1>5 DEF JobsTyped, WorldTyped, ViewTyped, PrinterTyped, TableTyped
<1>8. run' \in Seq(RunRec) /\ Len(run') = 1 /\ R' = NewRun(j)
  BY <1>1, <1>6 DEF R
<1>9. RunTyped'
  BY <1>2, <1>4, <1>5, <1>6, <1>8 DEF RunTyped, Terminal
<1>10. WatchTyped'
  <2>1. \A e \in watch.todo : e[1] \in Ids
    BY DEF JobsTyped, WatchTyped
  <2> QED
    BY <1>1, <1>2, <1>3, <1>5, <1>6, <1>8, <2>1 DEF JobsTyped, WatchTyped
<1> QED
  BY <1>7, <1>9, <1>10 DEF JobsTyped

-----------------------------------------------------------------------------
\* A row the watcher writes has no run.
LEMMA DueRow ==
    ASSUME JobsTyped, NEW todo \in SUBSET (Ids \X Live), Due(todo) # {},
           \A e \in todo : run # <<>> /\ R.job = e[1] => R.pc # "create"
    PROVE  LET j == Max({e[1] : e \in Due(todo)})
               listed == CHOOSE e \in todo : e[1] = j
           IN  /\ j \in Ids /\ ~ (run # <<>> /\ R.job = j)
               /\ listed \in todo /\ listed[1] = j /\ listed[2] \in Live
               /\ \A e \in todo : e[1] < j => e \in Ids \X Live
<1> DEFINE S == {e[1] : e \in Due(todo)}
<1>1. S \in SUBSET (1 .. Len(rows)) /\ S # {} /\ Len(rows) \in Nat
  BY LenProperties DEF JobsTyped, TableTyped, Due, Ids
<1>2. Max(S) \in S
  BY <1>1, MaxIsIn
<1> HIDE DEF S
<1>3. PICK d \in Due(todo) : d[1] = Max(S)
  BY <1>2 DEF S
<1>4. d \in todo /\ d \in Ids \X Live /\ ~ InRuns(d[1])
  BY <1>3 DEF Due
<1>5. ~ (run # <<>> /\ R.job = Max(S))
  BY <1>3, <1>4 DEF InRuns
<1> DEFINE listed == CHOOSE e \in todo : e[1] = Max(S)
<1>6. listed \in todo /\ listed[1] = Max(S)
  BY <1>3, <1>4
<1> HIDE DEF listed
<1>7. listed[2] \in Live /\ Max(S) \in Ids
  BY <1>3, <1>4, <1>6
<1> QED
  BY <1>5, <1>6, <1>7 DEF S, listed

LEMMA VerdictTyped ==
    ASSUME JobsTyped, NEW j, NEW s \in Live, NEW v
    PROVE  Verdict(j, s, v) \in JobState
BY DEF Verdict, JobState, Live, Terminal

LEMMA CloseTyped ==
    ASSUME JobsTyped, NEW todo \in SUBSET (Ids \X Live), CloseNext(todo),
           \A e \in todo : run # <<>> /\ R.job = e[1] => R.pc # "create",
           UNCHANGED <<run, view, printer, wire, world>>
    PROVE  JobsTyped'
<1> DEFINE WatchGoes == \E pc \in {"close", "look", "idle"}, rest \in SUBSET todo :
                          /\ watch' = [watch EXCEPT !.pc = pc, !.todo = rest]
                          /\ pc = "look" => watch.event # Delta
<1>0. ASSUME WatchGoes, Ids' = Ids PROVE WatchTyped'
  <2>1. PICK pc \in {"close", "look", "idle"}, rest \in SUBSET todo :
                          /\ watch' = [watch EXCEPT !.pc = pc, !.todo = rest]
                          /\ pc = "look" => watch.event # Delta
    BY <1>0
  <2> QED
    BY <1>0, <2>1 DEF JobsTyped, WatchTyped, R
<1>1. CASE Due(todo) = {}
  <2>1. watch' = [watch EXCEPT !.pc = AfterClose, !.todo = {}] /\ UNCHANGED <<rows, orphanCancels>>
    BY <1>1 DEF CloseNext
  <2>2. AfterClose \in {"look", "idle"} /\ (AfterClose = "look" => watch.event # Delta)
    BY DEF AfterClose, Delta
  <2> DEFINE pc == AfterClose
  <2>3. WatchTyped'
    <3>1. pc \in {"close", "look", "idle"} /\ {} \in SUBSET todo
      BY <2>2
    <3>2. watch' = [watch EXCEPT !.pc = pc, !.todo = {}] /\ (pc = "look" => watch.event # Delta)
      BY <2>1, <2>2
    <3>3. Ids' = Ids
      BY <2>1 DEF Ids
    <3> HIDE DEF pc
    <3> QED
      BY <1>0, <3>1, <3>2, <3>3
  <2> QED
    BY <2>1, <2>3, RowsFrame DEF JobsTyped, TableTyped, Ids
<1>2. CASE Due(todo) # {}
  <2> DEFINE j == Max({e[1] : e \in Due(todo)})
             listed == CHOOSE e \in todo : e[1] = j
             new == Verdict(j, listed[2], watch.view)
             row == [rows[j] EXCEPT !.state = new]
  <2>1. /\ watch' = [watch EXCEPT !.pc = "close", !.todo = {e \in todo : e[1] < j}]
        /\ rows' = [rows EXCEPT ![j] = row]
        /\ orphanCancels' \in {orphanCancels, orphanCancels \ {j}}
    BY <1>2 DEF CloseNext
  <2>2. j \in Ids /\ ~ (run # <<>> /\ R.job = j) /\ listed[2] \in Live
    BY <1>2, DueRow
  <2> HIDE DEF j, listed
  <2>3. new \in JobState
    BY <2>2, VerdictTyped
  <2> HIDE DEF new
  <2>4. row \in Row
    BY <2>2, <2>3, RowsAt DEF Row
  <2> HIDE DEF row
  <2>5. rows' \in Seq(Row) /\ Len(rows') = Len(rows) /\ Ids' = Ids
        /\ \A i \in Ids : run # <<>> /\ R.job = i => rows'[i] = rows[i]
    BY <2>1, <2>2, <2>4, RowSet DEF Ids
  <2>6. WatchTyped'
    BY <1>0, <2>1, <2>5, ZenonT(40)
  <2> QED
    BY <2>1, <2>5, <2>6, RowsFrame DEF JobsTyped, TableTyped
<1> QED
  BY <1>1, <1>2

LEMMA WatcherTyped ==
    ASSUME JobsTyped, WatchSteps
    PROVE  JobsTyped'
<1>1. rows \in Seq(Row) /\ Len(rows) \in Nat /\ Ids = 1 .. Len(rows) /\ Len(rows) <= world.rows
  BY LenProperties DEF JobsTyped, TableTyped, Ids
<1>2. CASE WatchLists
  <2> DEFINE todo == {<<j, rows[j].state>> : j \in {i \in Ids : rows[i].state \in Live}}
  <2>1. todo \in SUBSET (Ids \X Live) /\ \A e \in todo : rows[e[1]].state \in Live
    OBVIOUS
  <2>2. \A e \in todo : run # <<>> /\ R.job = e[1] => R.pc # "create"
    BY <2>1 DEF JobsTyped, RunTyped, Live
  <2>3. CloseNext(todo) /\ UNCHANGED <<run, view, printer, wire, world>>
    BY <1>2 DEF WatchLists
  <2> HIDE DEF todo
  <2> QED
    BY <2>1, <2>2, <2>3, CloseTyped
<1>3. CASE WatchCloses
  BY <1>3, CloseTyped DEF WatchCloses, JobsTyped, WatchTyped
<1>4. CASE WatchTakes
  <2> DEFINE queue == Tail(watch.queue)
             event == Head(watch.queue)
             after == IF event.kind = "print_started" THEN "look" ELSE "idle"
  <2>1. watch.queue \in Seq(EventRec) /\ watch.queue # <<>>
    BY <1>4 DEF WatchTakes, JobsTyped, WatchTyped
  <2>2. event \in EventRec /\ queue \in Seq(EventRec)
    BY <2>1, HeadTailProperties
  <2>3. after \in {"look", "idle"} /\ (after = "look" => event # Delta)
    BY <2>2 DEF Delta
  <2>4. \/ watch' = [watch EXCEPT !.queue = queue, !.event = event, !.seen = Key(view), !.view = view,
                                  !.pc = "list"]
        \/ watch' = [watch EXCEPT !.queue = queue, !.event = event, !.pc = after]
    BY <1>4 DEF WatchTakes
  <2> HIDE DEF queue, event, after
  <2>5. UNCHANGED <<rows, run, orphanCancels, view, printer, wire, world>>
    BY <1>4 DEF WatchTakes
  <2>6. WatchTyped'
    BY <2>2, <2>3, <2>4, <2>5 DEF JobsTyped, WatchTyped, R, Ids
  <2> QED
    BY <1>1, <2>5, <2>6, RowsFrame DEF JobsTyped, Ids
<1>5. CASE WatchLooks
  <2>1. UNCHANGED <<rows, run, orphanCancels, view, printer, wire, world>> /\ watch.pc = "look"
        /\ (watch' = [watch EXCEPT !.pc = "idle"] \/ watch' = [watch EXCEPT !.pc = "create"])
    BY <1>5 DEF WatchLooks
  <2>2. WatchTyped'
    BY <2>1 DEF JobsTyped, WatchTyped, R, Ids
  <2> QED
    BY <1>1, <2>1, <2>2, RowsFrame DEF JobsTyped, Ids
<1>6. CASE WatchCreates
  <2> DEFINE row == NewRow("PRINTING", watch.event.name, TRUE, watch.event.print)
  <2>1. /\ watch.pc = "create" /\ watch' = [watch EXCEPT !.pc = "idle"]
        /\ UNCHANGED <<run, orphanCancels, view, printer, wire, world>>
        /\ rows' = IF Len(rows) = world.rows THEN rows ELSE Append(rows, row)
    BY <1>6 DEF WatchCreates
  <2>2. row \in Row
    BY <2>1 DEF JobsTyped, WatchTyped, EventRec, NewRow, Row, JobState, Live
  <2> HIDE DEF row
  <2>3. rows' \in Seq(Row) /\ Len(rows') <= world.rows /\ Ids \subseteq Ids'
        /\ \A j \in Ids : rows'[j] = rows[j]
    <3>1. CASE Len(rows) = world.rows
      BY <1>1, <2>1, <3>1 DEF Ids
    <3>2. CASE Len(rows) # world.rows
      <4>1. rows' = Append(rows, row)
        BY <2>1, <3>2
      <4>2. rows' \in Seq(Row) /\ Len(rows') = Len(rows) + 1 /\ \A j \in 1 .. Len(rows) : rows'[j] = rows[j]
        BY <1>1, <2>2, <4>1, AppendProperties
      <4>3. Ids' = 1 .. Len(rows) + 1
        BY <4>2, LenProperties DEF Ids
      <4>4. Len(rows) + 1 <= world.rows
        BY <1>1, <3>2 DEF JobsTyped, WorldTyped
      <4> QED
        BY <1>1, <4>2, <4>3, <4>4
    <3> QED
      BY <3>1, <3>2
  <2>4. WatchTyped' /\ orphanCancels' \subseteq Ids'
    BY <2>1, <2>3 DEF JobsTyped, WatchTyped, R
  <2> QED
    BY <2>1, <2>3, <2>4, RowsFrame
<1> QED
  BY <1>2, <1>3, <1>4, <1>5, <1>6 DEF WatchSteps

-----------------------------------------------------------------------------
\* Reports and reconnects publish to the watcher and wake the run.
LEMMA NewsTyped ==
    ASSUME JobsTyped, NEW events \in Seq(EventRec), events # <<>>,
           watch' = [watch EXCEPT !.queue = Published(events)], run' = Woken,
           UNCHANGED <<rows, orphanCancels, printer, wire>>, ViewTyped', WorldTyped',
           world'.rows = world.rows
    PROVE  JobsTyped'
<1>1. Published(events) \in Seq(EventRec)
  <2>1. watch.queue \in Seq(EventRec) /\ Tail(events) \in Seq(EventRec)
    BY HeadTailProperties DEF JobsTyped, WatchTyped
  <2> QED
    BY <2>1, ConcatProperties DEF Published
<1>2. TableTyped' /\ PrinterTyped' /\ orphanCancels' \subseteq Ids'
  BY DEF JobsTyped, TableTyped, PrinterTyped, Ids
<1>3. CASE run = <<>>
  <2>1. run' = run
    BY <1>3 DEF Woken
  <2> QED
    BY <1>1, <1>2, <1>3, <2>1 DEF JobsTyped, RunTyped, WatchTyped, Ids
<1>4. CASE run # <<>>
  <2> DEFINE r == [R EXCEPT !.wake = TRUE]
  <2>1. r \in RunRec /\ r.job = R.job /\ r.pc = R.pc
    BY <1>4, RunAt DEF RunRec
  <2>2. run' = [run EXCEPT ![1] = r]
    BY <1>4 DEF Woken, R
  <2> HIDE DEF r
  <2>3. run' \in Seq(RunRec) /\ Len(run') = 1 /\ R' = r
    BY <1>4, <2>1, <2>2, RunSet DEF R
  <2>4. RunTyped'
    BY <1>4, <2>1, <2>3 DEF JobsTyped, RunTyped, Ids
  <2>5. WatchTyped'
    <3>1. \A e \in watch.todo : run # <<>> /\ R.job = e[1] => R.pc # "create"
      BY DEF JobsTyped, WatchTyped
    <3>2. \A e \in watch'.todo : R'.job = e[1] => R'.pc # "create"
      BY <1>4, <2>1, <2>3, <3>1 DEF JobsTyped, WatchTyped
    <3> QED
      BY <1>1, <3>2 DEF JobsTyped, WatchTyped, Ids
  <2> QED
    BY <1>2, <2>4, <2>5 DEF JobsTyped
<1> QED
  BY <1>3, <1>4

LEMMA OneFault ==
    ASSUME WorldTyped, world.faults > 0, world' = [world EXCEPT !.faults = @ - 1]
    PROVE  WorldTyped' /\ world'.rows = world.rows
<1>1. world.faults - 1 \in Nat
  BY DEF WorldTyped
<1> QED
  BY <1>1 DEF WorldTyped

LEMMA ReportTyped ==
    ASSUME JobsTyped, Report \/ Reconnect
    PROVE  JobsTyped'
<1>1. <<Delta>> \in Seq(EventRec)
  BY DEF EventRec
<1>2. ASSUME NEW fields, Carry(fields), UNCHANGED <<rows, orphanCancels, printer, wire, world>>
      PROVE  JobsTyped'
  <2> DEFINE new == [gs    |-> IF "gs" \in fields THEN printer.gs ELSE view.gs,
                     fresh |-> view.fresh \/ "gs" \in fields,
                     name  |-> IF "name" \in fields THEN printer.name ELSE view.name,
                     fed   |-> IF "fed" \in fields THEN printer.fed ELSE view.fed]
             edge == new.gs = "RUNNING" /\ view.gs \in {"IDLE", "PREPARE", "FINISH", "FAILED"}
             events == <<Delta>> \o (IF edge THEN <<Started(new)>> ELSE <<>>)
  <2>1. view' = new /\ watch' = [watch EXCEPT !.queue = Published(events)] /\ run' = Woken
    BY <1>2 DEF Carry
  <2>2. ViewTyped'
    BY <2>1 DEF JobsTyped, ViewTyped, PrinterTyped
  <2>3. ASSUME edge PROVE Started(new) \in EventRec
    <3>1. new.gs = printer.gs /\ printer.print \in Prints
      BY <2>3 DEF JobsTyped, PrinterTyped, Active
    <3>2. new.name \in Prints \cup {None, Unnamed}
      BY DEF JobsTyped, ViewTyped, PrinterTyped
    <3> HIDE DEF new
    <3> QED
      BY <3>1, <3>2 DEF Started, Current, EventRec, None, Prints
  <2>4. events \in Seq(EventRec) /\ events # <<>>
    <3>1. CASE edge
      <4> HIDE DEF new
      <4>1. <<Started(new)>> \in Seq(EventRec)
        BY <2>3, <3>1
      <4> QED
        BY <1>1, <3>1, <4>1, ConcatProperties
    <3>2. CASE ~ edge
      <4> HIDE DEF edge
      <4>1. events = <<Delta>>
        BY <3>2, <1>1, ConcatEmptySeq
      <4> QED
        BY <1>1, <4>1
    <3> QED
      BY <3>1, <3>2
  <2> HIDE DEF events
  <2> QED
    BY <1>2, <2>1, <2>2, <2>4, NewsTyped DEF JobsTyped, WorldTyped
<1>3. CASE Report
  BY <1>2, <1>3 DEF Report
<1>4. CASE Reconnect
  <2>1. /\ watch' = [watch EXCEPT !.queue = Published(<<Delta>>)] /\ run' = Woken
        /\ UNCHANGED <<rows, orphanCancels, printer, wire>>
    BY <1>4 DEF Reconnect
  <2>2. ViewTyped'
    BY <1>4 DEF Reconnect, JobsTyped, ViewTyped
  <2>3. WorldTyped' /\ world'.rows = world.rows
    BY <1>4, OneFault DEF Reconnect, JobsTyped
  <2> QED
    BY <1>1, <2>1, <2>2, <2>3, NewsTyped
<1> QED
  BY <1>3, <1>4

-----------------------------------------------------------------------------
LEMMA RestartTyped ==
    ASSUME JobsTyped, BridgeRestart
    PROVE  JobsTyped'
<1>1. rows \in Seq(Row) /\ Len(rows) \in Nat /\ Ids = 1 .. Len(rows) /\ Len(rows) <= world.rows
  BY LenProperties DEF JobsTyped, TableTyped, Ids
<1>2. JobsRecovered \in [1 .. Len(rows) -> Row]
  <2>1. \A j \in Ids : rows[j] \in Row /\ [rows[j] EXCEPT !.state = "FAILED"] \in Row
    BY RowsAt DEF Row, JobState, Terminal
  <2> QED
    BY <1>1, <2>1 DEF JobsRecovered
<1>3. rows' = JobsRecovered /\ run' = <<>> /\ orphanCancels' = {} /\ watch' = Idle /\ view' = Unseen
      /\ UNCHANGED <<printer, wire>>
  BY DEF BridgeRestart
<1>4. rows' \in Seq(Row) /\ Len(rows') = Len(rows) /\ Ids' = Ids
  BY <1>1, <1>2, <1>3 DEF Ids
<1>5. WorldTyped' /\ world'.rows = world.rows
  BY OneFault DEF BridgeRestart, JobsTyped
<1>6. <<>> \in Seq(RunRec) /\ <<>> \in Seq(EventRec) /\ Len(<<>>) = 0
  BY EmptySeq
<1>7. RunTyped' /\ ViewTyped' /\ PrinterTyped'
  BY <1>3, <1>6 DEF RunTyped, ViewTyped, Unseen, JobsTyped, PrinterTyped, None, Unnamed
<1>8. WatchTyped'
  BY <1>3, <1>6 DEF WatchTyped, Idle, EventRec
<1> QED
  BY <1>1, <1>3, <1>4, <1>5, <1>7, <1>8 DEF JobsTyped, TableTyped

LEMMA BecomeTyped ==
    ASSUME PrinterTyped, NEW gs \in GcodeState, NEW name \in Prints \cup {None},
           NEW print \in Prints \cup {None}, gs \in Active => print \in Prints, wire' = wire,
           Become(gs, name, print)
    PROVE  PrinterTyped'
<1> DEFINE panels == printer.panels + (IF print \in PanelPrints THEN 1 ELSE 0)
<1>1. panels \in Nat
  <2>1. printer.panels \in Nat /\ (IF print \in PanelPrints THEN 1 ELSE 0) \in Nat
    BY DEF PrinterTyped
  <2> QED
    BY <2>1
<1>2. printer' = [printer EXCEPT !.gs = gs, !.name = name, !.fed = FALSE, !.print = print,
                                 !.next = None, !.panels = panels]
  BY DEF Become
<1> HIDE DEF panels
<1> QED
  BY <1>1, <1>2 DEF PrinterTyped

LEMMA PrinterStepTyped ==
    ASSUME JobsTyped, TakeCommand \/ BeginPrint \/ Advance \/ EndPrint \/ PrinterPower \/ PanelStart
    PROVE  JobsTyped'
<1>1. UNCHANGED <<rows, run, orphanCancels, watch, view>>
  BY DEF TakeCommand, BeginPrint, Advance, EndPrint, PrinterPower, PanelStart
<1>2. SUFFICES PrinterTyped' /\ WorldTyped' /\ world'.rows = world.rows
  BY <1>1 DEF JobsTyped, TableTyped, RunTyped, WatchTyped, ViewTyped, R, Ids
<1>3. PrinterTyped
  BY DEF JobsTyped
<1>4. CASE PrinterPower
  <2>1. "IDLE" \in GcodeState \ Active
    BY DEF GcodeState, Active
  <2>2. PrinterTyped'
    BY <1>3, <1>4, <2>1, BecomeTyped DEF PrinterPower
  <2> QED
    BY <1>4, <2>2, OneFault DEF PrinterPower, JobsTyped
<1>5. ASSUME UNCHANGED world, PrinterTyped' PROVE PrinterTyped' /\ WorldTyped' /\ world'.rows = world.rows
  BY <1>5 DEF JobsTyped, WorldTyped
<1>6. CASE TakeCommand
  <2>1. Head(wire) \in Wire /\ Tail(wire) \in Seq(Wire) /\ wire' = Tail(wire)
    BY <1>3, <1>6, HeadTailProperties DEF TakeCommand, PrinterTyped
  <2>2. Head(wire).job \in Prints
    BY <2>1, JobsAssumption DEF Wire, Prints
  <2>3. \/ printer' = [printer EXCEPT !.next = Head(wire).job]
        \/ printer' = printer
        \/ printer' = [printer EXCEPT !.gs = "FAILED"]
    BY <1>6 DEF TakeCommand
  <2>4. PrinterTyped'
    BY <1>3, <2>1, <2>2, <2>3 DEF PrinterTyped, GcodeState, Active
  <2> QED
    BY <1>5, <1>6, <2>4 DEF TakeCommand
<1>7. CASE BeginPrint
  <2>1. printer.next \in Prints /\ "PREPARE" \in GcodeState
    BY <1>3, <1>7 DEF BeginPrint, PrinterTyped, GcodeState, Active
  <2>2. PrinterTyped'
    BY <1>3, <1>7, <2>1, BecomeTyped DEF BeginPrint, NameOf
  <2> QED
    BY <1>5, <1>7, <2>2 DEF BeginPrint
<1>8. CASE PanelStart
  <2> DEFINE p == MaxRows + printer.panels + 1
  <2>1. p \in Prints /\ "PREPARE" \in GcodeState
    BY <1>3, <1>8, JobsAssumption DEF PanelStart, PrinterTyped, Prints, GcodeState, Active, JobsTyped, WorldTyped
  <2>2. Become("PREPARE", NameOf(p), p) /\ UNCHANGED <<wire, world>>
    BY <1>8 DEF PanelStart
  <2> HIDE DEF p
  <2>3. PrinterTyped'
    BY <1>3, <2>1, <2>2, BecomeTyped DEF NameOf
  <2> QED
    BY <1>5, <2>2, <2>3
<1>9. CASE Advance \/ EndPrint
  <2>1. UNCHANGED <<wire, world>>
        /\ \/ printer.gs \in Active /\ printer' = [printer EXCEPT !.gs = "RUNNING"]
           \/ printer' = [printer EXCEPT !.fed = TRUE]
           \/ printer' = [printer EXCEPT !.gs = "FINISH"]
           \/ printer' = [printer EXCEPT !.gs = "FAILED"]
    BY <1>9 DEF Advance, EndPrint, Active
  <2>2. PrinterTyped'
    BY <1>3, <2>1 DEF PrinterTyped, GcodeState, Active
  <2> QED
    BY <1>5, <2>1, <2>2
<1> QED
  BY <1>4, <1>6, <1>7, <1>8, <1>9

LEMMA OverflowTyped ==
    ASSUME JobsTyped, Overflow
    PROVE  JobsTyped'
<1>1. watch.queue \in Seq(EventRec)
  BY DEF JobsTyped, WatchTyped
<1>2. watch.queue # <<>>
  BY EmptySeq DEF Overflow
<1>3. Tail(watch.queue) \in Seq(EventRec)
  BY <1>1, <1>2, HeadTailProperties
<1>4. watch' = [watch EXCEPT !.queue = Tail(watch.queue)]
      /\ UNCHANGED <<rows, run, orphanCancels, view, printer, wire, printed, hits, world>>
  BY DEF Overflow
<1>5. WatchTyped'
  BY <1>3, <1>4 DEF JobsTyped, WatchTyped, R, Ids
<1> QED
  BY <1>4, <1>5, RowsFrame DEF JobsTyped, TableTyped, Ids

LEMMA StepJobs == JobsTyped /\ [JobsNext]_vars => JobsTyped'
<1> SUFFICES ASSUME JobsTyped, [JobsNext]_vars PROVE JobsTyped'
  OBVIOUS
<1>1. CASE UNCHANGED vars
  BY <1>1 DEF vars, JobsTyped, WorldTyped, TableTyped, RunTyped, WatchTyped, ViewTyped, PrinterTyped, R, Ids
<1>2. CASE RunSteps
  BY <1>2, TakingTyped, SendTyped, TrackTyped, ReadTyped, NoticeTyped DEF RunSteps
<1> QED
  BY <1>1, <1>2, SubmitTyped, NoticeTyped, ElapseTyped, WatcherTyped, OverflowTyped, ReportTyped,
     RestartTyped, PrinterStepTyped DEF JobsNext

LEMMA TypedHolds == JobsSpec => []JobsTyped
BY InitJobs, StepJobs, PTL DEF JobsSpec

\* The types of the table, the run, the watcher and the printer, and this: a run's row has not
\* ended - the watcher, whose listing may be old, never writes the row of a run.
THEOREM JobTypes == JobsSpec => []JobTypeOK
<1>1. JobsTyped => JobTypeOK
  <2> SUFFICES ASSUME JobsTyped PROVE JobTypeOK
    OBVIOUS
  <2>1. rows \in Seq(Row) /\ Len(rows) <= MaxRows
    BY LenProperties, JobsAssumption DEF JobsTyped, TableTyped, WorldTyped
  <2>2. run = <<>> \/ (Len(run) = 1 /\ R.job \in JobsOf(rows) /\ R.pc \in RunPc
                       /\ rows[R.job].state \notin Terminal)
    BY RunAt DEF JobsTyped, RunTyped, RunRec, JobsOf, Ids
  <2> QED
    BY <2>1, <2>2 DEF JobsTyped, JobTypeOK, RunPc, WatchTyped, ViewTyped, PrinterTyped, WorldTyped
<1> QED
  BY <1>1, TypedHolds, PTL

(***************************************************************************)
(* An ended row keeps its end.  JobRun._set asks whether the row has ended; *)
(* the watcher goes by its listing.  A listed row can end under a run while *)
(* the watcher writes another: _close_orphans writes the newest row first,  *)
(* so it must be newer than the run's, and only a print that starts outside *)
(* the bridge while a job is being taken gives such a row.                  *)
(***************************************************************************)
RunIsNewest == run # <<>> => \A j \in Ids : rows[j].state \in Live => j <= R.job
ListingHolds == \A e \in watch.todo : /\ rows[e[1]].state = e[2]
                                      /\ run # <<>> => R.job # e[1]
KeepsEnds == \A j \in Ids : rows[j].state \in Terminal => rows'[j].state = rows[j].state

\* Nothing but a run writes its row, and a new run has a new row.
LEMMA ListingFrame ==
    ASSUME JobsTyped, ListingHolds, watch'.todo \subseteq watch.todo,
           \A j \in Ids : (run # <<>> => R.job # j) => rows'[j].state = rows[j].state,
           \A j \in Ids : run' # <<>> /\ R'.job = j => run # <<>> /\ R.job = j
    PROVE  ListingHolds'
<1>1. \A e \in watch.todo : e[1] \in Ids
  BY DEF JobsTyped, WatchTyped
<1> QED
  BY <1>1 DEF ListingHolds

\* The steps of a run: its own row, unless it has ended.
LEMMA RunWrites ==
    ASSUME JobsTyped, RunSteps \/ FeedOverdue \/ Spaghetti \/ \E j \in Ids : CancelRun(j)
    PROVE  /\ KeepsEnds /\ watch' = watch
           /\ \A j \in Ids : (run # <<>> => R.job # j) => rows'[j].state = rows[j].state
           /\ \A j \in Ids : run' # <<>> /\ R'.job = j => run # <<>> /\ R.job = j
<1>1. run # <<>> /\ watch' = watch
  BY DEF RunSteps, RunStarts, RunRefused, RunBegins, UploadFails, UploadEnds, SendStart, StartNotSent,
         TrackNoStop, TrackStop, TrackStopFails, TrackRead, TrackWakes, FeedOverdue, Spaghetti, CancelRun,
         InRuns, At
<1>2. rows' = rows \/ \E new \in JobState : rows' = Set(new)
  <2>1. CloseAs \in JobState
    BY DEF CloseAs, JobState, Terminal
  <2>2. {"UPLOADING", "SUBMITTED", "PREPARING", "PRINTING", "FAILED", "CANCELED"} \subseteq JobState
    BY DEF JobState, Live, Terminal
  <2>3. CASE TrackRead
    BY <2>1, <2>2, <2>3 DEF TrackRead, ReadSubmitted, ReadOngoing, EndRun
  <2>4. CASE RunSteps /\ ~ TrackRead
    BY <2>2, <2>4 DEF RunSteps, RunStarts, RunRefused, RunBegins, UploadFails, UploadEnds, SendStart,
                      StartNotSent, TrackNoStop, TrackStop, TrackStopFails, TrackWakes, EndRun
  <2> QED
    BY <2>3, <2>4 DEF FeedOverdue, Spaghetti, CancelRun
<1>3. KeepsEnds /\ \A j \in Ids : R.job # j => rows'[j].state = rows[j].state
  BY <1>1, <1>2, SetTyped DEF KeepsEnds
<1>4. \A j \in Ids : run' # <<>> /\ R'.job = j => R.job = j
  <2>1. run' = <<>> \/ R'.job = R.job
    <3>1. run = <<R>> /\ R \in RunRec
      BY <1>1, RunAt
    <3> QED
      BY <3>1, SMTT(60) DEF RunSteps, RunStarts, RunRefused, RunBegins, UploadFails, UploadEnds, SendStart, StartNotSent,
         TrackNoStop, TrackStop, TrackStopFails, TrackRead, TrackWakes, FeedOverdue, Spaghetti, CancelRun,
         ReadSubmitted, ReadOngoing, EndRun, Goto, R, RunRec
  <2> QED
    BY <2>1
<1> QED
  BY <1>1, <1>3, <1>4

LEMMA WokenJob ==
    ASSUME JobsTyped, run' = Woken
    PROVE  run' # <<>> => run # <<>> /\ R'.job = R.job
<1>1. CASE run = <<>>
  BY <1>1 DEF Woken
<1>2. CASE run # <<>>
  <2> DEFINE r == [R EXCEPT !.wake = TRUE]
  <2>1. r \in RunRec /\ r.job = R.job /\ run' = [run EXCEPT ![1] = r]
    BY <1>2, RunAt DEF RunRec, Woken, R
  <2> HIDE DEF r
  <2> QED
    BY <1>2, <2>1, RunSet DEF R
<1> QED
  BY <1>1, <1>2

LEMMA CloseWrites ==
    ASSUME JobsTyped, NEW todo \in SUBSET (Ids \X Live), CloseNext(todo), UNCHANGED run,
           \A e \in todo : rows[e[1]].state = e[2],
           \A e \in todo : run # <<>> /\ R.job = e[1] => R.pc # "create",
           \A e, d \in todo : e[1] < d[1] /\ ~ InRuns(d[1]) => (run # <<>> => R.job # e[1])
    PROVE  KeepsEnds /\ ListingHolds'
<1>1. CASE Due(todo) = {}
  <2>1. rows' = rows /\ watch' = [watch EXCEPT !.pc = AfterClose, !.todo = {}]
    BY <1>1 DEF CloseNext
  <2>2. watch'.todo = {}
    BY <2>1 DEF JobsTyped, WatchTyped
  <2> QED
    BY <2>1, <2>2 DEF KeepsEnds, ListingHolds
<1>2. CASE Due(todo) # {}
  <2> DEFINE j == Max({e[1] : e \in Due(todo)})
             listed == CHOOSE e \in todo : e[1] = j
             row == [rows[j] EXCEPT !.state = Verdict(j, listed[2], watch.view)]
  <2>1. watch'.todo \subseteq {e \in todo : e[1] < j} /\ rows' = [rows EXCEPT ![j] = row]
    <3>1. watch' = [watch EXCEPT !.pc = "close", !.todo = {e \in todo : e[1] < j}]
      BY <1>2 DEF CloseNext
    <3>2. watch'.todo \subseteq {e \in todo : e[1] < j}
      BY <3>1 DEF JobsTyped, WatchTyped
    <3> QED
      BY <1>2, <3>2 DEF CloseNext
  <2>2. /\ j \in Ids /\ ~ (run # <<>> /\ R.job = j) /\ listed \in todo /\ listed[1] = j /\ listed[2] \in Live
    BY <1>2, DueRow
  <2> HIDE DEF j, listed, row
  <2>3. rows[j].state \notin Terminal /\ \A i \in Ids : i # j => rows'[i] = rows[i]
    BY <2>1, <2>2, RowsAt DEF Live, Terminal, Ids
  <2>4. KeepsEnds
    BY <2>3 DEF KeepsEnds
  <2>5. ~ InRuns(j)
    BY <2>2 DEF InRuns
  <2>6. \A e \in todo : e[1] < j => (run # <<>> => R.job # e[1])
    BY <2>2, <2>5
  <2>7. ASSUME NEW e \in watch'.todo
        PROVE  rows'[e[1]].state = e[2] /\ (run' # <<>> => R'.job # e[1])
    <3>1. e \in todo /\ e[1] < j /\ e[1] \in Ids /\ e[1] # j
      BY <2>1, <2>2, <2>7, RowsAt
    <3>2. R' = R
      BY DEF R
    <3> QED
      BY <2>3, <2>6, <3>1, <3>2
  <2> QED
    BY <2>4, <2>7 DEF ListingHolds
<1> QED
  BY <1>1, <1>2

LEMMA WatcherWrites ==
    ASSUME JobsTyped, ListingHolds, RunIsNewest, WatchSteps
    PROVE  KeepsEnds /\ ListingHolds'
<1>1. run' = run /\ R' = R
  BY DEF WatchSteps, WatchTakes, WatchLists, WatchCloses, WatchLooks, WatchCreates, R
<1>2. CASE WatchLists
  <2> DEFINE todo == {<<j, rows[j].state>> : j \in {i \in Ids : rows[i].state \in Live}}
  <2>1. /\ todo \in SUBSET (Ids \X Live)
        /\ \A e \in todo : rows[e[1]].state = e[2] /\ rows[e[1]].state \in Live
    OBVIOUS
  <2>2. \A e \in todo : run # <<>> /\ R.job = e[1] => R.pc # "create"
    BY <2>1 DEF JobsTyped, RunTyped, Live
  <2>3. ASSUME NEW e \in todo, NEW d \in todo, e[1] < d[1], ~ InRuns(d[1]), run # <<>>
        PROVE  R.job # e[1]
    <3>1. d[1] <= R.job /\ d[1] \in Nat /\ R.job \in Nat /\ e[1] \in Nat
      BY <2>1, <2>3, RunAt, RowsAt DEF RunIsNewest
    <3> QED
      BY <2>3, <3>1
  <2>4. CloseNext(todo)
    BY <1>2 DEF WatchLists
  <2> HIDE DEF todo
  <2> QED
    BY <1>1, <2>1, <2>2, <2>3, <2>4, CloseWrites
<1>3. CASE WatchCloses
  <2>1. watch.todo \in SUBSET (Ids \X Live) /\ \A e \in watch.todo : run # <<>> /\ R.job = e[1] => R.pc # "create"
    BY DEF JobsTyped, WatchTyped
  <2> QED
    BY <1>1, <1>3, <2>1, CloseWrites DEF WatchCloses, ListingHolds
<1>4. CASE WatchTakes \/ WatchLooks
  <2>1. UNCHANGED rows /\ watch'.todo = watch.todo
    BY <1>4 DEF WatchTakes, WatchLooks, JobsTyped, WatchTyped
  <2> QED
    BY <1>1, <2>1 DEF KeepsEnds, ListingHolds
<1>5. CASE WatchCreates
  <2>1. \A j \in Ids : rows'[j] = rows[j]
    <3> DEFINE row == NewRow("PRINTING", watch.event.name, TRUE, watch.event.print)
    <3>1. row \in Row /\ rows \in Seq(Row) /\ Ids = 1 .. Len(rows)
      BY <1>5, LenProperties DEF WatchCreates, JobsTyped, WatchTyped, TableTyped, EventRec, NewRow, Row, JobState,
         Live, Ids
    <3>2. rows' = rows \/ rows' = Append(rows, row)
      BY <1>5 DEF WatchCreates
    <3> HIDE DEF row
    <3> QED
      BY <3>1, <3>2, AppendProperties
  <2>2. watch'.todo = watch.todo
    BY <1>5 DEF WatchCreates, JobsTyped, WatchTyped
  <2> QED
    BY <1>1, <2>1, <2>2, ListingFrame DEF KeepsEnds
<1> QED
  BY <1>2, <1>3, <1>4, <1>5 DEF WatchSteps

LEMMA OthersWrite ==
    ASSUME JobsTyped, ListingHolds,
           \/ Submit \/ Overflow \/ Report \/ Reconnect \/ BridgeRestart
           \/ TakeCommand \/ BeginPrint \/ Advance \/ EndPrint \/ PrinterPower \/ PanelStart
           \/ \E j \in Ids : Elapse(j) \/ CancelOrphan(j)
    PROVE  KeepsEnds /\ ListingHolds'
<1>1. CASE Submit
  <2> DEFINE j == Len(rows) + 1
             row == NewRow("QUEUED", NameOf(j), FALSE, j)
  <2>1. /\ run = <<>> /\ rows' = Append(rows, row) /\ run' = <<NewRun(j)>> /\ watch' = watch
        /\ Len(rows) < world.rows
    BY <1>1 DEF Submit
  <2>2. rows \in Seq(Row) /\ Len(rows) \in Nat /\ Ids = 1 .. Len(rows) /\ world.rows <= MaxRows /\ world.rows \in Int
    BY LenProperties, JobsAssumption DEF JobsTyped, TableTyped, WorldTyped, Ids
  <2>3. row \in Row
    BY <2>1, <2>2, JobsAssumption DEF NewRow, NameOf, Row, Prints, JobState
  <2> HIDE DEF row
  <2>4. \A i \in Ids : rows'[i] = rows[i]
    BY <2>1, <2>2, <2>3, AppendProperties
  <2>5. R'.job = j /\ j \notin Ids
    BY <2>1, <2>2 DEF R, NewRun
  <2> QED
    BY <2>1, <2>4, <2>5, ListingFrame DEF KeepsEnds
<1>2. CASE BridgeRestart
  <2>1. \A j \in Ids : rows[j] \in Row
    BY RowsAt
  <2> QED
    BY <1>2, <2>1 DEF BridgeRestart, JobsRecovered, KeepsEnds, ListingHolds, Idle, Terminal, Row
<1>3. ASSUME UNCHANGED rows, run' = Woken \/ run' = run, watch'.todo = watch.todo
      PROVE  KeepsEnds /\ ListingHolds'
  <2>1. run' # <<>> => run # <<>> /\ R'.job = R.job
    BY <1>3, WokenJob DEF R
  <2> QED
    BY <1>3, <2>1, ListingFrame DEF KeepsEnds
<1>4. CASE Report \/ Reconnect
  BY <1>3, <1>4 DEF Report, Reconnect, Carry, JobsTyped, WatchTyped
<1>5. CASE \/ TakeCommand \/ BeginPrint \/ Advance \/ EndPrint \/ PrinterPower \/ PanelStart \/ Overflow
           \/ \E j \in Ids : CancelOrphan(j)
  BY <1>3, <1>5 DEF TakeCommand, BeginPrint, Advance, EndPrint, PrinterPower, PanelStart, Overflow, CancelOrphan,
                    JobsTyped, WatchTyped
<1>6. ASSUME NEW j \in Ids, Elapse(j) PROVE KeepsEnds /\ ListingHolds'
  <2>1. \A i \in Ids : rows'[i].state = rows[i].state
    BY <1>6, RowsAt DEF Elapse, Row, Ids
  <2>2. watch' = watch /\ run' = run /\ R' = R
    BY <1>6 DEF Elapse, R
  <2> QED
    BY <2>1, <2>2, ListingFrame DEF KeepsEnds
<1> QED
  BY <1>1, <1>2, <1>4, <1>5, <1>6

\* A row that has ended keeps its end, whatever the order of reports, cancels, restarts and
\* writes, as long as no print outside the bridge gets a row while a job is being taken.
THEOREM EndsAreKept == JobsSpec /\ []RunIsNewest => TerminalStays
<1>1. JobsInit => ListingHolds
  BY DEF JobsInit, ListingHolds, Idle
<1>2. JobsTyped /\ ListingHolds /\ RunIsNewest /\ [JobsNext]_vars => ListingHolds' /\ [KeepsEnds]_vars
  <2> SUFFICES ASSUME JobsTyped, ListingHolds, RunIsNewest, [JobsNext]_vars
               PROVE  ListingHolds' /\ [KeepsEnds]_vars
    OBVIOUS
  <2>1. CASE UNCHANGED vars
    BY <2>1 DEF vars, ListingHolds, R
  <2>2. CASE RunSteps \/ FeedOverdue \/ Spaghetti \/ \E j \in Ids : CancelRun(j)
    BY <2>2, RunWrites, ListingFrame
  <2> QED
    BY <2>1, <2>2, WatcherWrites, OthersWrite DEF JobsNext
<1> QED
  BY <1>1, <1>2, TypedHolds, PTL DEF JobsSpec, TerminalStays, KeepsEnds

-----------------------------------------------------------------------------
(* Jobs of the bridge, in turn.                                              *)

\* Every print is the bridge's, nobody cancels, and neither process nor connection is begun anew.
\* Starts may be ignored, refused or not sent, the power may fail, events may be dropped.
BridgeOnly == world.events \cap {"cancel", "restart", "reconnect", "panel", "split"} = {}

Stage == rows[R.job].state
Late == rows[R.job].late
Tracking == run # <<>> /\ R.pc \in {"track", "read", "wait"}
Began == Tracking /\ Stage \in {"PREPARING", "PRINTING"}

StartsSent == {i \in DOMAIN wire : wire[i].kind = "start"}
Pending == StartsSent # {} \/ printer.next # None
AtRest == printer.gs \notin Active /\ ~ Pending /\ (printer.gs = "FAILED" => view.gs = "FAILED")

StartedIn(queue) == \E i \in DOMAIN queue : queue[i].kind = "print_started"

\* The table: a live row is that of the run; a completed one was printed.
TableTold ==
    \A j \in Ids : /\ ~ rows[j].external /\ rows[j].print = j
                   /\ rows[j].state \notin Terminal => run # <<>> /\ R.job = j
                   /\ rows[j].state = "COMPLETED" => j \in printed

\* Where the run stands in its code is where its row stands; a deadline passes only for a row it tracks.
StageTold ==
    run # <<>> => /\ R.pc \in {"create", "guard"} => Stage = "QUEUED"
                  /\ R.pc = "upload" => Stage = "UPLOADING"
                  /\ R.pc = "send" => Stage = "SUBMITTED"
                  /\ Tracking => Stage \in Live
                  /\ ~ Tracking => ~ Late

\* Only a watchdog stops a job, and only one that has begun.
StopTold == run # <<>> => /\ ~ R.cancel /\ R.stop # "user_cancel"
                          /\ R.sent => R.stop # "none"
                          /\ R.stop # "none" => Began

\* The watcher has nothing to close and nothing to add.
WatchTold ==
    /\ watch.todo = {} /\ watch.pc \notin {"close", "create"}
    /\ StartedIn(watch.queue) \/ (watch.pc \in {"list", "look"} /\ watch.event.kind = "print_started")
         => view.gs = "RUNNING" /\ Tracking

ViewTold == view.fresh \/ view.gs = "UNKNOWN"

\* Between two jobs the printer is at rest, and so it is shown.
RestTold == ~ Tracking => AtRest /\ view.gs \notin Active

\* What is on the wire, next at the printer or at work there is of the job that is tracked, once.
WireTold == /\ \A i \in StartsSent : i = Len(wire) /\ Tracking /\ wire[i].job = R.job
            /\ printer.next # None => Tracking /\ printer.next = R.job /\ wire = <<>>
            /\ printer.gs \in Active => /\ Tracking /\ printer.print = R.job /\ ~ Pending
                                        /\ \A i \in DOMAIN wire : wire[i].job = R.job
PrinterTold == /\ printer.gs = "FINISH" => printer.print \in printed
               /\ printer.gs = "IDLE" => printer.name = None

\* A job whose start is on its way is not taken for failed, late or at work: the FAILED it may see
\* is the one noted when the start was sent (beforeFailed).
WaitTold == Tracking =>
    /\ Pending => Stage = "SUBMITTED" /\ view.gs \notin Active /\ (printer.gs = "FAILED" => R.beforeFailed)
    /\ Pending \/ printer.gs \in Active => ~ Late /\ (view.gs = "FAILED" => R.beforeFailed)
    /\ printer.gs = "FAILED" /\ view.gs # "FAILED" => printer.print = R.job
    /\ Stage = "SUBMITTED" /\ view.gs \notin Active /\ (Late \/ (view.gs = "FAILED" /\ ~ R.beforeFailed)) => AtRest

\* Once the view or the row says that the job began, the printer's last print is that of the job.
BegunTold == (Tracking /\ view.gs \in Active) \/ Began =>
    /\ printer.print = R.job \/ printer.gs = "IDLE"
    /\ view.fed /\ printer.gs \in Active => printer.fed
    /\ view.gs = "IDLE" => JobLost(view)

\* What the view says of a job that began can be believed.
BeganTold == Began =>
    /\ view.gs # "UNKNOWN"
    /\ view.gs \notin Active => AtRest
    /\ view.gs = "FINISH" => R.job \in printed
    /\ Stage = "PRINTING" /\ printer.gs \in Active => printer.fed
HitsTold == \A hit \in hits : hit[1] \in Ids /\ hit[2] = hit[1]

Told == /\ TableTold /\ StageTold /\ StopTold /\ WatchTold /\ ViewTold /\ RestTold /\ WireTold
        /\ PrinterTold /\ WaitTold /\ BegunTold /\ BeganTold /\ HitsTold /\ orphanCancels = {}
        /\ BridgeOnly

\* Only the run's row changes, and of it only its state.
LEMMA SetIs ==
    ASSUME JobsTyped, run # <<>>, NEW new \in Allowed[Stage], new \in JobState
    PROVE  /\ DOMAIN Set(new) = Ids
           /\ \A j \in Ids : Set(new)[j] = IF j = R.job THEN [rows[j] EXCEPT !.state = new] ELSE rows[j]
<1>1. R.job \in Ids /\ [rows[R.job] EXCEPT !.state = new] \in Row
  BY RunAt, RowsAt DEF Row
<1>2. Set(new) = [rows EXCEPT ![R.job] = [rows[R.job] EXCEPT !.state = new]]
  BY DEF Set, Stage
<1>3. rows \in Seq(Row) /\ Ids = 1 .. Len(rows)
  BY LenProperties DEF JobsTyped, TableTyped, Ids
<1> QED
  BY <1>1, <1>2, <1>3, RowSet, ExceptSeq

\* The table after steps that change nothing but states, and end a row where its run ends.
LEMMA TableFrame ==
    ASSUME JobsTyped, Told, DOMAIN rows' = Ids, printed \subseteq printed',
           \A j \in Ids : \/ rows'[j] = rows[j] /\ (rows[j].state \notin Terminal => run' # <<>> /\ R'.job = j)
                          \/ \E new \in JobState : /\ rows'[j] = [rows[j] EXCEPT !.state = new]
                                                   /\ new \notin Terminal => run' # <<>> /\ R'.job = j
                                                   /\ new = "COMPLETED" => j \in printed
    PROVE  TableTold'
<1> SUFFICES ASSUME NEW j \in Ids'
             PROVE  /\ ~ rows'[j].external /\ rows'[j].print = j
                    /\ rows'[j].state \notin Terminal => run' # <<>> /\ R'.job = j
                    /\ rows'[j].state = "COMPLETED" => j \in printed'
  BY DEF TableTold
<1>1. j \in Ids /\ rows[j] \in Row
  BY RowsAt DEF Ids
<1>2. /\ ~ rows[j].external /\ rows[j].print = j
      /\ rows[j].state \notin Terminal => run # <<>> /\ R.job = j
      /\ rows[j].state = "COMPLETED" => j \in printed
  BY <1>1 DEF Told, TableTold
<1>3. ASSUME NEW new \in JobState, rows'[j] = [rows[j] EXCEPT !.state = new]
      PROVE  rows'[j].external = rows[j].external /\ rows'[j].print = rows[j].print /\ rows'[j].state = new
  BY <1>1, <1>3 DEF Row
<1>4. CASE rows'[j] = rows[j] /\ (rows[j].state \notin Terminal => run' # <<>> /\ R'.job = j)
  BY <1>2, <1>4
<1>5. \/ rows'[j] = rows[j] /\ (rows[j].state \notin Terminal => run' # <<>> /\ R'.job = j)
      \/ \E new \in JobState : /\ rows'[j] = [rows[j] EXCEPT !.state = new]
                               /\ new \notin Terminal => run' # <<>> /\ R'.job = j
                               /\ new = "COMPLETED" => j \in printed
  BY <1>1, Zenon
<1>6. CASE \E new \in JobState : /\ rows'[j] = [rows[j] EXCEPT !.state = new]
                                 /\ new \notin Terminal => run' # <<>> /\ R'.job = j
                                 /\ new = "COMPLETED" => j \in printed
  <2>1. PICK new \in JobState : /\ rows'[j] = [rows[j] EXCEPT !.state = new]
                                /\ new \notin Terminal => run' # <<>> /\ R'.job = j
                                /\ new = "COMPLETED" => j \in printed
    BY <1>6, Zenon
  <2>2. rows'[j].external = rows[j].external /\ rows'[j].print = rows[j].print /\ rows'[j].state = new
    BY <1>3, <2>1
  <2> QED
    BY <1>2, <2>1, <2>2
<1> QED
  BY <1>4, <1>5, <1>6, Zenon

\* The run ends: nothing of its job is on its way or at work.
LEMMA TellEnds ==
    ASSUME JobsTyped, Told, run # <<>>,
           UNCHANGED <<orphanCancels, watch, view, printer, wire, printed, hits, world>>,
           NEW new \in Terminal, EndRun(new), new \in Allowed[Stage], AtRest, view.gs \notin Active,
           new = "COMPLETED" => R.job \in printed
    PROVE  Told'
<1>1. run' = <<>> /\ rows' = Set(new) /\ new \in JobState
  BY DEF EndRun, JobState
<1>2. ~ Tracking' /\ ~ Began' /\ DOMAIN rows' = Ids /\ Ids' = Ids
  BY <1>1, SetIs DEF Tracking, Began, Ids
<1>3. TableTold'
  <2>1. \A j \in Ids : IF j = R.job THEN rows'[j] = [rows[j] EXCEPT !.state = new]
                       ELSE rows'[j] = rows[j] /\ rows[j].state \in Terminal
    BY <1>1, SetIs DEF Told, TableTold
  <2> QED
    BY <1>1, <1>2, <2>1, TableFrame
<1>4. Pending' = Pending /\ StartsSent' = StartsSent /\ AtRest'
  BY DEF Pending, StartsSent, AtRest
<1>5. WatchTold' /\ RestTold' /\ ViewTold' /\ PrinterTold' /\ HitsTold' /\ BridgeOnly' /\ orphanCancels' = {}
  BY <1>2, <1>4, Zenon DEF Told, WatchTold, RestTold, ViewTold, PrinterTold, HitsTold, BridgeOnly, Active
<1>6. StageTold' /\ StopTold' /\ WaitTold' /\ BegunTold' /\ BeganTold'
  BY <1>1, <1>2 DEF StageTold, StopTold, WaitTold, BegunTold, BeganTold
<1>7. WireTold'
  BY <1>2, <1>4 DEF WireTold, AtRest, Pending
<1> QED
  BY <1>3, <1>5, <1>6, <1>7 DEF Told

\* The run moves on to another live state of its row.
LEMMA Goes ==
    ASSUME JobsTyped, Told, run # <<>>, UNCHANGED printed,
           NEW r \in RunRec, run' = [run EXCEPT ![1] = r], r.job = R.job, NEW new \in JobState \ Terminal,
           \/ rows' = rows /\ new = Stage
           \/ rows' = Set(new) /\ new \in Allowed[Stage]
    PROVE  /\ R' = r /\ run' # <<>> /\ Stage' = new /\ Late' = Late /\ Ids' = Ids /\ TableTold'
<1>1. R' = r /\ run' # <<>>
  BY RunSet DEF R
<1>2. R.job \in Ids /\ rows[R.job] \in Row /\ Stage \notin Terminal
  BY RunAt, RowsAt DEF JobsTyped, RunTyped, Stage
<1>3. CASE rows' = rows /\ new = Stage
  BY <1>1, <1>2, <1>3, TableFrame DEF Ids, Stage, Late, Told, TableTold
<1>4. CASE rows' = Set(new) /\ new \in Allowed[Stage]
  <2>1. DOMAIN rows' = Ids /\ \A j \in Ids : rows'[j] = IF j = R.job THEN [rows[j] EXCEPT !.state = new] ELSE rows[j]
    BY <1>4, SetIs
  <2>2. \A j \in Ids : j # R.job => rows[j].state \in Terminal
    BY DEF Told, TableTold
  <2>3. TableTold'
    <3>1. new \in JobState /\ new # "COMPLETED"
      BY DEF Terminal
    <3>2. \A j \in Ids : \/ rows'[j] = rows[j] /\ (rows[j].state \notin Terminal => run' # <<>> /\ R'.job = j)
                         \/ /\ rows'[j] = [rows[j] EXCEPT !.state = new] /\ new # "COMPLETED"
                            /\ run' # <<>> /\ R'.job = j
      BY <1>1, <2>1, <2>2, <3>1
    <3> QED
      BY <2>1, <3>1, <3>2, TableFrame
  <2>4. rows'[R'.job] = [rows[R.job] EXCEPT !.state = new]
    BY <1>1, <1>2, <2>1
  <2>5. Stage' = new /\ Late' = Late
    BY <1>2, <2>4 DEF Stage, Late, Row
  <2> QED
    BY <1>1, <2>1, <2>3, <2>5 DEF Ids
<1> QED
  BY <1>3, <1>4

\* The run moves on, to the printer nothing is sent.
LEMMA TellGoes ==
    ASSUME JobsTyped, Told, run # <<>>,
           UNCHANGED <<orphanCancels, watch, view, printer, wire, printed, hits, world>>,
           NEW r \in RunRec, run' = [run EXCEPT ![1] = r], r.job = R.job, NEW new \in JobState \ Terminal,
           \/ rows' = rows /\ new = Stage
           \/ rows' = Set(new) /\ new \in Allowed[Stage],
           ~ r.cancel, r.stop # "user_cancel", r.sent => r.stop # "none", r.beforeFailed = R.beforeFailed,
           r.stop # "none" => Tracking /\ new \in {"PREPARING", "PRINTING"},
           \/ ~ Tracking /\ <<r.pc, new>> \in {<<"guard", "QUEUED">>, <<"upload", "UPLOADING">>, <<"send", "SUBMITTED">>}
           \/ /\ Tracking /\ r.pc \in {"track", "read", "wait"}
              /\ \/ new = Stage
                 \/ new = "PREPARING" /\ view.gs \in Active
                 \/ new = "PRINTING" /\ Began /\ view.fed
    PROVE  Told'
<1>1. R' = r /\ run' # <<>> /\ Stage' = new /\ Late' = Late /\ Ids' = Ids /\ TableTold'
  BY Goes
<1>2. Pending' = Pending /\ StartsSent' = StartsSent /\ AtRest' = AtRest
  BY DEF Pending, StartsSent, AtRest
<1>3. /\ Tracking' <=> Tracking
      /\ Began' <=> Tracking /\ new \in {"PREPARING", "PRINTING"}
  BY <1>1 DEF Tracking, Began, Told, StageTold
<1>4. PrinterTold' /\ ViewTold' /\ HitsTold' /\ BridgeOnly' /\ orphanCancels' = {}
  BY <1>1 DEF Told, PrinterTold, ViewTold, HitsTold, BridgeOnly
<1>5. WatchTold' /\ RestTold'
  BY <1>2, <1>3 DEF Told, WatchTold, RestTold
<1>6. StageTold' /\ StopTold'
  BY <1>1, <1>3 DEF Told, StageTold, StopTold, Tracking, Began, Live
<1>7. WireTold'
  BY <1>1, <1>2, <1>3 DEF Told, WireTold
<1>8. WaitTold'
  BY <1>1, <1>2, <1>3 DEF Told, WaitTold, Began, Active
<1>9. BegunTold'
  BY <1>1, <1>2, <1>3 DEF Told, BegunTold, Began, JobLost
<1>10. BeganTold'
  BY <1>1, <1>2, <1>3 DEF Told, BeganTold, BegunTold, WaitTold, Began, Active
<1> QED
  BY <1>1, <1>4, <1>5, <1>6, <1>7, <1>8, <1>9, <1>10 DEF Told

\* From the request to the upload: nothing has been sent yet.
LEMMA TellTakes ==
    ASSUME JobsTyped, Told, RunStarts \/ RunRefused \/ RunBegins \/ UploadFails \/ UploadEnds \/ StartNotSent
    PROVE  Told'
<1>1. run # <<>> /\ UNCHANGED <<orphanCancels, watch, view, printer, wire, printed, hits, world>>
  BY DEF RunStarts, RunRefused, RunBegins, UploadFails, UploadEnds, StartNotSent, At
<1>2. R \in RunRec /\ ~ Tracking /\ AtRest /\ view.gs \notin Active /\ ~ R.cancel /\ ~ R.sent /\ R.stop = "none"
  BY <1>1, RunAt DEF RunStarts, RunRefused, RunBegins, UploadFails, UploadEnds, StartNotSent, At, Tracking, Told,
                     RestTold, StopTold, Began
<1>3. /\ R.pc \in {"create", "guard"} => Stage = "QUEUED"
      /\ R.pc = "upload" => Stage = "UPLOADING"
      /\ R.pc = "send" => Stage = "SUBMITTED"
  BY <1>1 DEF Told, StageTold
<1>4. ASSUME EndRun("FAILED"), R.pc \in {"guard", "upload", "send"} PROVE Told'
  <2>1. "FAILED" \in Allowed[Stage] /\ "FAILED" \in Terminal
    BY <1>3, <1>4 DEF Allowed, JobState, Live, Terminal
  <2> QED
    BY <1>1, <1>2, <1>4, <2>1, TellEnds
<1>5. ASSUME NEW pc \in {"guard", "upload", "send"}, Goto(pc), NEW new \in JobState \ Terminal,
             \/ rows' = rows /\ new = Stage
             \/ rows' = Set(new) /\ new \in Allowed[Stage],
             <<pc, new>> \in {<<"guard", "QUEUED">>, <<"upload", "UPLOADING">>, <<"send", "SUBMITTED">>}
      PROVE  Told'
  <2> DEFINE r == [R EXCEPT !.pc = pc]
  <2>1. r \in RunRec /\ r.job = R.job /\ r.pc = pc /\ r.cancel = R.cancel /\ r.stop = R.stop /\ r.sent = R.sent
        /\ r.beforeFailed = R.beforeFailed
    BY <1>2 DEF RunRec, RunPc
  <2>2. run' = [run EXCEPT ![1] = r]
    BY <1>5 DEF Goto, R
  <2> HIDE DEF r
  <2> QED
    BY <1>1, <1>2, <1>5, <2>1, <2>2, TellGoes
<1>6. CASE RunStarts
  BY <1>3, <1>5, <1>6 DEF RunStarts, At, JobState, Terminal, Live
<1>7. CASE RunBegins
  <2>1. "UPLOADING" \in Allowed[Stage] /\ "UPLOADING" \in JobState \ Terminal
    BY <1>3, <1>7 DEF RunBegins, At, Allowed, JobState, Live, Terminal
  <2> QED
    BY <1>2, <1>5, <1>7, <2>1 DEF RunBegins
<1>8. CASE UploadEnds
  <2>1. "SUBMITTED" \in Allowed[Stage] /\ "SUBMITTED" \in JobState \ Terminal
    BY <1>3, <1>8 DEF UploadEnds, At, Allowed, JobState, Live, Terminal
  <2> QED
    BY <1>2, <1>5, <1>8, <2>1 DEF UploadEnds
<1>9. CASE RunRefused \/ UploadFails \/ StartNotSent
  BY <1>4, <1>9 DEF RunRefused, UploadFails, StartNotSent, At
<1> QED
  BY <1>6, <1>7, <1>8, <1>9

\* The start goes on the wire: with the FAILED of an earlier print noted.
LEMMA TellSends ==
    ASSUME JobsTyped, Told, SendStart
    PROVE  Told'
<1> DEFINE r == [R EXCEPT !.pc = "track", !.beforeFailed = (Gs(view) = "FAILED")]
           start == Command("start", R.job)
<1>1. /\ run # <<>> /\ R.pc = "send" /\ UNCHANGED <<rows, orphanCancels, watch, view, printer, printed, hits, world>>
      /\ wire' = Append(wire, start) /\ run' = [run EXCEPT ![1] = r]
  BY DEF SendStart, At, R
<1>2. R \in RunRec /\ ~ Tracking /\ Stage = "SUBMITTED" /\ AtRest /\ view.gs \notin Active /\ ~ R.cancel /\ ~ R.sent
      /\ R.stop = "none" /\ ~ Late
  BY <1>1, RunAt DEF Tracking, Told, RestTold, StopTold, StageTold, Began
<1>3. /\ r \in RunRec /\ r.job = R.job /\ r.pc = "track" /\ r.cancel = R.cancel /\ r.stop = R.stop
      /\ r.sent = R.sent /\ (view.gs = "FAILED" => r.beforeFailed)
  BY <1>2 DEF RunRec, RunPc, Gs, Told, ViewTold
<1>4. wire \in Seq(Wire) /\ start \in Wire /\ start.kind = "start" /\ start.job = R.job
  BY <1>1, RunAt, RowsAt DEF JobsTyped, PrinterTyped, Command, Wire
<1>5. "SUBMITTED" \in JobState \ Terminal
  BY DEF JobState, Terminal, Live
<1> HIDE DEF r, start
<1>6. R' = r /\ run' # <<>> /\ Stage' = "SUBMITTED" /\ Late' = Late /\ Ids' = Ids /\ TableTold'
  BY <1>1, <1>2, <1>3, <1>5, Goes
<1>7. /\ Len(wire') = Len(wire) + 1 /\ Len(wire) \in Nat /\ DOMAIN wire' = 1 .. Len(wire) + 1
      /\ \A i \in 1 .. Len(wire) : wire'[i] = wire[i]
      /\ wire'[Len(wire) + 1] = start /\ DOMAIN wire = 1 .. Len(wire)
  BY <1>1, <1>4, AppendProperties, LenProperties
<1>8. StartsSent' = {Len(wire) + 1}
  BY <1>2, <1>4, <1>7 DEF StartsSent, AtRest, Pending
<1>9. Tracking' /\ ~ Began' /\ Pending'
  BY <1>3, <1>6, <1>8 DEF Tracking, Began, Pending
<1>10. PrinterTold' /\ ViewTold' /\ HitsTold' /\ BridgeOnly' /\ orphanCancels' = {} /\ RestTold'
  BY <1>1, <1>6, <1>9 DEF Told, PrinterTold, ViewTold, HitsTold, BridgeOnly, RestTold
<1>11. WatchTold'
  BY <1>1, <1>9 DEF Told, WatchTold
<1>12. StageTold' /\ StopTold'
  BY <1>2, <1>3, <1>6, <1>9 DEF StageTold, StopTold, Live
<1>13. WireTold'
  BY <1>1, <1>2, <1>3, <1>4, <1>6, <1>7, <1>8, <1>9 DEF WireTold, AtRest, Pending
<1>14. WaitTold'
  BY <1>1, <1>2, <1>3, <1>6 DEF WaitTold, AtRest
<1>15. BegunTold' /\ BeganTold'
  BY <1>1, <1>2, <1>9 DEF BegunTold, BeganTold, Active
<1> QED
  BY <1>6, <1>10, <1>11, <1>12, <1>13, <1>14, <1>15 DEF Told

\* A stop is delivered, or is tried and not.
LEMMA TellStops ==
    ASSUME JobsTyped, Told, TrackNoStop \/ TrackStop \/ TrackStopFails
    PROVE  Told'
<1> DEFINE quiet == [R EXCEPT !.pc = "read", !.wake = FALSE]
           sent == [R EXCEPT !.pc = "read", !.wake = FALSE, !.sent = TRUE]
           stop == Command("stop", R.job)
<1>1. /\ run # <<>> /\ R.pc = "track" /\ UNCHANGED <<rows, orphanCancels, watch, view, printer, printed, hits, world>>
      /\ \/ run' = [run EXCEPT ![1] = quiet] /\ wire' = wire
         \/ run' = [run EXCEPT ![1] = sent] /\ wire' = Append(wire, stop) /\ R.stop # "none"
  BY DEF TrackNoStop, TrackStop, TrackStopFails, At, StopPending, R
<1>2. R \in RunRec /\ Tracking /\ ~ R.cancel /\ R.stop # "user_cancel" /\ (R.sent => R.stop # "none")
      /\ (R.stop # "none" => Began) /\ Stage \in Live
  BY <1>1, RunAt DEF Tracking, Told, StopTold, StageTold
<1>3. /\ quiet \in RunRec /\ quiet.job = R.job /\ quiet.pc = "read" /\ quiet.cancel = R.cancel
      /\ quiet.stop = R.stop /\ quiet.sent = R.sent /\ quiet.beforeFailed = R.beforeFailed
      /\ sent \in RunRec /\ sent.job = R.job /\ sent.pc = "read" /\ sent.cancel = R.cancel
      /\ sent.stop = R.stop /\ sent.beforeFailed = R.beforeFailed
  BY <1>2 DEF RunRec, RunPc
<1>4. wire \in Seq(Wire) /\ stop \in Wire /\ stop.kind = "stop" /\ stop.job = R.job
  BY <1>1, RunAt, RowsAt DEF JobsTyped, PrinterTyped, Command, Wire
<1>5. Stage \in JobState \ Terminal
  BY <1>2 DEF JobState, Terminal, Live
<1> HIDE DEF quiet, sent, stop
<1>6. CASE run' = [run EXCEPT ![1] = quiet] /\ wire' = wire
  BY <1>1, <1>2, <1>3, <1>5, <1>6, TellGoes DEF Began
<1>7. CASE run' = [run EXCEPT ![1] = sent] /\ wire' = Append(wire, stop) /\ R.stop # "none"
  <2>1. R' = sent /\ run' # <<>> /\ Stage' = Stage /\ Late' = Late /\ Ids' = Ids /\ TableTold'
    BY <1>1, <1>3, <1>5, <1>7, Goes
  <2>2. /\ Len(wire') = Len(wire) + 1 /\ Len(wire) \in Nat /\ DOMAIN wire' = 1 .. Len(wire) + 1
        /\ \A i \in 1 .. Len(wire) : wire'[i] = wire[i]
        /\ wire'[Len(wire) + 1] = stop /\ DOMAIN wire = 1 .. Len(wire)
    BY <1>4, <1>7, AppendProperties, LenProperties
  <2>3. Began /\ ~ Pending
    BY <1>2, <1>7 DEF Told, WaitTold, Began
  <2>4. StartsSent' = {} /\ StartsSent = {} /\ ~ Pending' /\ AtRest' = AtRest
    BY <1>1, <1>4, <2>2, <2>3 DEF StartsSent, Pending, AtRest
  <2>5. Tracking' /\ Began' /\ Tracking
    BY <1>2, <1>3, <2>1, <2>3 DEF Tracking, Began
  <2>6. PrinterTold' /\ ViewTold' /\ HitsTold' /\ BridgeOnly' /\ orphanCancels' = {} /\ RestTold' /\ WatchTold'
    BY <1>1, <2>1, <2>5 DEF Told, PrinterTold, ViewTold, HitsTold, BridgeOnly, RestTold, WatchTold
  <2>7. StageTold' /\ StopTold'
    BY <1>2, <1>3, <1>7, <2>1, <2>5 DEF StageTold, StopTold, Tracking
  <2>8. WireTold'
    BY <1>1, <1>3, <1>4, <2>1, <2>2, <2>3, <2>4, <2>5 DEF Told, WireTold, Pending
  <2>9. WaitTold' /\ BegunTold' /\ BeganTold'
    BY <1>1, <1>3, <2>1, <2>3, <2>4, <2>5 DEF Told, WaitTold, BegunTold, BeganTold, JobLost
  <2> QED
    BY <2>1, <2>6, <2>7, <2>8, <2>9 DEF Told
<1> QED
  BY <1>1, <1>6, <1>7

\* What the view says of a job that is waited for, or at work.
LEMMA TellReads ==
    ASSUME JobsTyped, Told, TrackRead
    PROVE  Told'
<1>1. /\ run # <<>> /\ R.pc = "read"
      /\ UNCHANGED <<orphanCancels, watch, view, printer, wire, printed, hits, world>>
  BY DEF TrackRead, At
<1>2. R \in RunRec /\ Tracking /\ ~ R.cancel /\ R.stop # "user_cancel" /\ (R.sent => R.stop # "none")
      /\ (R.stop # "none" => Began) /\ Stage \in Live
  BY <1>1, RunAt DEF Tracking, Told, StopTold, StageTold
<1>3. Gs(view) # "UNKNOWN" => Gs(view) = view.gs
  BY DEF Gs
<1>4. Gs(view) \notin Active => view.gs \notin Active
  BY DEF Gs, Told, ViewTold, Active
<1>5. Stage \in JobState \ Terminal /\ "PREPARING" \in JobState \ Terminal /\ "PRINTING" \in JobState \ Terminal
  BY <1>2 DEF JobState, Terminal, Live
<1>6. ASSUME NEW pc \in {"track", "wait"}, Goto(pc), NEW new \in JobState \ Terminal,
             \/ rows' = rows /\ new = Stage
             \/ rows' = Set(new) /\ new \in Allowed[Stage] /\ new = "PREPARING" /\ view.gs \in Active
      PROVE  Told'
  <2> DEFINE r == [R EXCEPT !.pc = pc]
  <2>1. r \in RunRec /\ r.job = R.job /\ r.pc = pc /\ r.cancel = R.cancel /\ r.stop = R.stop /\ r.sent = R.sent
        /\ r.beforeFailed = R.beforeFailed
    BY <1>2 DEF RunRec, RunPc
  <2>2. run' = [run EXCEPT ![1] = r]
    BY <1>6 DEF Goto, R
  <2> HIDE DEF r
  <2> QED
    BY <1>1, <1>2, <1>6, <2>1, <2>2, TellGoes DEF Began
<1>7. CASE Stage = "SUBMITTED"
  <2>1. ~ Began /\ ~ R.sent
    BY <1>2, <1>7 DEF Began
  <2>2. \/ Gs(view) \in Active /\ rows' = Set("PREPARING") /\ Goto("track")
        \/ Gs(view) \notin Active /\ EndRun("FAILED") /\ ((Gs(view) = "FAILED" /\ ~ R.beforeFailed) \/ Late)
        \/ rows' = rows /\ Goto("wait")
    BY <1>7, <2>1 DEF TrackRead, ReadSubmitted, Stage, Late
  <2>3. CASE Gs(view) \in Active /\ rows' = Set("PREPARING") /\ Goto("track")
    <3>1. view.gs \in Active /\ "PREPARING" \in Allowed[Stage]
      BY <1>3, <1>7, <2>3 DEF Active, Allowed, JobState, Live
    <3> QED
      BY <1>5, <1>6, <2>3, <3>1
  <2>4. CASE Gs(view) \notin Active /\ EndRun("FAILED") /\ ((Gs(view) = "FAILED" /\ ~ R.beforeFailed) \/ Late)
    <3>1. view.gs \notin Active /\ AtRest
      BY <1>2, <1>3, <1>4, <1>7, <2>4 DEF Told, WaitTold
    <3>2. "FAILED" \in Allowed[Stage] /\ "FAILED" \in Terminal
      BY <1>7 DEF Allowed, JobState, Live, Terminal
    <3> QED
      BY <1>1, <2>4, <3>1, <3>2, TellEnds
  <2> QED
    BY <1>5, <1>6, <2>2, <2>3, <2>4
<1>8. CASE Stage # "SUBMITTED"
  <2>1. Began /\ Stage \in {"PREPARING", "PRINTING"}
    BY <1>2, <1>8 DEF Began, Live
  <2>2. CASE JobDone
    <3>1. EndRun(CloseAs)
      BY <1>8, <2>2 DEF TrackRead, Stage
    <3>2. view.gs \notin Active
      BY <1>3, <2>2 DEF JobDone, JobLost, Active
    <3>3. AtRest /\ (view.gs = "FINISH" => R.job \in printed)
      BY <2>1, <3>2 DEF Told, BeganTold
    <3>4. CloseAs \in Terminal /\ CloseAs \in Allowed[Stage] /\ (CloseAs = "COMPLETED" => view.gs = "FINISH")
      BY <2>1 DEF CloseAs, Terminal, Allowed, JobState, Live
    <3> HIDE DEF CloseAs
    <3> QED
      BY <1>1, <3>1, <3>2, <3>3, <3>4, TellEnds
  <2>3. CASE ~ JobDone
    <3> DEFINE ran == R.ran \/ Gs(view) = "RUNNING"
               preparing == Stage = "PREPARING" /\ ran /\ Gs(view) # "UNKNOWN"
               starved == preparing /\ ~ view.fed /\ R.overdue /\ R.stop = "none"
               r == [R EXCEPT !.pc = "wait", !.ran = ran, !.stop = IF starved THEN "watchdog" ELSE @,
                              !.wake = @ \/ starved]
    <3>1. /\ rows' = IF preparing /\ view.fed THEN Set("PRINTING") ELSE rows
          /\ run' = [run EXCEPT ![1] = r]
      BY <1>8, <2>3 DEF TrackRead, ReadOngoing, R, Stage
    <3>2. ran \in BOOLEAN /\ starved \in BOOLEAN
      BY <1>2 DEF RunRec
    <3> HIDE DEF ran, starved
    <3>3. r \in RunRec /\ r.job = R.job /\ r.pc = "wait" /\ r.cancel = R.cancel /\ r.stop \in {"watchdog", R.stop}
          /\ r.sent = R.sent /\ r.beforeFailed = R.beforeFailed
      BY <1>2, <3>2 DEF RunRec, RunPc
    <3>4. r.stop # "user_cancel" /\ (r.sent => r.stop # "none")
      BY <1>2, <3>3
    <3> HIDE DEF r
    <3>5. CASE preparing /\ view.fed
      <4>1. "PRINTING" \in Allowed[Stage]
        BY <3>5 DEF Allowed, JobState, Live
      <4> QED
        BY <1>1, <1>2, <1>5, <2>1, <3>1, <3>3, <3>4, <3>5, <4>1, TellGoes
    <3>6. CASE ~ (preparing /\ view.fed)
      BY <1>1, <1>2, <1>5, <2>1, <3>1, <3>3, <3>4, <3>6, TellGoes
    <3> QED
      BY <3>5, <3>6
  <2> QED
    BY <2>2, <2>3
<1> QED
  BY <1>7, <1>8

\* A wake, a deadline, a watchdog.
LEMMA TellNotices ==
    ASSUME JobsTyped, Told, TrackWakes \/ FeedOverdue \/ Spaghetti
    PROVE  Told'
<1>1. /\ run # <<>> /\ UNCHANGED <<rows, orphanCancels, watch, view, printer, wire, printed, hits, world>>
  BY DEF TrackWakes, FeedOverdue, Spaghetti, At
<1>2. R \in RunRec /\ ~ R.cancel /\ R.stop # "user_cancel" /\ (R.sent => R.stop # "none")
      /\ (R.stop # "none" => Began)
  BY <1>1, RunAt DEF Told, StopTold
<1>3. Tracking /\ Stage \in Live
  <2>1. CASE TrackWakes \/ FeedOverdue
    BY <1>1, <2>1 DEF TrackWakes, FeedOverdue, At, Tracking, Told, StageTold
  <2>2. CASE Spaghetti
    <3>1. Stage = "PRINTING" /\ R.pc \in RunPc
      BY <1>2, <2>2 DEF Spaghetti, Stage, RunRec
    <3> QED
      BY <1>1, <3>1 DEF Told, StageTold, Tracking, RunPc, Live
  <2> QED
    BY <2>1, <2>2
<1>4. Stage \in JobState \ Terminal
  BY <1>3 DEF JobState, Terminal, Live
<1>5. ASSUME NEW r \in RunRec, run' = [run EXCEPT ![1] = r], r.job = R.job, r.pc \in {"track", "read", "wait"},
             r.cancel = R.cancel, r.sent = R.sent, r.beforeFailed = R.beforeFailed,
             \/ r.stop = R.stop
             \/ r.stop = "watchdog" /\ Began
      PROVE  Told'
  <2>1. ~ r.cancel /\ r.stop # "user_cancel" /\ (r.sent => r.stop # "none") /\ (r.stop # "none" => Began)
    BY <1>2, <1>5
  <2> QED
    BY <1>1, <1>3, <1>4, <1>5, <2>1, TellGoes DEF Began
<1>6. CASE TrackWakes
  <2> DEFINE r == [R EXCEPT !.pc = "track"]
  <2>1. r \in RunRec /\ r.job = R.job /\ r.pc = "track" /\ r.cancel = R.cancel /\ r.stop = R.stop /\ r.sent = R.sent
        /\ r.beforeFailed = R.beforeFailed
    BY <1>2 DEF RunRec, RunPc
  <2>2. run' = [run EXCEPT ![1] = r]
    BY <1>6 DEF TrackWakes, Goto, R
  <2> HIDE DEF r
  <2> QED
    BY <1>5, <2>1, <2>2
<1>7. CASE FeedOverdue
  <2> DEFINE r == [R EXCEPT !.overdue = TRUE]
  <2>1. r \in RunRec /\ r.job = R.job /\ r.pc = R.pc /\ r.cancel = R.cancel /\ r.stop = R.stop /\ r.sent = R.sent
        /\ r.beforeFailed = R.beforeFailed
    BY <1>2 DEF RunRec, RunPc
  <2>2. run' = [run EXCEPT ![1] = r]
    BY <1>7 DEF FeedOverdue, R
  <2> HIDE DEF r
  <2> QED
    BY <1>3, <1>5, <2>1, <2>2 DEF Tracking
<1>8. CASE Spaghetti
  <2> DEFINE r == [R EXCEPT !.stop = "watchdog", !.wake = TRUE]
  <2>1. r \in RunRec /\ r.job = R.job /\ r.pc = R.pc /\ r.cancel = R.cancel /\ r.stop = "watchdog" /\ r.sent = R.sent
        /\ r.beforeFailed = R.beforeFailed
    BY <1>2 DEF RunRec, RunPc
  <2>2. run' = [run EXCEPT ![1] = r] /\ Began
    BY <1>3, <1>8 DEF Spaghetti, R, Began, Stage
  <2> HIDE DEF r
  <2> QED
    BY <1>3, <1>5, <2>1, <2>2 DEF Tracking
<1> QED
  BY <1>6, <1>7, <1>8

\* A new job: the one before it is over, and the printer at rest.
LEMMA TellSubmit ==
    ASSUME JobsTyped, Told, Submit
    PROVE  Told'
<1> DEFINE j == Len(rows) + 1
           row == NewRow("QUEUED", NameOf(j), FALSE, j)
<1>1. /\ run = <<>> /\ rows' = Append(rows, row) /\ run' = <<NewRun(j)>> /\ Len(rows) < world.rows
      /\ UNCHANGED <<orphanCancels, watch, view, printer, wire, printed, hits, world>>
  BY DEF Submit
<1>2. rows \in Seq(Row) /\ Len(rows) \in Nat /\ Ids = 1 .. Len(rows) /\ world.rows <= MaxRows /\ world.rows \in Int
  BY LenProperties, JobsAssumption DEF JobsTyped, TableTyped, WorldTyped, Ids
<1>3. row \in Row /\ row.state = "QUEUED" /\ ~ row.external /\ row.print = j /\ ~ row.late
  BY <1>1, <1>2, JobsAssumption DEF NewRow, NameOf, Row, Prints, JobState
<1> HIDE DEF row
<1>4. /\ Ids' = 1 .. j /\ rows'[j] = row /\ \A i \in Ids : rows'[i] = rows[i]
  <2>1. rows' \in Seq(Row) /\ Len(rows') = j
    BY <1>1, <1>2, <1>3, AppendProperties
  <2> QED
    BY <1>1, <1>2, <1>3, <2>1, AppendProperties, LenProperties DEF Ids
<1>5. R' = NewRun(j) /\ run' # <<>> /\ Stage' = "QUEUED" /\ ~ Late' /\ R'.job = j
  BY <1>1, <1>3, <1>4 DEF R, Stage, Late, NewRun
<1>6. ~ Tracking /\ ~ Tracking' /\ ~ Began'
  BY <1>1, <1>5 DEF Tracking, Began, NewRun
<1>7. TableTold'
  BY <1>1, <1>2, <1>3, <1>4, <1>5 DEF Told, TableTold, Terminal
<1>8. Pending' = Pending /\ StartsSent' = StartsSent /\ AtRest' = AtRest
  BY <1>1 DEF Pending, StartsSent, AtRest
<1>9. WatchTold' /\ RestTold' /\ ViewTold' /\ PrinterTold' /\ BridgeOnly' /\ orphanCancels' = {}
  BY <1>1, <1>6, <1>8 DEF Told, WatchTold, RestTold, ViewTold, PrinterTold, BridgeOnly
<1>10. HitsTold'
  BY <1>1, <1>2, <1>4 DEF Told, HitsTold
<1>11. StageTold' /\ StopTold' /\ WaitTold' /\ BegunTold' /\ BeganTold'
  BY <1>5, <1>6 DEF StageTold, StopTold, WaitTold, BegunTold, BeganTold, NewRun
<1>12. WireTold'
  BY <1>1, <1>6, <1>8 DEF Told, WireTold, RestTold, AtRest, Pending
<1> QED
  BY <1>7, <1>9, <1>10, <1>11, <1>12 DEF Told

\* The 300 s pass for a job whose start the printer does not have.
LEMMA TellElapse ==
    ASSUME JobsTyped, Told, NEW j \in Ids, Elapse(j)
    PROVE  Told'
<1>1. /\ rows[j].state = "SUBMITTED" /\ ~ rows[j].late
      /\ Command("start", j) \notin {wire[i] : i \in DOMAIN wire} /\ printer.next # j
      /\ printer.print = j => printer.gs \notin Active /\ Matches(view)
      /\ rows' = [rows EXCEPT ![j].late = TRUE]
      /\ UNCHANGED <<run, orphanCancels, watch, view, printer, wire, printed, hits, world>>
  BY DEF Elapse
<1>2. run # <<>> /\ R.job = j /\ Stage = "SUBMITTED"
  BY <1>1 DEF Told, TableTold, Stage, Terminal
<1>3. R \in RunRec /\ Tracking
  <2>1. R \in RunRec /\ R.pc \in RunPc
    BY <1>2, RunAt DEF RunRec
  <2> QED
    BY <1>2, <2>1 DEF Told, StageTold, Tracking, RunPc, Elapse, InRuns
<1>4. /\ R' = R /\ Pending' = Pending /\ StartsSent' = StartsSent /\ AtRest' = AtRest
      /\ Tracking' = Tracking
  BY <1>1 DEF R, Pending, StartsSent, AtRest, Tracking
<1>5. /\ DOMAIN rows' = Ids /\ \A i \in Ids : rows'[i] = IF i = j THEN [rows[j] EXCEPT !.late = TRUE] ELSE rows[i]
      /\ \A i \in Ids : rows[i] \in Row
  BY <1>1, RowsAt DEF Ids
<1>6. /\ Ids' = Ids /\ Stage' = Stage
      /\ \A i \in Ids : rows'[i].state = rows[i].state /\ rows'[i].external = rows[i].external
                        /\ rows'[i].print = rows[i].print
  BY <1>2, <1>4, <1>5 DEF Ids, Stage, Row
<1>7. ~ Pending /\ printer.gs \notin Active
  <2>1. ASSUME NEW i \in StartsSent PROVE FALSE
    <3>1. wire \in Seq(Wire) /\ i \in 1 .. Len(wire) /\ wire[i].kind = "start" /\ wire[i].job = j
      BY <1>2, <2>1, LenProperties DEF StartsSent, JobsTyped, PrinterTyped, Told, WireTold
    <3>2. wire[i] \in Wire
      BY <3>1, ElementOfSeq
    <3> QED
      BY <1>1, <3>1, <3>2, LenProperties DEF Wire, Command
  <2> QED
    BY <1>1, <1>2, <2>1 DEF Pending, Told, WireTold
<1>8. AtRest
  <2>1. printer.gs = "FAILED" /\ view.gs # "FAILED" => printer.print = j
    BY <1>2, <1>3 DEF Told, WaitTold
  <2> QED
    BY <1>1, <1>7, <2>1 DEF AtRest, Matches
<1>9. TableTold' /\ HitsTold' /\ PrinterTold' /\ ViewTold' /\ BridgeOnly' /\ orphanCancels' = {} /\ RestTold' /\ WatchTold'
  BY <1>1, <1>3, <1>4, <1>6 DEF Told, TableTold, HitsTold, PrinterTold, ViewTold, BridgeOnly, RestTold, WatchTold
<1>10. StageTold' /\ StopTold' /\ ~ Began' /\ ~ Began
  BY <1>1, <1>2, <1>3, <1>4, <1>6 DEF Told, StageTold, StopTold, Began
<1>11. WireTold'
  BY <1>1, <1>4, <1>6 DEF Told, WireTold
<1>12. WaitTold' /\ BegunTold' /\ BeganTold'
  BY <1>1, <1>2, <1>3, <1>4, <1>6, <1>7, <1>8, <1>10 DEF Told, WaitTold, BegunTold, BeganTold, JobLost
<1> QED
  BY <1>9, <1>10, <1>11, <1>12 DEF Told

\* Steps that leave the table, the run, the view and the printer.
LEMMA WatchFrame ==
    ASSUME JobsTyped, Told, UNCHANGED <<rows, run, orphanCancels, view, printer, wire, printed, hits, world>>,
           WatchTold'
    PROVE  Told'
<1>1. /\ R' = R /\ Stage' = Stage /\ Late' = Late /\ Ids' = Ids /\ Tracking' = Tracking /\ Began' = Began
      /\ Pending' = Pending /\ StartsSent' = StartsSent /\ AtRest' = AtRest /\ JobLost(view)' = JobLost(view)
  BY DEF R, Stage, Late, Ids, Tracking, Began, Pending, StartsSent, AtRest, JobLost
<1>2. TableTold' /\ StageTold' /\ StopTold' /\ ViewTold' /\ RestTold' /\ WireTold'
  BY <1>1 DEF Told, TableTold, StageTold, StopTold, ViewTold, RestTold, WireTold
<1>3. PrinterTold' /\ WaitTold' /\ BegunTold' /\ BeganTold' /\ HitsTold' /\ BridgeOnly'
  BY <1>1 DEF Told, PrinterTold, WaitTold, BegunTold, BeganTold, HitsTold, BridgeOnly
<1> QED
  BY <1>2, <1>3 DEF Told

\* A queue without its head announces no more than the queue.
LEMMA StartedTail ==
    ASSUME NEW queue \in Seq(EventRec), queue # <<>>
    PROVE  /\ StartedIn(Tail(queue)) => StartedIn(queue)
           /\ Head(queue).kind = "print_started" => StartedIn(queue)
<1>1. /\ Tail(queue) \in Seq(EventRec) /\ Len(Tail(queue)) = Len(queue) - 1 /\ Len(queue) \in Nat \ {0}
      /\ \A i \in 1 .. Len(Tail(queue)) : Tail(queue)[i] = queue[i + 1]
  BY HeadTailProperties, EmptySeq
<1>2. DOMAIN queue = 1 .. Len(queue) /\ DOMAIN Tail(queue) = 1 .. Len(queue) - 1 /\ Head(queue) = queue[1]
  BY <1>1, LenProperties
<1> QED
  BY <1>1, <1>2 DEF StartedIn

\* What two joined queues announce, one of them does.
LEMMA StartedJoined ==
    ASSUME NEW s \in Seq(EventRec), NEW t \in Seq(EventRec), StartedIn(s \o t)
    PROVE  StartedIn(s) \/ StartedIn(t)
<1>1. /\ s \o t \in Seq(EventRec) /\ Len(s \o t) = Len(s) + Len(t) /\ Len(s) \in Nat /\ Len(t) \in Nat
      /\ \A i \in 1 .. Len(s) + Len(t) : (s \o t)[i] = IF i <= Len(s) THEN s[i] ELSE t[i - Len(s)]
  BY ConcatProperties, LenProperties
<1>2. DOMAIN s = 1 .. Len(s) /\ DOMAIN t = 1 .. Len(t) /\ DOMAIN (s \o t) = 1 .. Len(s) + Len(t)
  BY <1>1, LenProperties
<1>3. PICK i \in 1 .. Len(s) + Len(t) : (s \o t)[i].kind = "print_started"
  BY <1>2 DEF StartedIn
<1>4. CASE i <= Len(s)
  BY <1>1, <1>2, <1>3, <1>4 DEF StartedIn
<1>5. CASE ~ (i <= Len(s))
  <2>1. i - Len(s) \in 1 .. Len(t) /\ t[i - Len(s)].kind = "print_started"
    BY <1>1, <1>3, <1>5
  <2> QED
    BY <1>2, <2>1 DEF StartedIn
<1> QED
  BY <1>4, <1>5

\* The watcher has nothing to close, and adds no row: a run has every live row.
LEMMA TellWatches ==
    ASSUME JobsTyped, Told, WatchSteps \/ Overflow
    PROVE  Told'
<1>1. /\ watch.todo = {} /\ watch.pc \notin {"close", "create"}
      /\ StartedIn(watch.queue) => view.gs = "RUNNING" /\ Tracking
      /\ watch.pc \in {"list", "look"} /\ watch.event.kind = "print_started" => view.gs = "RUNNING" /\ Tracking
  BY DEF Told, WatchTold
<1>2. watch.queue \in Seq(EventRec) /\ (watch.pc = "look" => watch.event.kind = "print_started")
  BY DEF JobsTyped, WatchTyped, EventRec
<1>3. watch \in [pc : {"idle", "list", "close", "look", "create"}, queue : Seq(EventRec),
                 seen : {watch.seen}, view : {watch.view}, todo : SUBSET (Ids \X Live), event : EventRec]
  BY DEF JobsTyped, WatchTyped
<1>4. CASE WatchTakes
  <2>1. /\ watch.queue # <<>> /\ UNCHANGED <<rows, run, orphanCancels, view, printer, wire, printed, hits, world>>
        /\ watch'.queue = Tail(watch.queue) /\ watch'.event = Head(watch.queue) /\ watch'.todo = watch.todo
        /\ watch'.pc \in {"list", "look", "idle"}
    BY <1>3, <1>4 DEF WatchTakes
  <2>2. Tracking' = Tracking
    BY <2>1 DEF Tracking, R
  <2>3. WatchTold'
    BY <1>1, <1>2, <2>1, <2>2, StartedTail DEF WatchTold
  <2> QED
    BY <2>1, <2>3, WatchFrame
<1>5. CASE WatchLists
  <2> DEFINE todo == {<<j, rows[j].state>> : j \in {i \in Ids : rows[i].state \in Live}}
  <2>1. CloseNext(todo) /\ watch.pc = "list" /\ UNCHANGED <<run, view, printer, wire, printed, hits, world>>
    BY <1>5 DEF WatchLists
  <2>2. Due(todo) = {}
    <3>1. ASSUME NEW j \in Ids, rows[j].state \in Live PROVE InRuns(j)
      <4>1. run # <<>> /\ R.job = j /\ Stage = rows[j].state
        BY <3>1 DEF Told, TableTold, Live, Terminal, Stage
      <4> QED
        BY <3>1, <4>1 DEF Told, StageTold, InRuns, Live
    <3>2. \A e \in todo : InRuns(e[1])
      BY <3>1
    <3> HIDE DEF todo
    <3> QED
      BY <3>2 DEF Due
  <2> HIDE DEF todo
  <2>3. watch' = [watch EXCEPT !.pc = AfterClose, !.todo = {}] /\ UNCHANGED <<rows, orphanCancels>>
    BY <2>1, <2>2 DEF CloseNext
  <2>4. /\ watch'.queue = watch.queue /\ watch'.event = watch.event /\ watch'.todo = {}
        /\ watch'.pc = AfterClose
    BY <1>3, <2>3
  <2>5. Tracking' = Tracking
    BY <2>1 DEF Tracking, R
  <2>6. WatchTold'
    BY <1>1, <2>1, <2>4, <2>5 DEF WatchTold, AfterClose
  <2> QED
    BY <2>1, <2>3, <2>6, WatchFrame
<1>6. CASE WatchLooks
  <2>1. Stage \in Live /\ R.job \in Ids
    BY <1>1, <1>2, <1>6, RunAt DEF WatchLooks, Told, StageTold, Tracking
  <2>2. watch' = [watch EXCEPT !.pc = "idle"]
        /\ UNCHANGED <<rows, run, orphanCancels, view, printer, wire, printed, hits, world>>
    BY <1>6, <2>1 DEF WatchLooks, Stage
  <2>3. watch'.queue = watch.queue /\ watch'.todo = watch.todo /\ watch'.pc = "idle"
    BY <1>3, <2>2
  <2>4. Tracking' = Tracking
    BY <2>2 DEF Tracking, R
  <2>5. WatchTold'
    BY <1>1, <2>2, <2>3, <2>4 DEF WatchTold
  <2> QED
    BY <2>2, <2>5, WatchFrame
<1>7. CASE Overflow
  <2>1. watch' = [watch EXCEPT !.queue = Tail(watch.queue)] /\ watch.queue # <<>>
        /\ UNCHANGED <<rows, run, orphanCancels, view, printer, wire, printed, hits, world>>
    BY <1>7, EmptySeq DEF Overflow
  <2>2. /\ watch'.queue = Tail(watch.queue) /\ watch'.todo = watch.todo /\ watch'.pc = watch.pc
        /\ watch'.event = watch.event
    BY <1>3, <2>1
  <2>3. Tracking' = Tracking
    BY <2>1 DEF Tracking, R
  <2>4. WatchTold'
    BY <1>1, <1>2, <2>1, <2>2, <2>3, StartedTail DEF WatchTold
  <2> QED
    BY <2>1, <2>4, WatchFrame
<1> QED
  BY <1>1, <1>4, <1>5, <1>6, <1>7 DEF WatchSteps, WatchCloses, WatchCreates

\* A wake changes nothing else of the run.
LEMMA WokenIsSame ==
    ASSUME JobsTyped, run' = Woken, UNCHANGED rows
    PROVE  /\ (run' # <<>>) <=> (run # <<>>)
           /\ run # <<>> => /\ R'.job = R.job /\ R'.pc = R.pc /\ R'.cancel = R.cancel /\ R'.stop = R.stop
                            /\ R'.sent = R.sent /\ R'.beforeFailed = R.beforeFailed
           /\ Ids' = Ids /\ (run # <<>> => Stage' = Stage /\ Late' = Late)
           /\ Tracking' = Tracking /\ Began' = Began
<1>1. CASE run = <<>>
  BY <1>1 DEF Woken, Ids, Tracking, Began
<1>2. CASE run # <<>>
  <2> DEFINE r == [R EXCEPT !.wake = TRUE]
  <2>1. /\ r \in RunRec /\ r.job = R.job /\ r.pc = R.pc /\ r.cancel = R.cancel /\ r.stop = R.stop
        /\ r.sent = R.sent /\ r.beforeFailed = R.beforeFailed /\ run' = [run EXCEPT ![1] = r]
    BY <1>2, RunAt DEF RunRec, Woken, R
  <2> HIDE DEF r
  <2>2. R' = r /\ run' # <<>>
    BY <1>2, <2>1, RunSet DEF R
  <2>3. Stage' = Stage /\ Late' = Late
    BY <2>1, <2>2 DEF Stage, Late
  <2> QED
    BY <1>2, <2>1, <2>2, <2>3 DEF Ids, Tracking, Began
<1> QED
  BY <1>1, <1>2

\* A report brings the view up to the printer.
LEMMA TellReport ==
    ASSUME JobsTyped, Told, Report
    PROVE  Told'
<1> DEFINE new == [gs |-> printer.gs, fresh |-> TRUE, name |-> printer.name, fed |-> printer.fed]
           edge == new.gs = "RUNNING" /\ view.gs \in {"IDLE", "PREPARE", "FINISH", "FAILED"}
           events == <<Delta>> \o (IF edge THEN <<Started(new)>> ELSE <<>>)
<1>1. /\ view' = new /\ watch' = [watch EXCEPT !.queue = Published(events)] /\ run' = Woken
      /\ view'.gs = view.gs \/ WatcherIdle
      /\ UNCHANGED <<rows, orphanCancels, printer, wire, printed, hits, world>>
  <2>1. Carry({"gs", "name", "fed"}) /\ (view'.gs = view.gs \/ WatcherIdle)
        /\ UNCHANGED <<rows, orphanCancels, printer, wire, printed, hits, world>>
    BY DEF Report, Told, BridgeOnly
  <2> QED
    BY <2>1 DEF Carry
<1>2. /\ view'.gs = printer.gs /\ view'.fresh /\ view'.fed = printer.fed /\ view'.name = printer.name
  BY <1>1
<1>3. /\ (run' # <<>>) <=> (run # <<>>)
      /\ run # <<>> => /\ R'.job = R.job /\ R'.pc = R.pc /\ R'.cancel = R.cancel /\ R'.stop = R.stop
                       /\ R'.sent = R.sent /\ R'.beforeFailed = R.beforeFailed
      /\ Ids' = Ids /\ (run # <<>> => Stage' = Stage /\ Late' = Late)
      /\ Tracking' = Tracking /\ Began' = Began
  BY <1>1, WokenIsSame
<1>4. Pending' = Pending /\ StartsSent' = StartsSent
  BY <1>1 DEF Pending, StartsSent
<1>5. AtRest' <=> printer.gs \notin Active /\ ~ Pending
  BY <1>1, <1>2, <1>4 DEF AtRest
<1>6. printer.gs \in GcodeState /\ (Tracking => run # <<>>) /\ (Began => run # <<>> /\ Tracking)
  BY DEF JobsTyped, PrinterTyped, Tracking, Began
<1>7. WatchTold'
  <2>1. events \in Seq(EventRec) /\ events # <<>> /\ (StartedIn(events) => edge) /\ ~ StartedIn(<<Delta>>)
    <3>1. Delta \in EventRec /\ <<Delta>> \in Seq(EventRec) /\ ~ StartedIn(<<Delta>>)
      BY DEF EventRec, Delta, StartedIn
    <3>2. CASE edge
      <4>1. new.gs = printer.gs /\ printer.print \in Prints /\ new.name \in Prints \cup {None, Unnamed}
        BY <3>2 DEF JobsTyped, PrinterTyped, Active
      <4> HIDE DEF new
      <4>2. Started(new) \in EventRec
        BY <4>1 DEF Started, Current, EventRec, None, Prints
      <4>3. <<Started(new)>> \in Seq(EventRec)
        BY <4>2
      <4>4. events \in Seq(EventRec) /\ Len(events) = 2
        BY <3>1, <3>2, <4>3, ConcatProperties
      <4> QED
        BY <3>1, <3>2, <4>4, EmptySeq
    <3>3. CASE ~ edge
      <4> HIDE DEF edge
      <4>1. events = <<Delta>>
        BY <3>1, <3>3, ConcatEmptySeq
      <4> QED
        BY <3>1, <3>3, <4>1, EmptySeq
    <3> QED
      BY <3>2, <3>3
  <2> HIDE DEF events
  <2>2. StartedIn(Published(events)) => StartedIn(watch.queue) \/ StartedIn(events)
    <3>1. watch.queue \in Seq(EventRec) /\ Tail(events) \in Seq(EventRec)
      BY <2>1, HeadTailProperties DEF JobsTyped, WatchTyped
    <3>2. StartedIn(Tail(events)) => StartedIn(events)
      BY <2>1, StartedTail
    <3> QED
      BY <2>1, <3>1, <3>2, StartedJoined DEF Published
  <2>3. /\ watch'.queue = Published(events) /\ watch'.pc = watch.pc /\ watch'.event = watch.event
        /\ watch'.todo = watch.todo
    BY <1>1 DEF JobsTyped, WatchTyped
  <2>4. WatcherIdle => ~ StartedIn(watch.queue) /\ watch.pc = "idle"
    BY DEF WatcherIdle, StartedIn
  <2>5. edge => printer.gs = "RUNNING" /\ Tracking
    BY DEF Told, WireTold, Active
  <2> HIDE DEF edge
  <2> QED
    BY <1>1, <1>2, <1>3, <2>1, <2>2, <2>3, <2>4, <2>5 DEF Told, WatchTold
<1> HIDE DEF new, edge, events
<1>8. TableTold' /\ HitsTold' /\ BridgeOnly' /\ orphanCancels' = {} /\ PrinterTold' /\ ViewTold'
  BY <1>1, <1>2, <1>3, Zenon DEF Told, TableTold, HitsTold, BridgeOnly, PrinterTold, ViewTold
<1>9. StageTold' /\ StopTold'
  BY <1>3 DEF Told, StageTold, StopTold
<1>10. RestTold'
  BY <1>1, <1>2, <1>3, <1>5 DEF Told, RestTold, AtRest
<1>11. WireTold'
  BY <1>1, <1>3, <1>4, <1>6 DEF Told, WireTold
<1>12. WaitTold'
  BY <1>1, <1>2, <1>3, <1>4, <1>5, <1>6 DEF Told, WaitTold, WireTold, Active
<1>13. BegunTold'
  BY <1>1, <1>2, <1>3, <1>6 DEF Told, BegunTold, WireTold, PrinterTold, JobLost
<1>14. BeganTold'
  BY <1>1, <1>2, <1>3, <1>4, <1>5, <1>6 DEF Told, BeganTold, BegunTold, WaitTold, PrinterTold, GcodeState, Active, Began
<1> QED
  BY <1>7, <1>8, <1>9, <1>10, <1>11, <1>12, <1>13, <1>14 DEF Told

\* The printer's own steps: the bridge's state is untouched.
LEMMA PrinterFrame ==
    ASSUME JobsTyped, Told, UNCHANGED <<rows, run, orphanCancels, watch, view>>, world'.events = world.events,
           printed \subseteq printed', WireTold', PrinterTold', HitsTold',
           ~ Tracking => AtRest', WaitTold', BegunTold', BeganTold'
    PROVE  Told'
<1>1. /\ R' = R /\ Stage' = Stage /\ Late' = Late /\ Ids' = Ids /\ Tracking' = Tracking /\ Began' = Began
  BY DEF R, Stage, Late, Ids, Tracking, Began
<1>2. TableTold'
  BY <1>1 DEF Told, TableTold
<1>3. StageTold' /\ StopTold' /\ ViewTold' /\ RestTold' /\ WatchTold' /\ BridgeOnly'
  BY <1>1 DEF Told, StageTold, StopTold, ViewTold, RestTold, WatchTold, BridgeOnly
<1> QED
  BY <1>2, <1>3 DEF Told

\* The printer takes what was sent first.
LEMMA TellCommand ==
    ASSUME JobsTyped, Told, TakeCommand
    PROVE  Told'
<1> DEFINE c == Head(wire)
<1>1. /\ wire # <<>> /\ wire' = Tail(wire) /\ UNCHANGED <<rows, run, orphanCancels, watch, view, printed, world>>
      /\ \/ /\ c.kind = "start" /\ printer.gs \notin Active /\ printer.next = None
            /\ printer' = [printer EXCEPT !.next = c.job] /\ hits' = hits
         \/ c.kind = "start" /\ UNCHANGED <<printer, hits>>
         \/ c.kind = "stop" /\ printer.gs \notin Active /\ UNCHANGED <<printer, hits>>
         \/ /\ c.kind = "stop" /\ printer.gs \in Active
            /\ printer' = [printer EXCEPT !.gs = "FAILED"]
            /\ hits' = hits \cup {<<c.job, printer.print>>}
  BY DEF TakeCommand
<1>2. /\ wire \in Seq(Wire) /\ Len(wire) \in Nat \ {0} /\ DOMAIN wire = 1 .. Len(wire) /\ c = wire[1] /\ c \in Wire
      /\ Tail(wire) \in Seq(Wire) /\ Len(Tail(wire)) = Len(wire) - 1
      /\ \A i \in 1 .. Len(wire) - 1 : Tail(wire)[i] = wire[i + 1]
      /\ DOMAIN Tail(wire) = 1 .. Len(wire) - 1
  <2>1. wire \in Seq(Wire)
    BY DEF JobsTyped, PrinterTyped
  <2> QED
    BY <1>1, <2>1, HeadTailProperties, EmptySeq, LenProperties
<1>3. /\ R' = R /\ Stage' = Stage /\ Late' = Late /\ Ids' = Ids /\ Tracking' = Tracking /\ Began' = Began
      /\ JobLost(view)' = JobLost(view)
  BY <1>1 DEF R, Stage, Late, Ids, Tracking, Began, JobLost
<1>4. printer.next = None
  BY <1>1 DEF Told, WireTold
<1>5. printer \in [gs : GcodeState, name : Prints \cup {None}, fed : BOOLEAN, print : Prints \cup {None},
                   next : Prints \cup {None}, panels : Nat]
  BY DEF JobsTyped, PrinterTyped
<1> HIDE DEF c
<1>6. \A i \in StartsSent' : i + 1 \in StartsSent /\ i + 1 \in 1 .. Len(wire) /\ wire'[i] = wire[i + 1]
  BY <1>1, <1>2 DEF StartsSent
<1>7. ASSUME c.kind = "start"
      PROVE  Tracking /\ c.job = R.job /\ wire' = <<>> /\ StartsSent' = {} /\ Pending
  <2>1. 1 \in StartsSent
    BY <1>2, <1>7 DEF StartsSent
  <2>2. Tracking /\ c.job = R.job /\ Len(wire) = 1 /\ Pending
    BY <1>2, <2>1 DEF Told, WireTold, Pending
  <2>3. wire' = <<>>
    BY <1>1, <1>2, <2>2, EmptySeq
  <2> QED
    BY <2>2, <2>3 DEF StartsSent
<1>8. CASE c.kind = "start"
  <2>1. Stage = "SUBMITTED" /\ ~ Began /\ view.gs \notin Active /\ printer.gs \notin Active /\ ~ Late
        /\ Tracking /\ c.job = R.job /\ wire' = <<>> /\ StartsSent' = {} /\ hits' = hits /\ Pending
        /\ (view.gs = "FAILED" => R.beforeFailed)
    BY <1>1, <1>7, <1>8 DEF Told, WaitTold, WireTold, Began
  <2>2. /\ printer'.gs = printer.gs /\ printer'.print = printer.print /\ printer'.fed = printer.fed
        /\ printer'.name = printer.name /\ printer'.next \in {None, R.job}
    BY <1>1, <1>4, <1>5, <1>8, <2>1
  <2>3. WireTold'
    BY <1>3, <2>1, <2>2 DEF WireTold
  <2>4. PrinterTold' /\ HitsTold' /\ BegunTold' /\ BeganTold'
    BY <1>1, <1>3, <2>1, <2>2 DEF Told, PrinterTold, HitsTold, BegunTold, BeganTold
  <2>5. WaitTold'
    BY <1>1, <1>3, <2>1, <2>2 DEF Told, WaitTold
  <2> QED
    BY <1>1, <2>1, <2>3, <2>4, <2>5, PrinterFrame
<1>9. CASE c.kind = "stop"
  <2>1. printer'.next = None
    BY <1>1, <1>4, <1>5, <1>9
  <2>2. Pending' => Pending
    BY <1>6, <2>1 DEF Pending
  <2>3. ASSUME NEW i \in StartsSent' PROVE i = Len(wire') /\ Tracking /\ wire'[i].job = R.job
    <3>1. i \in 1 .. Len(wire) - 1 /\ Len(wire') = Len(wire) - 1
      BY <1>1, <1>2 DEF StartsSent
    <3>2. i + 1 \in StartsSent /\ wire'[i] = wire[i + 1]
      BY <1>6
    <3>3. i + 1 = Len(wire) /\ Tracking /\ wire[i + 1].job = R.job
      BY <3>2 DEF Told, WireTold
    <3>4. i = Len(wire')
      <4>1. Len(wire) \in Nat /\ i \in Nat
        BY <1>2, <3>1
      <4> QED
        BY <3>1, <3>3, <4>1
    <3> QED
      BY <3>2, <3>3, <3>4, Zenon
  <2>4. CASE printer.gs \notin Active
    <3>1. UNCHANGED <<printer, hits>>
      BY <1>1, <1>9, <2>4
    <3>2. AtRest => AtRest'
      BY <1>1, <2>2, <3>1 DEF AtRest
    <3>3. WireTold' /\ PrinterTold' /\ HitsTold'
      BY <1>1, <1>3, <2>1, <2>3, <2>4, <3>1 DEF Told, WireTold, PrinterTold, HitsTold
    <3>4. WaitTold' /\ BegunTold' /\ BeganTold' /\ (~ Tracking => AtRest')
      BY <1>1, <1>3, <2>2, <2>4, <3>1, <3>2 DEF Told, WaitTold, BegunTold, BeganTold, RestTold
    <3> QED
      BY <1>1, <3>1, <3>3, <3>4, PrinterFrame
  <2>5. CASE printer.gs \in Active
    <3>1. /\ printer'.gs = "FAILED" /\ printer'.print = printer.print /\ printer'.fed = printer.fed
          /\ printer'.name = printer.name /\ hits' = hits \cup {<<c.job, printer.print>>}
      BY <1>1, <1>5, <1>9, <2>5
    <3>2. Tracking /\ printer.print = R.job /\ ~ Pending /\ c.job = R.job
      BY <1>2, <2>5 DEF Told, WireTold
    <3>3. R.job \in Ids
      BY <3>2, RunAt DEF Tracking
    <3>4. HitsTold'
      BY <1>3, <3>1, <3>2, <3>3 DEF Told, HitsTold
    <3>5. ~ Pending' /\ WireTold' /\ PrinterTold'
      BY <1>3, <2>1, <2>2, <2>3, <3>1, <3>2 DEF Told, WireTold, PrinterTold, Active
    <3>6. WaitTold'
      BY <1>1, <1>3, <2>5, <3>1, <3>2, <3>5 DEF Told, WaitTold
    <3>7. BeganTold' /\ BegunTold'
      BY <1>1, <1>3, <2>5, <3>1, <3>2, <3>5 DEF Told, BeganTold, BegunTold, AtRest, Active
    <3> QED
      BY <1>1, <3>2, <3>4, <3>5, <3>6, <3>7, PrinterFrame
  <2> QED
    BY <2>4, <2>5
<1> QED
  BY <1>1, <1>8, <1>9

\* The printer begins, goes on, ends, or loses its power.
LEMMA TellPrints ==
    ASSUME JobsTyped, Told, BeginPrint \/ Advance \/ EndPrint \/ PrinterPower
    PROVE  Told'
<1>1. /\ wire = <<>> /\ UNCHANGED <<rows, run, orphanCancels, watch, view, wire, hits>>
      /\ printed \subseteq printed'
  BY DEF BeginPrint, Advance, EndPrint, PrinterPower, Quiet
<1>2. world'.events = world.events
  BY OneFault DEF BeginPrint, Advance, EndPrint, PrinterPower, JobsTyped, WorldTyped
<1>3. /\ R' = R /\ Stage' = Stage /\ Late' = Late /\ Ids' = Ids /\ Tracking' = Tracking /\ Began' = Began
      /\ JobLost(view)' = JobLost(view) /\ StartsSent = {} /\ StartsSent' = {}
  BY <1>1 DEF R, Stage, Late, Ids, Tracking, Began, JobLost, StartsSent
<1>4. printer \in [gs : GcodeState, name : Prints \cup {None}, fed : BOOLEAN, print : Prints \cup {None},
                   next : Prints \cup {None}, panels : Nat]
  BY DEF JobsTyped, PrinterTyped
<1>5. HitsTold' /\ None = 0 /\ (Pending <=> printer.next # None) /\ (Pending' <=> printer'.next # None)
  BY <1>1, <1>3 DEF Told, HitsTold, None, Pending
<1>6. CASE BeginPrint
  <2>1. /\ printer.next # None /\ printer'.gs = "PREPARE" /\ printer'.print = printer.next /\ ~ printer'.fed
        /\ printer'.next = None
    BY <1>4, <1>6 DEF BeginPrint, Become
  <2>2. /\ Pending /\ Tracking /\ printer.next = R.job /\ Stage = "SUBMITTED" /\ view.gs \notin Active
        /\ ~ Late /\ (view.gs = "FAILED" => R.beforeFailed) /\ ~ Began /\ ~ Pending'
    BY <1>5, <2>1 DEF Told, WireTold, WaitTold, Began
  <2>3. WireTold' /\ PrinterTold'
    BY <1>1, <1>3, <2>1, <2>2 DEF WireTold, PrinterTold
  <2>4. WaitTold' /\ BegunTold' /\ BeganTold'
    BY <1>1, <1>3, <2>1, <2>2 DEF WaitTold, BegunTold, BeganTold
  <2> QED
    BY <1>1, <1>2, <1>5, <2>2, <2>3, <2>4, PrinterFrame
<1>7. CASE Advance
  <2>1. /\ printer.gs \in Active /\ printer'.gs \in Active /\ printer'.print = printer.print
        /\ printer'.next = printer.next /\ (printer.fed => printer'.fed) /\ printed' = printed
    BY <1>4, <1>7 DEF Advance, Active
  <2>2. /\ Tracking /\ printer.print = R.job /\ ~ Pending /\ ~ Pending'
    BY <1>5, <2>1 DEF Told, WireTold
  <2>3. WireTold' /\ PrinterTold'
    BY <1>1, <1>3, <1>5, <2>1, <2>2 DEF WireTold, PrinterTold, Active
  <2>4. WaitTold' /\ BegunTold' /\ BeganTold'
    BY <1>1, <1>3, <2>1, <2>2 DEF Told, WaitTold, BegunTold, BeganTold, AtRest, Active
  <2> QED
    BY <1>1, <1>2, <1>5, <2>2, <2>3, <2>4, PrinterFrame
<1>8. CASE EndPrint
  <2>1. /\ printer.gs \in Active /\ printer'.gs \in {"FINISH", "FAILED"} /\ printer'.print = printer.print
        /\ printer'.next = printer.next /\ printer'.fed = printer.fed
        /\ printer'.gs = "FINISH" => printed' = printed \cup {printer.print}
    BY <1>4, <1>8 DEF EndPrint, Active
  <2>2. /\ Tracking /\ printer.print = R.job /\ ~ Pending /\ ~ Pending'
    BY <1>5, <2>1 DEF Told, WireTold
  <2>3. WireTold' /\ PrinterTold'
    BY <1>1, <1>3, <1>5, <2>1, <2>2 DEF WireTold, PrinterTold, Active
  <2>4. WaitTold'
    BY <1>1, <1>3, <2>1, <2>2 DEF Told, WaitTold, Active
  <2>5. BegunTold' /\ BeganTold'
    BY <1>1, <1>3, <2>1, <2>2 DEF Told, BegunTold, BeganTold, AtRest, Active
  <2> QED
    BY <1>1, <1>2, <1>5, <2>2, <2>3, <2>4, <2>5, PrinterFrame
<1>9. CASE PrinterPower
  <2>1. /\ printer'.gs = "IDLE" /\ printer'.name = None /\ printer'.next = None /\ printed' = printed
    BY <1>4, <1>9 DEF PrinterPower, Become
  <2>2. ~ Pending' /\ AtRest'
    BY <1>1, <1>5, <2>1 DEF AtRest, Active
  <2>3. WireTold' /\ PrinterTold'
    BY <1>1, <1>3, <1>5, <2>1, <2>2 DEF WireTold, PrinterTold, Active
  <2>4. WaitTold' /\ BegunTold' /\ BeganTold'
    BY <1>1, <1>3, <2>1, <2>2 DEF Told, WaitTold, BegunTold, BeganTold, Active
  <2> QED
    BY <1>1, <1>2, <1>5, <2>2, <2>3, <2>4, PrinterFrame
<1> QED
  BY <1>6, <1>7, <1>8, <1>9

\* One step of any actor.
LEMMA TellStep == JobsTyped /\ Told /\ [JobsNext]_vars => Told'
<1> SUFFICES ASSUME JobsTyped, Told, [JobsNext]_vars PROVE Told'
  OBVIOUS
<1>1. CASE UNCHANGED vars
  <2>1. UNCHANGED <<rows, run, orphanCancels, watch, view, printer, wire, printed, hits, world>>
    BY <1>1 DEF vars
  <2>2. Tracking' = Tracking
    BY <2>1 DEF Tracking, R
  <2>3. WatchTold'
    BY <2>1, <2>2 DEF Told, WatchTold
  <2> QED
    BY <2>1, <2>3, WatchFrame
<1>2. CASE RunSteps
  BY <1>2, TellTakes, TellSends, TellStops, TellReads, TellNotices DEF RunSteps
<1>3. \A j \in Ids : ~ CancelRun(j) /\ ~ CancelOrphan(j)
  BY DEF CancelRun, CancelOrphan, Told, BridgeOnly
<1>4. ~ Reconnect /\ ~ BridgeRestart /\ ~ PanelStart
  BY DEF Reconnect, BridgeRestart, PanelStart, Told, BridgeOnly
<1>5. CASE JobsNext
  BY <1>2, <1>3, <1>4, <1>5, TellNotices, TellSubmit, TellElapse, TellWatches, TellReport, TellCommand, TellPrints
     DEF JobsNext
<1> QED
  BY <1>1, <1>5

\* The world a behaviour begins in is the one it stays in.
LEMMA EventsStay == JobsTyped /\ [JobsNext]_vars => world'.events = world.events /\ world'.jobs = world.jobs
<1> SUFFICES ASSUME JobsTyped, [JobsNext]_vars PROVE world'.events = world.events /\ world'.jobs = world.jobs
  OBVIOUS
<1>1. world' = world \/ world' = [world EXCEPT !.faults = @ - 1]
  BY Zenon DEF JobsNext, vars, RunSteps, WatchSteps, Submit, RunStarts, RunRefused, RunBegins, UploadFails, UploadEnds,
     SendStart, StartNotSent, TrackNoStop, TrackStop, TrackStopFails, TrackRead, TrackWakes, FeedOverdue, Spaghetti,
     Elapse, CancelRun, CancelOrphan, WatchTakes, WatchLists, WatchCloses, WatchLooks, WatchCreates, Overflow, Report,
     Reconnect, BridgeRestart, TakeCommand, BeginPrint, Advance, EndPrint, PrinterPower, PanelStart
<1> QED
  BY <1>1 DEF JobsTyped, WorldTyped

\* An empty table and a printer at rest.
LEMMA TellInit == JobsInit /\ BridgeOnly => Told
<1> SUFFICES ASSUME JobsInit, BridgeOnly PROVE Told
  OBVIOUS
<1>1. /\ rows = <<>> /\ run = <<>> /\ orphanCancels = {} /\ watch = Idle /\ view = Unseen /\ wire = <<>> /\ hits = {}
      /\ printer.gs = "IDLE" /\ printer.name = None /\ printer.next = None
  BY DEF JobsInit
<1>2. Ids = {} /\ ~ Tracking /\ ~ Began /\ StartsSent = {}
  BY <1>1 DEF Ids, Tracking, Began, StartsSent
<1>3. TableTold /\ StageTold /\ StopTold /\ HitsTold
  BY <1>1, <1>2 DEF TableTold, StageTold, StopTold, HitsTold
<1>4. WatchTold /\ ViewTold
  BY <1>1, <1>2 DEF WatchTold, ViewTold, StartedIn, Idle, Unseen
<1>5. RestTold /\ WireTold /\ PrinterTold
  BY <1>1, <1>2 DEF RestTold, WireTold, PrinterTold, AtRest, Pending, Active, Unseen
<1>6. WaitTold /\ BegunTold /\ BeganTold
  BY <1>2 DEF WaitTold, BegunTold, BeganTold
<1> QED
  BY <1>1, <1>3, <1>4, <1>5, <1>6 DEF Told

\* What the invariant gives for the properties.
LEMMA ToldIsSound == JobsTyped /\ JobTypeOK /\ Told => JobsSound /\ OneRowPerPrint /\ CanceledJobIsOver
<1> SUFFICES ASSUME JobsTyped, JobTypeOK, Told PROVE JobsSound /\ OneRowPerPrint /\ CanceledJobIsOver
  OBVIOUS
<1>1. \A j \in Ids : ~ rows[j].external /\ rows[j].print = j /\ rows[j].state \in JobState
  BY RowsAt DEF Told, TableTold
<1>2. OneRowPerPrint /\ CompletedWasPrinted /\ StopHitsItsPrint
  BY <1>1 DEF OneRowPerPrint, CompletedWasPrinted, StopHitsItsPrint, Told, TableTold, HitsTold
<1>3. ASSUME NEW j \in Ids, AtWork(j)
      PROVE  Tracking /\ R.job = j /\ Stage = rows[j].state /\ Stage \in Live
  <2>1. j # None
    BY RowsAt DEF None
  <2>2. Tracking /\ R.job = j
    <3>1. CASE printer.gs \in Active /\ printer.print = j
      BY <3>1 DEF Told, WireTold
    <3>2. CASE printer.next = j
      BY <2>1, <3>2 DEF Told, WireTold
    <3>3. CASE \E i \in DOMAIN wire : wire[i] = Command("start", j)
      BY <3>3 DEF Told, WireTold, StartsSent, Command
    <3> QED
      BY <1>3, <3>1, <3>2, <3>3 DEF AtWork
  <2> QED
    BY <2>2 DEF Stage, Told, StageTold, Tracking
<1>4. EndedJobIsOver /\ CanceledJobIsOver
  BY <1>1, <1>3 DEF EndedJobIsOver, CanceledJobIsOver, Terminal, Live
<1>5. PrintingMadeProgress
  <2> SUFFICES ASSUME NEW j \in JobsOf(rows), rows[j].state = "PRINTING", AtWork(j)
               PROVE  printer.print = j /\ printer.fed
    BY DEF PrintingMadeProgress
  <2>1. j \in Ids /\ j # None
    BY RowsAt DEF JobsOf, Ids, None
  <2>2. Tracking /\ R.job = j /\ Stage = "PRINTING" /\ Began
    BY <1>3, <2>1 DEF Began
  <2>3. ~ Pending
    BY <2>2 DEF Told, WaitTold
  <2>4. printer.gs \in Active /\ printer.print = j
    BY <2>1, <2>3 DEF AtWork, Pending, StartsSent, Command
  <2> QED
    BY <2>2, <2>4 DEF Told, BeganTold
<1> QED
  BY <1>2, <1>4, <1>5 DEF JobsSound

\* In a world of the bridge's own jobs, one after the other, each one's row tells of its own print:
\* it is COMPLETED only if that was printed, ended only when it is over, PRINTING only with progress,
\* and a stop the watchdogs send meets it; no print has two rows. For any number of jobs and faults:
\* starts ignored, refused or not sent, power failures, an overfull bus.
THEOREM BridgeJobsAreSound == JobsSpec => [](BridgeOnly => JobsSound /\ OneRowPerPrint /\ CanceledJobIsOver)
<1>1. JobsInit => (BridgeOnly => Told)
  BY TellInit
<1>2. JobsTyped /\ (BridgeOnly => Told) /\ [JobsNext]_vars => (BridgeOnly => Told)'
  <2>1. JobsTyped /\ [JobsNext]_vars /\ BridgeOnly' => BridgeOnly
    BY EventsStay DEF BridgeOnly
  <2> QED
    BY <2>1, TellStep
<1>3. JobsTyped /\ JobTypeOK /\ (BridgeOnly => Told) => (BridgeOnly => JobsSound /\ OneRowPerPrint /\ CanceledJobIsOver)
  BY ToldIsSound
<1> QED
  BY <1>1, <1>2, <1>3, TypedHolds, JobTypes, PTL DEF JobsSpec

-----------------------------------------------------------------------------
(* Prints from the panel, which the watcher follows.                         *)

\* Every print is started at the panel, and its reports come whole. The bridge may be restarted or
\* reconnected at any time, the power may fail, rows may be canceled, events may be dropped.
PanelOnly == world.jobs = 0 /\ "split" \notin world.events

Latest == MaxRows + printer.panels
IsAtWork(print) == printer.gs \in Active /\ printer.print = print

StartedAt(queue) == {i \in DOMAIN queue : queue[i].kind = "print_started"}
Held == watch.pc # "idle" /\ watch.event.kind = "print_started"

\* An event that a print has started is about the print the view shows, which has no row yet.
Announces(event) ==
    /\ view.gs = "RUNNING" /\ event.name = view.name /\ event.print = view.name
    /\ view.name \in 1 .. Latest
    /\ \A j \in Ids : rows[j].print # view.name
    /\ IsAtWork(view.name) => printer.gs = "RUNNING"

\* A row is of a print of the past or of the one at work; ended, of one of the past.
RowsShown ==
    \A j \in Ids : /\ rows[j].external /\ rows[j].name = rows[j].print /\ rows[j].print \in 1 .. Latest
                   /\ rows[j].state \in Live \cup Terminal
                   /\ rows[j].state = "COMPLETED" => rows[j].print \in printed
                   /\ rows[j].state \in Terminal => ~ IsAtWork(rows[j].print)
                   /\ IsAtWork(rows[j].print) => printer.gs = "RUNNING" /\ view.gs \in {"RUNNING", "UNKNOWN"}

\* The printer has the name of its latest print until it loses its power.
PrinterShown == /\ printer.next = None
                /\ IF printer.gs = "IDLE" THEN printer.name = None
                   ELSE printer.name = printer.print /\ printer.print = Latest /\ Latest \in Prints
                /\ printer.gs = "FINISH" => printer.print \in printed
Shows(v) == v.gs \in {"PREPARE", "RUNNING", "FINISH", "FAILED"} =>
                v.name \in 1 .. Latest /\ v.name \in Prints /\ (v.gs = "FINISH" => v.name \in printed)

\* A view is of a print there has been; a view of one at work, beside a printer at work, of the same.
ViewShown == /\ Shows(view) /\ Shows(watch.view)
             /\ view.gs \in Active /\ printer.gs \in Active => printer.print = view.name

\* One start at most waits for the watcher or is in its hands.
EventsShown == /\ \A i \in StartedAt(watch.queue) : Announces(watch.queue[i])
               /\ \A i, k \in StartedAt(watch.queue) : i = k
               /\ Held => Announces(watch.event) /\ StartedAt(watch.queue) = {}

\* The view the watcher closes rows by is still the one it took.
ListShown == watch.pc \in {"list", "close"} =>
                /\ watch.view.gs = view.gs /\ view.gs # "UNKNOWN"
                /\ view.gs \in Active => watch.view.name = view.name

\* A stop on its way is of the print at work, if one is.
WireShown == \A i \in DOMAIN wire : /\ wire[i].kind = "stop" /\ wire[i].job \in Ids
                                    /\ printer.gs \in Active => rows[wire[i].job].print = printer.print
HitsShown == \A hit \in hits : hit[1] \in Ids /\ hit[2] = rows[hit[1]].print

Shown == /\ run = <<>> /\ PanelOnly /\ OneRowPerPrint
         /\ RowsShown /\ PrinterShown /\ ViewShown /\ EventsShown /\ ListShown /\ WireShown /\ HitsShown

\* No row, and a printer at rest.
LEMMA ShownInit == JobsInit /\ PanelOnly => Shown
<1> SUFFICES ASSUME JobsInit, PanelOnly PROVE Shown
  OBVIOUS
<1>1. /\ rows = <<>> /\ run = <<>> /\ watch = Idle /\ view = Unseen /\ wire = <<>> /\ hits = {}
      /\ printer.gs = "IDLE" /\ printer.name = None /\ printer.next = None
  BY DEF JobsInit
<1>2. Ids = {} /\ DOMAIN wire = {} /\ StartedAt(watch.queue) = {} /\ ~ Held
  BY <1>1 DEF Ids, StartedAt, Held, Idle
<1>3. RowsShown /\ OneRowPerPrint /\ EventsShown /\ WireShown /\ HitsShown
  BY <1>1, <1>2 DEF RowsShown, OneRowPerPrint, EventsShown, WireShown, HitsShown
<1>4. PrinterShown /\ ViewShown /\ ListShown
  BY <1>1 DEF PrinterShown, ViewShown, ListShown, Shows, Unseen, Idle, Active
<1> QED
  BY <1>1, <1>3, <1>4 DEF Shown

\* The constants and counters, as numbers.
LEMMA Numbers ==
    ASSUME JobsTyped
    PROVE  /\ MaxRows \in Nat \ {0} /\ MaxPanel \in Nat /\ printer.panels \in Nat /\ Latest \in Nat
           /\ Prints = 1 .. MaxRows + MaxPanel /\ None = 0 /\ world.panel \in 0 .. MaxPanel
           /\ PanelPrints = MaxRows + 1 .. MaxRows + MaxPanel
BY JobsAssumption DEF JobsTyped, WorldTyped, PrinterTyped, Latest, Prints, None, PanelPrints

\* Steps of the printer, and of the wire.
LEMMA PrinterShows ==
    ASSUME JobsTyped, Shown, UNCHANGED <<rows, run, watch, view>>, PanelOnly', printed \subseteq printed',
           printer'.panels >= printer.panels, printer'.panels \in Nat,
           PrinterShown', WireShown', HitsShown',
           printer'.gs \in Active =>
             \/ printer'.print = printer.print /\ printer.gs \in Active /\ (printer.gs = "RUNNING" => printer'.gs = "RUNNING")
             \/ printer'.print > Latest /\ view.gs \notin Active
    PROVE  Shown'
<1>1. Ids' = Ids /\ Held' = Held /\ StartedAt(watch.queue)' = StartedAt(watch.queue)
      /\ 1 .. Latest \subseteq 1 .. Latest' /\ Latest \in Nat /\ Latest' \in Nat
  BY Numbers, JobsAssumption DEF Ids, Held, StartedAt, Latest
<1>2. OneRowPerPrint' /\ run' = <<>> /\ ListShown'
  BY <1>1 DEF Shown, OneRowPerPrint, ListShown
<1>3. RowsShown'
  <2> SUFFICES ASSUME NEW j \in Ids
               PROVE  /\ rows[j].external /\ rows[j].name = rows[j].print /\ rows[j].print \in 1 .. Latest'
                      /\ rows[j].state \in Live \cup Terminal
                      /\ rows[j].state = "COMPLETED" => rows[j].print \in printed'
                      /\ rows[j].state \in Terminal => ~ IsAtWork(rows[j].print)'
                      /\ IsAtWork(rows[j].print)' => printer'.gs = "RUNNING" /\ view.gs \in {"RUNNING", "UNKNOWN"}
    BY <1>1, Zenon DEF RowsShown, IsAtWork
  <2>1. /\ rows[j].external /\ rows[j].name = rows[j].print /\ rows[j].print \in 1 .. Latest
        /\ rows[j].state \in Live \cup Terminal
        /\ rows[j].state = "COMPLETED" => rows[j].print \in printed
        /\ rows[j].state \in Terminal => ~ IsAtWork(rows[j].print)
        /\ IsAtWork(rows[j].print) => printer.gs = "RUNNING" /\ view.gs \in {"RUNNING", "UNKNOWN"}
    BY DEF Shown, RowsShown
  <2>2. IsAtWork(rows[j].print)' => IsAtWork(rows[j].print) /\ (printer.gs = "RUNNING" => printer'.gs = "RUNNING")
    BY <1>1, <2>1 DEF IsAtWork
  <2> QED
    BY <1>1, <2>1, <2>2
<1>4. ViewShown'
  <2>1. view.gs \in Active /\ printer'.gs \in Active => printer'.print = view.name
    BY DEF Shown, ViewShown
  <2> QED
    BY <1>1, <2>1 DEF Shown, ViewShown, Shows
<1>5. EventsShown'
  <2>1. \A event : Announces(event) => Announces(event)'
    BY <1>1 DEF Announces, IsAtWork, Active
  <2> QED
    BY <1>1, <2>1 DEF Shown, EventsShown
<1> QED
  BY <1>2, <1>3, <1>4, <1>5 DEF Shown

\* The printer begins, goes on, ends, loses its power, or is started at its panel.
LEMMA PrintsShow ==
    ASSUME JobsTyped, Shown, PanelOnly', BeginPrint \/ Advance \/ EndPrint \/ PrinterPower \/ PanelStart
    PROVE  Shown'
<1>1. /\ wire = <<>> /\ UNCHANGED <<rows, run, watch, view, wire, hits>> /\ printed \subseteq printed'
  BY DEF BeginPrint, Advance, EndPrint, PrinterPower, PanelStart, Quiet
<1>2. Ids' = Ids
  BY <1>1 DEF Ids
<1>3. WireShown' /\ HitsShown'
  BY <1>1, <1>2 DEF Shown, WireShown, HitsShown
<1>4. printer \in [gs : GcodeState, name : Prints \cup {None}, fed : BOOLEAN, print : Prints \cup {None},
                   next : Prints \cup {None}, panels : Nat]
  BY DEF JobsTyped, PrinterTyped
<1>5. ~ BeginPrint
  BY DEF BeginPrint, Shown, PrinterShown
<1>6. CASE Advance
  <2>1. /\ printer.gs \in Active /\ printer'.gs = "RUNNING" /\ printer'.print = printer.print
        /\ printer'.name = printer.name /\ printer'.next = printer.next /\ printer'.panels = printer.panels
    BY <1>4, <1>6 DEF Advance, Active
  <2>2. PrinterShown'
    BY <2>1 DEF Shown, PrinterShown, Latest, Active
  <2> QED
    BY <1>1, <1>3, <2>1, <2>2, Numbers, PrinterShows
<1>7. CASE EndPrint
  <2>1. /\ printer.gs \in Active /\ printer'.gs \in {"FINISH", "FAILED"} /\ printer'.print = printer.print
        /\ printer'.name = printer.name /\ printer'.next = printer.next /\ printer'.panels = printer.panels
        /\ printer'.gs = "FINISH" => printed' = printed \cup {printer.print}
    BY <1>4, <1>7 DEF EndPrint, Active
  <2>2. PrinterShown'
    BY <2>1 DEF Shown, PrinterShown, Latest, Active
  <2> QED
    BY <1>1, <1>3, <2>1, <2>2, Numbers, PrinterShows DEF Active
<1>8. CASE PrinterPower
  <2>1. None \notin PanelPrints
    BY Numbers
  <2>2. /\ printer'.gs = "IDLE" /\ printer'.name = None /\ printer'.next = None /\ printer'.panels = printer.panels
    BY <1>4, <1>8, <2>1, Numbers DEF PrinterPower, Become
  <2>3. PrinterShown'
    BY <2>2 DEF PrinterShown
  <2> QED
    BY <1>1, <1>3, <2>2, <2>3, Numbers, PrinterShows DEF Active
<1>9. CASE PanelStart
  <2> DEFINE p == MaxRows + printer.panels + 1
  <2>1. p \in PanelPrints /\ p \in Prints /\ p > Latest /\ view.gs \notin Active
    BY <1>9, Numbers DEF PanelStart, Latest
  <2>2. /\ printer'.gs = "PREPARE" /\ printer'.name = p /\ printer'.print = p /\ printer'.next = None
        /\ printer'.panels = printer.panels + 1
    BY <1>4, <1>9, <2>1 DEF PanelStart, Become, NameOf
  <2>3. PrinterShown'
    BY <2>1, <2>2, Numbers DEF PrinterShown, Latest
  <2> QED
    BY <1>1, <1>3, <2>1, <2>2, <2>3, Numbers, PrinterShows
<1> QED
  BY <1>5, <1>6, <1>7, <1>8, <1>9

\* The printer takes a stop.
LEMMA CommandShows ==
    ASSUME JobsTyped, Shown, PanelOnly', TakeCommand
    PROVE  Shown'
<1> DEFINE c == Head(wire)
<1>1. /\ wire # <<>> /\ wire' = Tail(wire) /\ UNCHANGED <<rows, run, watch, view, printed>>
      /\ \/ c.kind = "start"
         \/ c.kind = "stop" /\ printer.gs \notin Active /\ UNCHANGED <<printer, hits>>
         \/ /\ c.kind = "stop" /\ printer.gs \in Active
            /\ printer' = [printer EXCEPT !.gs = "FAILED"]
            /\ hits' = hits \cup {<<c.job, printer.print>>}
  BY DEF TakeCommand
<1>2. /\ wire \in Seq(Wire) /\ Len(wire) \in Nat \ {0} /\ DOMAIN wire = 1 .. Len(wire) /\ c = wire[1]
      /\ \A i \in 1 .. Len(wire) - 1 : Tail(wire)[i] = wire[i + 1]
      /\ DOMAIN Tail(wire) = 1 .. Len(wire) - 1
  <2>1. wire \in Seq(Wire)
    BY DEF JobsTyped, PrinterTyped
  <2> QED
    BY <1>1, <2>1, HeadTailProperties, EmptySeq, LenProperties
<1>3. c.kind = "stop" /\ c.job \in Ids /\ (printer.gs \in Active => rows[c.job].print = printer.print)
  BY <1>2 DEF Shown, WireShown
<1>4. Ids' = Ids
  BY <1>1 DEF Ids
<1>5. printer \in [gs : GcodeState, name : Prints \cup {None}, fed : BOOLEAN, print : Prints \cup {None},
                   next : Prints \cup {None}, panels : Nat]
  BY DEF JobsTyped, PrinterTyped
<1> HIDE DEF c
<1>6. \A i \in DOMAIN wire' : i + 1 \in DOMAIN wire /\ wire'[i] = wire[i + 1]
  BY <1>1, <1>2
<1>7. CASE printer.gs \notin Active
  <2>1. UNCHANGED <<printer, hits>>
    BY <1>1, <1>3, <1>7
  <2>2. WireShown' /\ HitsShown' /\ PrinterShown'
    BY <1>1, <1>4, <1>6, <1>7, <2>1 DEF Shown, WireShown, HitsShown, PrinterShown, Latest
  <2> QED
    BY <1>1, <1>7, <2>1, <2>2, Numbers, PrinterShows
<1>8. CASE printer.gs \in Active
  <2>1. /\ printer'.gs = "FAILED" /\ printer'.print = printer.print /\ printer'.name = printer.name
        /\ printer'.next = printer.next /\ printer'.panels = printer.panels
        /\ hits' = hits \cup {<<c.job, printer.print>>}
    BY <1>1, <1>3, <1>5, <1>8
  <2>2. PrinterShown'
    BY <1>8, <2>1 DEF Shown, PrinterShown, Latest, Active
  <2>3. HitsShown'
    BY <1>1, <1>3, <1>4, <1>8, <2>1 DEF Shown, HitsShown
  <2>4. WireShown'
    BY <1>1, <1>4, <1>6, <2>1 DEF Shown, WireShown, Active
  <2> QED
    BY <1>1, <2>1, <2>2, <2>3, <2>4, Numbers, PrinterShows DEF Active
<1> QED
  BY <1>7, <1>8

\* Someone cancels a row: the stop is sent for the print the view shows.
LEMMA CancelShows ==
    ASSUME JobsTyped, Shown, PanelOnly', NEW j \in Ids, CancelOrphan(j)
    PROVE  Shown'
<1> DEFINE stop == Command("stop", j)
<1>1. /\ wire' = Append(wire, stop) /\ PrintingIt(j)
      /\ UNCHANGED <<rows, run, watch, view, printer, printed, hits, world>>
  BY DEF CancelOrphan
<1>2. wire \in Seq(Wire) /\ stop \in Wire /\ stop.kind = "stop" /\ stop.job = j
  BY RowsAt DEF JobsTyped, PrinterTyped, Command, Wire
<1> HIDE DEF stop
<1>3. /\ DOMAIN wire = 1 .. Len(wire) /\ DOMAIN wire' = 1 .. Len(wire) + 1 /\ Len(wire) \in Nat
      /\ \A i \in 1 .. Len(wire) : wire'[i] = wire[i]
      /\ wire'[Len(wire) + 1] = stop
  BY <1>1, <1>2, AppendProperties, LenProperties
<1>4. printer.gs \in Active => rows[j].print = printer.print
  <2>1. view.gs \in Active /\ Current(view) = rows[j].name /\ rows[j].name = rows[j].print
    BY <1>1 DEF PrintingIt, Gs, Active, Shown, RowsShown
  <2>2. view.name \in Prints
    BY <2>1 DEF Shown, ViewShown, Shows, Active
  <2> QED
    BY <2>1, <2>2 DEF Current, Shown, ViewShown
<1>5. Ids' = Ids
  BY <1>1 DEF Ids
<1>6. WireShown'
  BY <1>1, <1>2, <1>3, <1>4, <1>5 DEF Shown, WireShown
<1>7. HitsShown' /\ PrinterShown'
  BY <1>1, <1>5 DEF Shown, HitsShown, PrinterShown, Latest
<1> QED
  BY <1>1, <1>6, <1>7, Numbers, PrinterShows

\* Nothing starts, and nothing that has started is looked at anew.
LEMMA ViewShows ==
    ASSUME JobsTyped, Shown, UNCHANGED <<rows, orphanCancels, printer, wire, printed, hits>>, run' = <<>>, PanelOnly',
           Shows(view)', Shows(watch.view)', EventsShown', ListShown',
           view'.gs \in Active /\ printer.gs \in Active => printer.print = view'.name,
           \A j \in Ids : IsAtWork(rows[j].print) => view'.gs \in {"RUNNING", "UNKNOWN"}
    PROVE  Shown'
<1>1. Ids' = Ids /\ Latest' = Latest
  BY DEF Ids, Latest
<1>2. OneRowPerPrint' /\ PrinterShown' /\ WireShown' /\ HitsShown' /\ ViewShown'
  BY <1>1 DEF Shown, OneRowPerPrint, PrinterShown, WireShown, HitsShown, ViewShown
<1>3. RowsShown'
  BY <1>1 DEF Shown, RowsShown, IsAtWork
<1> QED
  BY <1>2, <1>3 DEF Shown

\* What is waiting for the watcher, after a change is published.
LEMMA DeltaWaits ==
    ASSUME JobsTyped
    PROVE  /\ StartedAt(Published(<<Delta>>)) = StartedAt(watch.queue)
           /\ \A i \in StartedAt(watch.queue) : Published(<<Delta>>)[i] = watch.queue[i]
           /\ Published(<<Delta>>) \in Seq(EventRec)
<1>1. watch.queue \in Seq(EventRec) /\ Delta \in EventRec /\ Delta.kind # "print_started"
  BY DEF JobsTyped, WatchTyped, EventRec, Delta
<1>2. CASE Published(<<Delta>>) = watch.queue \o Tail(<<Delta>>)
  <2>1. Tail(<<Delta>>) = <<>>
    OBVIOUS
  <2>2. Published(<<Delta>>) = watch.queue
    BY <1>1, <1>2, <2>1, ConcatEmptySeq
  <2> QED
    BY <1>1, <2>2
<1>3. CASE Published(<<Delta>>) = watch.queue \o <<Delta>>
  <2>1. watch.queue \o <<Delta>> = Append(watch.queue, Delta)
    BY <1>1, AppendIsConcat
  <2>2. /\ Published(<<Delta>>) \in Seq(EventRec) /\ DOMAIN Published(<<Delta>>) = 1 .. Len(watch.queue) + 1
        /\ Len(watch.queue) \in Nat /\ DOMAIN watch.queue = 1 .. Len(watch.queue)
        /\ \A i \in 1 .. Len(watch.queue) : Published(<<Delta>>)[i] = watch.queue[i]
        /\ Published(<<Delta>>)[Len(watch.queue) + 1] = Delta
    <3> DEFINE q == Published(<<Delta>>)
    <3>1. q = Append(watch.queue, Delta)
      BY <1>3, <2>1, Zenon
    <3> HIDE DEF q
    <3>2. /\ q \in Seq(EventRec) /\ Len(q) = Len(watch.queue) + 1
          /\ \A i \in 1 .. Len(watch.queue) : q[i] = watch.queue[i]
          /\ q[Len(watch.queue) + 1] = Delta
      BY <1>1, <3>1, AppendProperties
    <3>3. DOMAIN q = 1 .. Len(watch.queue) + 1 /\ Len(watch.queue) \in Nat
          /\ DOMAIN watch.queue = 1 .. Len(watch.queue)
      BY <1>1, <3>2, LenProperties
    <3> QED
      BY <3>2, <3>3 DEF q
  <2> QED
    BY <1>1, <2>2 DEF StartedAt
<1> QED
  BY <1>2, <1>3 DEF Published

\* A report brings the view up to the printer.
LEMMA ReportShows ==
    ASSUME JobsTyped, Shown, PanelOnly', Report
    PROVE  Shown'
<1> DEFINE new == [gs |-> printer.gs, fresh |-> TRUE, name |-> printer.name, fed |-> printer.fed]
           edge == new.gs = "RUNNING" /\ view.gs \in {"IDLE", "PREPARE", "FINISH", "FAILED"}
           events == <<Delta>> \o (IF edge THEN <<Started(new)>> ELSE <<>>)
<1>1. /\ view' = new /\ watch' = [watch EXCEPT !.queue = Published(events)] /\ run' = <<>>
      /\ view'.gs = view.gs \/ WatcherIdle
      /\ UNCHANGED <<rows, orphanCancels, printer, wire, printed, hits>>
  <2>1. Carry({"gs", "name", "fed"}) /\ (view'.gs = view.gs \/ WatcherIdle)
        /\ UNCHANGED <<rows, orphanCancels, printer, wire, printed, hits>>
    BY DEF Report, Shown, PanelOnly
  <2> QED
    BY <2>1 DEF Carry, Woken, Shown
<1>2. /\ view'.gs = printer.gs /\ view'.name = printer.name
      /\ watch'.queue = Published(events) /\ watch'.pc = watch.pc /\ watch'.event = watch.event
      /\ watch'.view = watch.view
  BY <1>1 DEF JobsTyped, WatchTyped
<1>3. /\ printer.gs \in GcodeState /\ (printer.gs = "IDLE" => printer.name = None)
      /\ printer.gs # "IDLE" => printer.name = printer.print /\ printer.print = Latest /\ Latest \in Prints
      /\ printer.gs = "FINISH" => printer.print \in printed
      /\ Latest \in Nat /\ Prints = 1 .. MaxRows + MaxPanel /\ Latest' = Latest /\ Ids' = Ids /\ Held' = Held
  BY <1>1, <1>2, Numbers DEF Shown, PrinterShown, JobsTyped, PrinterTyped, Latest, Ids, Held
<1>4. Shows(view)' /\ Shows(watch.view)'
  BY <1>1, <1>2, <1>3 DEF Shown, ViewShown, Shows
<1>5. view'.gs \in Active /\ printer.gs \in Active => printer.print = view'.name
  BY <1>2, <1>3 DEF Active
<1>6. \A j \in Ids : IsAtWork(rows[j].print) => printer.gs = "RUNNING" /\ view.gs \in {"RUNNING", "UNKNOWN"}
  BY DEF Shown, RowsShown
<1>7. view.gs = "RUNNING" /\ view'.gs = view.gs => view'.name = view.name
  BY <1>2, <1>3 DEF Shown, ViewShown, Active
<1>8. ListShown'
  <2>1. WatcherIdle => watch.pc = "idle"
    BY DEF WatcherIdle
  <2>2. view.gs \in Active /\ view'.gs = view.gs => view'.name = view.name
    BY <1>2, <1>3 DEF Shown, ViewShown, Active
  <2> QED
    BY <1>1, <1>2, <2>1, <2>2 DEF Shown, ListShown
<1>9. EventsShown'
  <2>1. CASE edge
    <3>1. WatcherIdle /\ ~ Held
      BY <1>1, <1>2, <2>1 DEF WatcherIdle, Held
    <3>2. printer.gs = "RUNNING" /\ printer.print \in Prints /\ new.name = printer.print /\ Current(new) = printer.print
          /\ printer.print # None
      BY <1>3, <2>1, Numbers DEF Current
    <3>3. Started(new) = [kind |-> "print_started", name |-> printer.print, print |-> printer.print]
      BY <3>2 DEF Started
    <3> HIDE DEF new
    <3>4. watch'.queue = <<Delta>> \o <<Started(new)>>
      <4>1. watch.queue = <<>> /\ <<Delta>> \in Seq(EventRec) /\ <<Started(new)>> \in Seq(EventRec)
        BY <3>1, <3>2, <3>3 DEF WatcherIdle, EventRec
      <4>2. Published(events) = watch.queue \o events
        BY <4>1 DEF Published
      <4> QED
        BY <1>2, <2>1, <4>1, <4>2, ConcatProperties, ConcatEmptySeq
    <3>5. StartedAt(watch'.queue) = {2} /\ watch'.queue[2] = Started(new)
      <4>1. <<Delta>> \in Seq(EventRec) /\ <<Started(new)>> \in Seq(EventRec)
        BY <3>2, <3>3 DEF EventRec
      <4>2. /\ watch'.queue \in Seq(EventRec) /\ Len(watch'.queue) = 2
            /\ watch'.queue[1] = Delta /\ watch'.queue[2] = Started(new)
        BY <3>4, <4>1, ConcatProperties
      <4>3. DOMAIN watch'.queue = 1 .. 2
        BY <4>2, LenProperties
      <4> QED
        BY <3>3, <4>2, <4>3 DEF StartedAt, Delta
    <3>6. \A j \in Ids : rows[j].print # printer.print
      BY <1>6, <2>1, <3>2 DEF IsAtWork, Active
    <3>7. \A event : event = Started(new) => Announces(event)'
      BY <1>1, <1>2, <1>3, <3>2, <3>3, <3>6 DEF Announces, IsAtWork
    <3> QED
      BY <1>3, <3>1, <3>5, <3>7 DEF EventsShown
  <2>2. CASE ~ edge
    <3>1. events = <<Delta>>
      <4> HIDE DEF edge
      <4>1. <<Delta>> \in Seq(EventRec)
        BY DEF EventRec
      <4> QED
        BY <2>2, <4>1, ConcatEmptySeq
    <3>2. /\ StartedAt(watch'.queue) = StartedAt(watch.queue)
          /\ \A i \in StartedAt(watch.queue) : watch'.queue[i] = watch.queue[i]
      BY <1>2, <3>1, DeltaWaits
    <3>3. WatcherIdle => StartedAt(watch.queue) = {} /\ ~ Held
      BY DEF WatcherIdle, StartedAt, Held
    <3>4. ASSUME NEW event, Announces(event), view'.gs = view.gs PROVE Announces(event)'
      BY <1>1, <1>3, <1>7, <3>4 DEF Announces, IsAtWork
    <3> HIDE DEF events, new, edge
    <3> QED
      BY <1>1, <1>2, <1>3, <3>2, <3>3, <3>4 DEF Shown, EventsShown
  <2> QED
    BY <2>1, <2>2
<1> HIDE DEF new, edge, events
<1> QED
  BY <1>1, <1>2, <1>4, <1>5, <1>6, <1>8, <1>9, ViewShows

\* The bridge is connected anew, or restarted with an empty view and an idle watcher.
LEMMA LinkShows ==
    ASSUME JobsTyped, Shown, PanelOnly', Reconnect \/ BridgeRestart
    PROVE  Shown'
<1>1. CASE Reconnect
  <2>1. /\ view' = [view EXCEPT !.fresh = FALSE] /\ watch' = [watch EXCEPT !.queue = Published(<<Delta>>)]
        /\ run' = <<>> /\ UNCHANGED <<rows, orphanCancels, printer, wire, printed, hits>>
    BY <1>1 DEF Reconnect, Woken, Shown
  <2>2. /\ view'.gs = view.gs /\ view'.name = view.name
        /\ watch'.queue = Published(<<Delta>>) /\ watch'.pc = watch.pc /\ watch'.event = watch.event
        /\ watch'.view = watch.view
    BY <2>1 DEF JobsTyped, WatchTyped, ViewTyped
  <2>3. Latest' = Latest /\ Ids' = Ids /\ Held' = Held
    BY <2>1, <2>2 DEF Latest, Ids, Held
  <2>4. Shows(view)' /\ Shows(watch.view)' /\ ListShown'
    BY <2>1, <2>2, <2>3 DEF Shown, ViewShown, Shows, ListShown
  <2>5. \A event : Announces(event) => Announces(event)'
    BY <2>1, <2>2, <2>3 DEF Announces, IsAtWork
  <2>6. EventsShown'
    BY <2>2, <2>3, <2>5, DeltaWaits DEF Shown, EventsShown
  <2> QED
    BY <2>1, <2>2, <2>4, <2>6, ViewShows DEF Shown, ViewShown, RowsShown
<1>2. CASE BridgeRestart
  <2>1. /\ rows' = JobsRecovered /\ run' = <<>> /\ watch' = Idle /\ view' = Unseen
        /\ UNCHANGED <<printer, wire, printed, hits>>
    BY <1>2 DEF BridgeRestart
  <2>2. DOMAIN rows' = Ids /\ \A j \in Ids : rows'[j] = rows[j]
    BY <2>1, RowsAt DEF JobsRecovered, Ids, Shown, RowsShown, Live, Terminal
  <2>3. Latest' = Latest /\ Ids' = Ids /\ ~ Held' /\ StartedAt(watch.queue)' = {} /\ view'.gs = "UNKNOWN"
    BY <2>1, <2>2 DEF Latest, Ids, Held, StartedAt, Idle, Unseen
  <2>4. OneRowPerPrint' /\ PrinterShown' /\ HitsShown'
    BY <2>1, <2>2, <2>3 DEF Shown, OneRowPerPrint, PrinterShown, HitsShown
  <2>5. ViewShown' /\ ListShown' /\ EventsShown'
    BY <2>1, <2>3 DEF ViewShown, ListShown, EventsShown, Shows, Idle, Unseen, Active
  <2>6. RowsShown'
    BY <2>1, <2>2, <2>3 DEF Shown, RowsShown, IsAtWork
  <2>7. WireShown'
    BY <2>1, <2>2, <2>3 DEF Shown, WireShown
  <2> QED
    BY <2>1, <2>4, <2>5, <2>6, <2>7 DEF Shown
<1> QED
  BY <1>1, <1>2

\* Rows are written, with other states; the watcher goes on.
LEMMA WritesShow ==
    ASSUME JobsTyped, Shown, PanelOnly', UNCHANGED <<run, view, printer, wire, printed, hits>>,
           DOMAIN rows' = Ids, NEW state \in [Ids -> JobState],
           \A j \in Ids : /\ rows'[j].state = state[j] /\ rows'[j].external = rows[j].external
                          /\ rows'[j].name = rows[j].name /\ rows'[j].print = rows[j].print,
           \A j \in Ids : state[j] # rows[j].state =>
                            /\ state[j] \in Live \cup Terminal
                            /\ state[j] = "COMPLETED" => rows[j].print \in printed
                            /\ state[j] \in Terminal => ~ IsAtWork(rows[j].print),
           watch'.view = watch.view, watch'.queue = watch.queue, watch'.event = watch.event,
           watch'.pc \in {"idle", "close", "look", watch.pc},
           Held' => Held, watch'.pc = "close" => watch.pc \in {"list", "close"}
    PROVE  Shown'
<1>1. Ids' = Ids /\ Latest' = Latest /\ \A print : IsAtWork(print)' = IsAtWork(print)
  BY DEF Ids, Latest, IsAtWork
<1>2. PrinterShown' /\ HitsShown' /\ WireShown' /\ ViewShown' /\ ListShown'
  BY <1>1 DEF Shown, PrinterShown, HitsShown, WireShown, ViewShown, Shows, ListShown
<1>3. OneRowPerPrint'
  BY <1>1 DEF Shown, OneRowPerPrint
<1>4. EventsShown'
  <2>1. \A event : Announces(event) => Announces(event)'
    BY <1>1 DEF Announces
  <2>2. StartedAt(watch.queue)' = StartedAt(watch.queue)
    BY DEF StartedAt
  <2> QED
    BY <2>1, <2>2 DEF Shown, EventsShown
<1>5. RowsShown'
  <2> SUFFICES ASSUME NEW j \in Ids
               PROVE  /\ rows'[j].external /\ rows'[j].name = rows'[j].print /\ rows'[j].print \in 1 .. Latest
                      /\ rows'[j].state \in Live \cup Terminal
                      /\ rows'[j].state = "COMPLETED" => rows'[j].print \in printed
                      /\ rows'[j].state \in Terminal => ~ IsAtWork(rows[j].print)
                      /\ IsAtWork(rows[j].print) => printer.gs = "RUNNING" /\ view.gs \in {"RUNNING", "UNKNOWN"}
    BY <1>1 DEF RowsShown, IsAtWork
  <2>1. /\ rows[j].external /\ rows[j].name = rows[j].print /\ rows[j].print \in 1 .. Latest
        /\ rows[j].state \in Live \cup Terminal
        /\ rows[j].state = "COMPLETED" => rows[j].print \in printed
        /\ rows[j].state \in Terminal => ~ IsAtWork(rows[j].print)
        /\ IsAtWork(rows[j].print) => printer.gs = "RUNNING" /\ view.gs \in {"RUNNING", "UNKNOWN"}
    BY DEF Shown, RowsShown
  <2> QED
    BY <2>1
<1> QED
  BY <1>2, <1>3, <1>4, <1>5 DEF Shown

\* What the watcher writes to a row it listed: of a print at work, nothing that ends it.
LEMMA VerdictShows ==
    ASSUME JobsTyped, Shown, NEW j \in Ids, NEW s \in Live, watch.pc \in {"list", "close"},
           NEW new, new = Verdict(j, s, watch.view)
    PROVE  /\ new \in Live \cup Terminal
           /\ new = "COMPLETED" => rows[j].print \in printed
           /\ new \in Terminal => ~ IsAtWork(rows[j].print)
<1> DEFINE v == watch.view
<1>1. /\ rows[j].name = rows[j].print
      /\ IsAtWork(rows[j].print) => printer.gs = "RUNNING" /\ view.gs \in {"RUNNING", "UNKNOWN"}
      /\ Shows(v) /\ Shows(view) /\ v.gs = view.gs /\ view.gs # "UNKNOWN"
      /\ view.gs \in Active => v.name = view.name
      /\ view.gs \in Active /\ printer.gs \in Active => printer.print = view.name
      /\ None \notin Prints
  BY Numbers DEF Shown, RowsShown, ViewShown, ListShown
<1>2. new \in Live \cup Terminal
  BY DEF Verdict, Live, Terminal
<1>3. ASSUME new = "COMPLETED" PROVE rows[j].print \in printed
  <2>1. v.gs = "FINISH" /\ ~ (Current(v) # None /\ v.gs # "IDLE" /\ rows[j].name # Current(v))
    BY <1>3 DEF Verdict, Live
  <2>2. v.name \in Prints /\ v.name \in printed /\ Current(v) = v.name
    BY <1>1, <2>1 DEF Shows, Current
  <2> HIDE DEF v
  <2> QED
    BY <1>1, <2>1, <2>2
<1>4. ASSUME IsAtWork(rows[j].print) PROVE new \notin Terminal
  <2>1. v.gs = "RUNNING" /\ v.name = rows[j].name /\ v.name \in Prints
    BY <1>1, <1>4 DEF IsAtWork, Active, Shows
  <2>2. Current(v) = rows[j].name /\ ~ JobLost(v)
    BY <2>1 DEF Current, JobLost
  <2> HIDE DEF v
  <2>3. new = Verdict(j, s, v)
    BY DEF v
  <2> QED
    BY <2>1, <2>2, <2>3 DEF Verdict, Live, Terminal, Active
<1> QED
  BY <1>2, <1>3, <1>4

\* The watcher closes the rows it listed, one after the other.
LEMMA CloseShows ==
    ASSUME JobsTyped, Shown, PanelOnly', NEW todo \in SUBSET (Ids \X Live), CloseNext(todo),
           UNCHANGED <<run, view, printer, wire, printed, hits>>, watch.pc \in {"list", "close"}
    PROVE  Shown'
<1>1. watch \in [pc : {"idle", "list", "close", "look", "create"}, queue : Seq(EventRec),
                 seen : {watch.seen}, view : {watch.view}, todo : SUBSET (Ids \X Live), event : EventRec]
  BY DEF JobsTyped, WatchTyped
<1>2. AfterClose \in {"look", "idle"}
  BY DEF AfterClose
<1>3. [j \in Ids |-> rows[j].state] \in [Ids -> JobState] /\ \A j \in Ids : rows[j] \in Row
  BY RowsAt
<1>4. CASE Due(todo) = {}
  <2>1. watch' = [watch EXCEPT !.pc = AfterClose, !.todo = {}] /\ rows' = rows
    BY <1>4 DEF CloseNext
  <2>2. /\ watch'.view = watch.view /\ watch'.queue = watch.queue /\ watch'.event = watch.event
        /\ watch'.pc = AfterClose
    BY <1>1, <2>1
  <2>3. Held' => Held
    BY <2>2 DEF Held
  <2> DEFINE state == [j \in Ids |-> rows[j].state]
  <2>4. DOMAIN rows' = Ids /\ \A j \in Ids : rows'[j] = rows[j] /\ state[j] = rows[j].state
    BY <2>1 DEF Ids
  <2> HIDE DEF state
  <2> QED
    BY <1>2, <1>3, <2>2, <2>3, <2>4, WritesShow DEF state
<1>5. CASE Due(todo) # {}
  <2> DEFINE j == Max({e[1] : e \in Due(todo)})
             listed == CHOOSE e \in todo : e[1] = j
             new == Verdict(j, listed[2], watch.view)
             row == [rows[j] EXCEPT !.state = new]
             state == [i \in Ids |-> IF i = j THEN new ELSE rows[i].state]
  <2>1. /\ watch' = [watch EXCEPT !.pc = "close", !.todo = {e \in todo : e[1] < j}]
        /\ rows' = [rows EXCEPT ![j] = row]
    BY <1>5 DEF CloseNext
  <2>2. j \in Ids /\ listed[2] \in Live
    BY <1>5, DueRow DEF Shown
  <2> HIDE DEF j, listed
  <2>3. /\ watch'.view = watch.view /\ watch'.queue = watch.queue /\ watch'.event = watch.event
        /\ watch'.pc = "close"
    BY <1>1, <2>1
  <2>4. Held' => Held
    BY <2>3 DEF Held
  <2>5. /\ new \in JobState /\ new \in Live \cup Terminal
        /\ new = "COMPLETED" => rows[j].print \in printed
        /\ new \in Terminal => ~ IsAtWork(rows[j].print)
    BY <2>2, VerdictShows DEF JobState
  <2> HIDE DEF new
  <2>6. state \in [Ids -> JobState] /\ \A i \in Ids : state[i] = IF i = j THEN new ELSE rows[i].state
    BY <1>3, <2>5 DEF Row
  <2> HIDE DEF state
  <2>7. row.state = new /\ row.external = rows[j].external /\ row.name = rows[j].name /\ row.print = rows[j].print
    BY <1>3, <2>2 DEF Row
  <2> HIDE DEF row
  <2>8. DOMAIN rows' = Ids /\ \A i \in Ids : rows'[i] = IF i = j THEN row ELSE rows[i]
    BY <2>1, <2>2 DEF Ids
  <2> QED
    BY <2>3, <2>4, <2>5, <2>6, <2>7, <2>8, WritesShow
<1> QED
  BY <1>4, <1>5

\* A queue without its head, by positions.
LEMMA TailShows ==
    ASSUME NEW queue \in Seq(EventRec), queue # <<>>
    PROVE  /\ \A i \in StartedAt(Tail(queue)) : i + 1 \in StartedAt(queue) /\ Tail(queue)[i] = queue[i + 1] /\ i \in Nat \ {0}
           /\ Head(queue).kind = "print_started" => 1 \in StartedAt(queue)
           /\ Head(queue) = queue[1]
<1>1. /\ Tail(queue) \in Seq(EventRec) /\ Len(Tail(queue)) = Len(queue) - 1 /\ Len(queue) \in Nat \ {0}
      /\ \A i \in 1 .. Len(Tail(queue)) : Tail(queue)[i] = queue[i + 1]
  BY HeadTailProperties, EmptySeq
<1>2. DOMAIN queue = 1 .. Len(queue) /\ DOMAIN Tail(queue) = 1 .. Len(queue) - 1 /\ Head(queue) = queue[1]
  BY <1>1, LenProperties
<1> QED
  BY <1>1, <1>2 DEF StartedAt

\* The watcher, and an event that is dropped.
LEMMA WatcherShows ==
    ASSUME JobsTyped, Shown, PanelOnly', WatchSteps \/ Overflow
    PROVE  Shown'
<1>1. watch \in [pc : {"idle", "list", "close", "look", "create"}, queue : Seq(EventRec),
                 seen : {watch.seen}, view : {watch.view}, todo : SUBSET (Ids \X Live), event : EventRec]
      /\ (watch.pc \in {"look", "create"} => watch.event.kind = "print_started")
  BY DEF JobsTyped, WatchTyped, EventRec
<1>2. CASE WatchLists
  <2> DEFINE todo == {<<j, rows[j].state>> : j \in {i \in Ids : rows[i].state \in Live}}
  <2>1. todo \in SUBSET (Ids \X Live) /\ CloseNext(todo) /\ watch.pc = "list"
        /\ UNCHANGED <<run, view, printer, wire, printed, hits>>
    BY <1>2 DEF WatchLists
  <2> HIDE DEF todo
  <2> QED
    BY <2>1, CloseShows
<1>3. CASE WatchCloses
  BY <1>1, <1>3, CloseShows DEF WatchCloses
<1>4. ASSUME UNCHANGED <<rows, run, orphanCancels, view, printer, wire, printed, hits>>, EventsShown', ListShown',
             watch'.view \in {watch.view, view}
      PROVE  Shown'
  <2>1. Latest' = Latest
    BY <1>4 DEF Latest
  <2>2. Shows(view)' /\ Shows(watch.view)'
    BY <1>4, <2>1 DEF Shown, ViewShown, Shows
  <2> QED
    BY <1>4, <2>2, ViewShows DEF Shown, ViewShown, RowsShown
<1>5. CASE WatchTakes \/ Overflow
  <2>1. /\ watch.queue # <<>> /\ watch.queue \in Seq(EventRec)
        /\ UNCHANGED <<rows, run, orphanCancels, view, printer, wire, printed, hits>> /\ watch'.queue = Tail(watch.queue)
    <3>1. watch.queue \in Seq(EventRec) /\ (watch.queue = <<>> => Len(watch.queue) = 0)
      BY <1>1, EmptySeq
    <3>2. CASE WatchTakes
      BY <1>1, <3>1, <3>2 DEF WatchTakes
    <3>3. CASE Overflow
      BY <1>1, <3>1, <3>3 DEF Overflow
    <3> QED
      BY <1>5, <3>2, <3>3
  <2>2. \A event : Announces(event) => Announces(event)'
    BY <2>1 DEF Announces, Ids, Latest, IsAtWork
  <2>3. StartedAt(watch.queue)' = StartedAt(Tail(watch.queue))
    BY <2>1 DEF StartedAt
  <2>4. /\ \A i \in StartedAt(watch.queue)' : Announces(watch.queue[i])'
        /\ \A i, k \in StartedAt(watch.queue)' : i = k
    <3>1. \A i \in StartedAt(Tail(watch.queue)) :
             i + 1 \in StartedAt(watch.queue) /\ Tail(watch.queue)[i] = watch.queue[i + 1] /\ i \in Nat \ {0}
      BY <2>1, TailShows
    <3>2. \A i \in StartedAt(watch.queue) : Announces(watch.queue[i])
      BY DEF Shown, EventsShown
    <3>3. ASSUME NEW i \in StartedAt(Tail(watch.queue)), NEW event, event = Tail(watch.queue)[i]
          PROVE  Announces(event)'
      BY <2>2, <3>1, <3>2, <3>3
    <3>4. \A i, k \in StartedAt(watch.queue) : i = k
      BY DEF Shown, EventsShown
    <3>5. \A i \in StartedAt(watch.queue)' : Announces(watch.queue[i])'
      BY <2>1, <2>3, <3>3 DEF Announces
    <3> QED
      BY <2>3, <3>1, <3>4, <3>5
  <2>5. CASE WatchTakes
    <3>1. /\ watch.pc = "idle" /\ watch'.event = Head(watch.queue)
          /\ \/ Gs(view) # "UNKNOWN" /\ watch'.view = view /\ watch'.pc = "list"
             \/ watch'.view = watch.view /\ watch'.pc \in {"idle", "look"}
                /\ (watch'.pc = "look" => Head(watch.queue).kind = "print_started")
      BY <1>1, <2>5 DEF WatchTakes
    <3>2. ListShown'
      BY <2>1, <3>1 DEF ListShown, Gs
    <3>3. ASSUME Head(watch.queue).kind = "print_started"
          PROVE  Announces(Head(watch.queue)) /\ StartedAt(watch.queue)' = {}
      <4>1. 1 \in StartedAt(watch.queue) /\ Head(watch.queue) = watch.queue[1]
        BY <2>1, <3>3, TailShows
      <4>2. \A i \in StartedAt(watch.queue)' : i + 1 \in StartedAt(watch.queue) /\ i \in Nat \ {0}
        BY <2>1, <2>3, TailShows
      <4> QED
        BY <4>1, <4>2 DEF Shown, EventsShown
    <3>4. Held' => Announces(watch.event)' /\ StartedAt(watch.queue)' = {}
      BY <2>2, <3>1, <3>3 DEF Held, Announces
    <3>5. EventsShown'
      BY <2>4, <3>4 DEF EventsShown
    <3> QED
      BY <1>4, <2>1, <3>1, <3>2, <3>5
  <2>6. CASE Overflow
    <3>1. watch'.pc = watch.pc /\ watch'.event = watch.event /\ watch'.view = watch.view
      BY <1>1, <2>6 DEF Overflow
    <3>2. ListShown' /\ Held' = Held
      BY <2>1, <3>1 DEF Shown, ListShown, Held
    <3>3. StartedAt(watch.queue) = {} => StartedAt(watch.queue)' = {}
      BY <2>1, <2>3, TailShows
    <3>4. EventsShown'
      BY <2>2, <2>4, <3>1, <3>2, <3>3 DEF Shown, EventsShown
    <3> QED
      BY <1>4, <2>1, <3>1, <3>2, <3>4
  <2> QED
    BY <1>5, <2>5, <2>6
<1>6. CASE WatchLooks
  <2>1. /\ UNCHANGED <<rows, run, orphanCancels, view, printer, wire, printed, hits>> /\ watch.pc = "look"
        /\ watch'.queue = watch.queue /\ watch'.event = watch.event /\ watch'.view = watch.view
        /\ watch'.pc \in {"idle", "create"}
    BY <1>1, <1>6 DEF WatchLooks
  <2>2. \A event : Announces(event) => Announces(event)'
    BY <2>1 DEF Announces, Ids, Latest, IsAtWork
  <2>3. StartedAt(watch.queue)' = StartedAt(watch.queue) /\ (Held' => Held) /\ ListShown'
    BY <2>1 DEF StartedAt, Held, ListShown
  <2>4. EventsShown'
    BY <2>1, <2>2, <2>3 DEF Shown, EventsShown
  <2> QED
    BY <1>4, <2>1, <2>3, <2>4
<1>7. CASE WatchCreates
  <2> DEFINE row == NewRow("PRINTING", watch.event.name, TRUE, watch.event.print)
  <2>1. /\ watch.pc = "create" /\ UNCHANGED <<run, orphanCancels, view, printer, wire, printed, hits>>
        /\ watch'.queue = watch.queue /\ watch'.event = watch.event /\ watch'.view = watch.view /\ watch'.pc = "idle"
        /\ rows' = rows \/ rows' = Append(rows, row)
    BY <1>1, <1>7 DEF WatchCreates
  <2>2. Announces(watch.event) /\ StartedAt(watch.queue) = {}
    BY <1>1, <2>1 DEF Shown, EventsShown, Held
  <2>3. StartedAt(watch.queue)' = {} /\ ~ Held' /\ EventsShown' /\ ListShown'
    BY <2>1, <2>2 DEF StartedAt, Held, EventsShown, ListShown
  <2>4. CASE rows' = rows
    BY <1>4, <2>1, <2>3, <2>4
  <2>5. CASE rows' = Append(rows, row)
    <3>1. rows \in Seq(Row) /\ Ids = 1 .. Len(rows) /\ Len(rows) \in Nat
      BY LenProperties DEF JobsTyped, TableTyped, Ids
    <3>2. /\ row.state = "PRINTING" /\ row.external /\ row.name = view.name /\ row.print = view.name
          /\ row \in Row
      BY <1>1, <2>1, <2>2 DEF NewRow, Announces, Row, JobState, Live, EventRec, Delta
    <3> HIDE DEF row
    <3>3. /\ rows' \in Seq(Row) /\ Ids' = 1 .. Len(rows) + 1
          /\ \A j \in Ids : rows'[j] = rows[j]
          /\ rows'[Len(rows) + 1] = row
      BY <2>5, <3>1, <3>2, AppendProperties, LenProperties DEF Ids
    <3>4. OneRowPerPrint'
      <4>1. \A j \in Ids : rows[j].print # row.print
        BY <2>2, <3>2 DEF Announces
      <4>2. \A i, j \in Ids : i # j => rows[i].print # rows[j].print
        BY DEF Shown, OneRowPerPrint
      <4>3. ASSUME NEW i \in Ids', NEW j \in Ids', i # j PROVE rows'[i].print # rows'[j].print
        BY <3>1, <3>3, <4>1, <4>2, <4>3
      <4> QED
        BY <4>3 DEF OneRowPerPrint
    <3>5. RowsShown'
      <4>1. view.gs = "RUNNING" /\ view.name \in 1 .. Latest
        BY <2>2 DEF Announces
      <4>2. IsAtWork(view.name) => printer.gs = "RUNNING"
        BY <2>2 DEF Announces
      <4>3. \A j \in Ids :
               /\ rows[j].external /\ rows[j].name = rows[j].print /\ rows[j].print \in 1 .. Latest
               /\ rows[j].state \in Live \cup Terminal
               /\ rows[j].state = "COMPLETED" => rows[j].print \in printed
               /\ rows[j].state \in Terminal => ~ IsAtWork(rows[j].print)
               /\ IsAtWork(rows[j].print) => printer.gs = "RUNNING" /\ view.gs \in {"RUNNING", "UNKNOWN"}
        BY DEF Shown, RowsShown
      <4> QED
        BY <2>1, <3>1, <3>2, <3>3, <4>1, <4>2, <4>3 DEF RowsShown, IsAtWork, Latest, Live, Terminal
    <3>6. PrinterShown' /\ ViewShown'
      BY <2>1 DEF Shown, PrinterShown, ViewShown, Shows, Latest
    <3>7. WireShown' /\ HitsShown'
      BY <2>1, <3>1, <3>3 DEF Shown, WireShown, HitsShown
    <3> QED
      BY <2>1, <2>3, <3>4, <3>5, <3>6, <3>7 DEF Shown
  <2> QED
    BY <2>1, <2>4, <2>5
<1> QED
  BY <1>2, <1>3, <1>5, <1>6, <1>7 DEF WatchSteps

\* The number of jobs is a number: where the world has room for none, none is submitted.
LEMMA JobRows ==
    ASSUME JobsTyped
    PROVE  ~ (Cardinality(JobsOf(rows)) < 0)
<1>1. rows \in Seq(Row) /\ Len(rows) \in Nat /\ DOMAIN rows = 1 .. Len(rows)
  BY LenProperties DEF JobsTyped, TableTyped
<1>2. IsFiniteSet(1 .. Len(rows)) /\ JobsOf(rows) \subseteq 1 .. Len(rows)
  BY <1>1, FS_Interval DEF JobsOf
<1>3. IsFiniteSet(JobsOf(rows))
  BY <1>2, FS_Subset
<1>4. Cardinality(JobsOf(rows)) \in Nat
  BY <1>3, FS_CardinalityType
<1> QED
  BY <1>4

\* One step of any actor.
LEMMA StepShows == JobsTyped /\ Shown /\ [JobsNext]_vars => Shown'
<1> SUFFICES ASSUME JobsTyped, Shown, [JobsNext]_vars PROVE Shown'
  OBVIOUS
<1>1. PanelOnly'
  BY EventsStay DEF Shown, PanelOnly
<1>2. CASE UNCHANGED vars
  BY <1>2 DEF vars, Shown, PanelOnly, OneRowPerPrint, RowsShown, PrinterShown, ViewShown, EventsShown, ListShown,
              WireShown, HitsShown, Ids, Latest, IsAtWork, Shows, Held, StartedAt, Announces
<1>3. ~ RunSteps /\ ~ FeedOverdue /\ ~ Spaghetti /\ ~ Submit /\ \A j \in Ids : ~ CancelRun(j)
  <2>1. run = <<>> /\ world.jobs = 0
    BY DEF Shown, PanelOnly
  <2>2. ~ (Cardinality(JobsOf(rows)) < 0)
    BY JobRows
  <2> QED
    BY <2>1, <2>2 DEF RunSteps, RunStarts, RunRefused, RunBegins, UploadFails, UploadEnds, SendStart, StartNotSent,
       TrackNoStop, TrackStop, TrackStopFails, TrackRead, TrackWakes, FeedOverdue, Spaghetti, CancelRun, InRuns, At, Submit
<1>4. ASSUME NEW j \in Ids, Elapse(j) PROVE Shown'
  <2> DEFINE state == [i \in Ids |-> rows[i].state]
  <2>1. /\ rows' = [rows EXCEPT ![j].late = TRUE] /\ UNCHANGED <<run, orphanCancels, watch, view, printer, wire, printed, hits>>
    BY <1>4 DEF Elapse
  <2>2. \A i \in Ids : rows[i] \in Row
    BY RowsAt
  <2>3. state \in [Ids -> JobState] /\ \A i \in Ids : state[i] = rows[i].state
    BY <2>2 DEF Row
  <2>4. /\ DOMAIN rows' = Ids
        /\ \A i \in Ids : /\ rows'[i].state = rows[i].state /\ rows'[i].external = rows[i].external
                          /\ rows'[i].name = rows[i].name /\ rows'[i].print = rows[i].print
    BY <2>1, <2>2 DEF Ids, Row
  <2>5. Held' = Held
    BY <2>1 DEF Held
  <2> HIDE DEF state
  <2> QED
    BY <1>1, <2>1, <2>3, <2>4, <2>5, WritesShow
<1>5. CASE JobsNext
  BY <1>1, <1>3, <1>4, <1>5, CancelShows, WatcherShows, ReportShows, LinkShows, CommandShows, PrintsShow DEF JobsNext
<1> QED
  BY <1>2, <1>5

\* What the invariant gives for the properties.
LEMMA ShownIsSound == JobsTyped /\ JobTypeOK /\ Shown => JobsSound /\ OneRowPerPrint
<1> SUFFICES ASSUME JobsTyped, JobTypeOK, Shown PROVE JobsSound
  BY DEF Shown
<1>1. \A j \in Ids : /\ rows[j].external
                     /\ rows[j].state = "COMPLETED" => rows[j].print \in printed
                     /\ rows[j].state \in Terminal => ~ IsAtWork(rows[j].print)
  BY DEF Shown, RowsShown
<1>2. CompletedWasPrinted /\ StopHitsItsPrint
  BY <1>1 DEF CompletedWasPrinted, StopHitsItsPrint, Shown, HitsShown
<1>3. PrintingMadeProgress
  BY <1>1 DEF PrintingMadeProgress, JobsOf, Ids
<1>4. EndedJobIsOver
  <2>1. ASSUME NEW j \in Ids, AtWork(rows[j].print) PROVE IsAtWork(rows[j].print)
    <3>1. printer.next = None /\ rows[j].print # None
      BY RowsAt, Numbers DEF Shown, PrinterShown, Row
    <3>2. \A i \in DOMAIN wire : wire[i] # Command("start", rows[j].print)
      BY DEF Shown, WireShown, Command
    <3> QED
      BY <2>1, <3>1, <3>2 DEF AtWork, IsAtWork
  <2> QED
    BY <1>1, <2>1 DEF EndedJobIsOver
<1> QED
  BY <1>2, <1>3, <1>4 DEF JobsSound

\* In a world of prints from the panel, each has one row at most, and its row tells of it: COMPLETED
\* only if it was printed, ended only when it is over; a stop that is sent meets the print of the
\* row that was canceled. For any number of prints and faults: restarts of the bridge,
\* reconnections, power failures and cancels, an overfull bus.
THEOREM PanelPrintsAreSound == JobsSpec => [](PanelOnly => JobsSound /\ OneRowPerPrint)
<1>1. JobsInit => (PanelOnly => Shown)
  BY ShownInit
<1>2. JobsTyped /\ (PanelOnly => Shown) /\ [JobsNext]_vars => (PanelOnly => Shown)'
  <2>1. JobsTyped /\ [JobsNext]_vars /\ PanelOnly' => PanelOnly
    BY EventsStay DEF PanelOnly
  <2> QED
    BY <2>1, StepShows
<1>3. JobsTyped /\ JobTypeOK /\ (PanelOnly => Shown) => (PanelOnly => JobsSound /\ OneRowPerPrint)
  BY ShownIsSound
<1> QED
  BY <1>1, <1>2, <1>3, TypedHolds, JobTypes, PTL DEF JobsSpec
=============================================================================
