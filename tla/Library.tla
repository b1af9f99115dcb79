------------------------------- MODULE Library -------------------------------
(***************************************************************************)
(* The archive of printed files: captures and their content-addressed blobs *)
(* (library.py), the scan that archives native receipts                     *)
(* (service/library_history.py) and the copies of files found on the        *)
(* printer (service/print_capture.py).                                      *)
(*                                                                         *)
(* Each transaction of the store is one action: threads interleave between  *)
(* them, and a disk error may leave the file work of one done and its       *)
(* commit undone.  A capture has one artifact of Chunks chunks; quota and   *)
(* age are counted in captures.                                             *)
(***************************************************************************)
EXTENDS Naturals, Sequences, FiniteSets

CONSTANTS Uploads, Receipts, Files,  \* captures of slicers, of native receipts, of printer files
          Content,                   \* the hash of each capture's artifact
          Chunks, Tries,             \* FETCH_TRIES
          LibraryCases               \* the quota, the threads at work, how often each event may happen (bounds)

Captures == Uploads \cup Receipts \cup Files
Hashes == {Content[c] : c \in Captures}
Threads == {"slicer", "scan", "copier", "catchup"}

\* What a proof needs of the constants: finitely many captures, and a quota in every case.
LibraryConstants ==
    /\ IsFiniteSet(Captures)
    /\ \A l \in LibraryCases : /\ l = [e \in DOMAIN l |-> l[e]]
                               /\ "quota" \in DOMAIN l /\ l["quota"] \in Nat

VARIABLES cap,      \* captures.deleted, finalized: "missing", "pending", "stored", "deleted"
          off,      \* artifacts.offset
          staging,  \* uploads/: length of each staging file, and whether its bytes are right
          noted,    \* the rows of blobs
          blob,     \* the hashes with a file in blobs/
          age,      \* captures with a row, the one printed longest ago first
          thread,   \* what each thread is doing
          unseen,   \* native receipts changed since the scan last recorded them
          tries, refused, \* _FETCHES, _REFUSED
          limit     \* the quota, the threads at work, and what may still happen

onDisk == <<staging, noted, blob>>
copies == <<tries, refused>>
libraryVars == <<cap, off, staging, noted, blob, age, thread, unseen, tries, refused, limit>>

Rest == [at |-> "rest"]
NoStaging == [len |-> 0, good |-> TRUE]

LibraryInit ==
    /\ cap = [c \in Captures |-> "missing"] /\ off = [c \in Captures |-> 0]
    /\ staging = [c \in Captures |-> NoStaging] /\ noted = {} /\ blob = {}
    /\ age = <<>> /\ unseen = {}
    /\ thread = [t \in Threads |-> Rest]
    /\ tries = [f \in Files |-> 0] /\ refused = {}
    /\ limit \in LibraryCases

Spare(event) == limit[event] > 0 /\ limit' = [limit EXCEPT ![event] = @ - 1]
Held == {c \in Captures : cap[c] \in {"pending", "stored"}}     \* with an artifact row
Self(t) == thread[t]
At(t, step) == thread[t].at = step
Goes(t, next) == thread' = [thread EXCEPT ![t] = next] /\ UNCHANGED copies
GoesTo(t, step) == Goes(t, [Self(t) EXCEPT !.at = step])

\* A LibraryError leaves the call: the copier takes it as a refusal for good.
Raises(t) ==
    /\ thread' = [thread EXCEPT ![t] = Rest]
    /\ IF t = "copier"
       THEN refused' = refused \cup {Self(t).c} /\ tries' = [tries EXCEPT ![Self(t).c] = Tries]
       ELSE UNCHANGED copies

------------------------------------------------------------------------------
(* prune() reads once, then deletes one capture at a time, each in a        *)
(* transaction of its own, and collects at the end.                         *)

Oldest == SelectSeq(age, LAMBDA c : cap[c] = "stored")

\* The captures beyond the quota - none for a backdated copy - and those past max_age_s.
Evicted(keep, backdated, old) ==
    LET over == IF backdated \/ Len(Oldest) <= keep THEN 0 ELSE Len(Oldest) - keep
    IN  SubSeq(Oldest, 1, IF old > over THEN old ELSE over)

Prunes(t, c, next, keep, backdated) ==
    /\ t \in limit.active
    /\ \E old \in 0..(IF limit.old > 0 THEN Len(Oldest) ELSE 0) :
       LET victims == Evicted(keep, backdated, old)
       IN  /\ thread' = [thread EXCEPT ![t] =
                 [at |-> IF victims = <<>> THEN next ELSE "evict", then |-> next, c |-> c,
                  backdated |-> backdated, victims |-> victims, pos |-> 0]]
           /\ limit' = IF old > 0 THEN [limit EXCEPT !.old = @ - 1] ELSE limit
Creates(t, c, backdated) == Prunes(t, c, "insert", limit.quota - 1, backdated)

DeletedKept(c) == /\ cap' = [cap EXCEPT ![c] = "deleted"] /\ off' = [off EXCEPT ![c] = 0]
                  /\ staging' = [staging EXCEPT ![c] = NoStaging] /\ UNCHANGED age
Deleted(c) == /\ cap' = [cap EXCEPT ![c] = "deleted"] /\ off' = [off EXCEPT ![c] = 0]
              /\ staging' = [staging EXCEPT ![c] = NoStaging]
              /\ age' = SelectSeq(age, LAMBDA d : d # c)

\* delete() raises for a capture that was deleted since the read.
Evicts(t) ==
    /\ At(t, "evict")
    /\ LET victims == Self(t).victims
       IN  \/ /\ cap[Head(victims)] = "deleted"
              /\ Raises(t) /\ UNCHANGED <<cap, off, staging, age>>
           \/ /\ cap[Head(victims)] # "deleted" /\ Deleted(Head(victims))
              /\ Goes(t, [Self(t) EXCEPT !.victims = Tail(@),
                                         !.at = IF Len(victims) = 1 THEN "collect" ELSE @])
    /\ UNCHANGED <<noted, blob, unseen, limit>>

Referenced == {Content[c] : c \in Held}
Collected == blob' = blob \cap Referenced /\ noted' = noted \cap Referenced
Collects(t) ==
    /\ At(t, "collect") /\ Collected
    /\ GoesTo(t, Self(t).then)
    /\ UNCHANGED <<cap, off, staging, age, unseen, limit>>

------------------------------------------------------------------------------
(* create(), append(), finalize().                                          *)

KnownAgain(c) == cap[c] \in {"missing", "deleted"}
Known(c) == cap[c] = "missing"               \* an ID that may be taken
ReservedStored == Cardinality({c \in Captures : cap[c] = "stored"})
Reserved == Cardinality(Held)

Inserts(t) ==
    LET c == Self(t).c
    IN  /\ At(t, "insert")
        /\ \/ /\ c \in Held /\ GoesTo(t, "status") /\ UNCHANGED <<cap, age>>
           \/ /\ Known(c) /\ Reserved < limit.quota
              /\ cap' = [cap EXCEPT ![c] = "pending"]
              /\ age' = IF Self(t).backdated THEN <<c>> \o age ELSE Append(age, c)
              /\ GoesTo(t, "status")
           \/ /\ c \notin Held /\ ~(Known(c) /\ Reserved < limit.quota)
              /\ Raises(t) /\ UNCHANGED <<cap, age>>
        /\ UNCHANGED <<off, onDisk, unseen, limit>>

\* get(), the answer of create(): a slicer reads it, the scan goes on from there, a copy
\* sends every chunk.
Statuses(t) ==
    LET c == Self(t).c
    IN  /\ At(t, "status")
        /\ CASE cap[c] = "deleted" -> Raises(t)
             [] cap[c] # "deleted" /\ t = "slicer" -> Goes(t, Rest)
             [] cap[c] # "deleted" /\ t = "scan" ->
                   IF Content[c] \in noted THEN GoesTo(t, "finalize")
                   ELSE Goes(t, [Self(t) EXCEPT !.at = "append", !.pos = off[c]])
             [] OTHER -> GoesTo(t, "append")
        /\ UNCHANGED <<cap, off, onDisk, age, unseen, limit>>

\* The staging file after a chunk at pos, where an uncommitted tail is cut off first.
Untruncated(s, pos, good) == [len |-> IF s.len < Chunks THEN s.len + 1 ELSE s.len, good |-> s.good /\ good /\ s.len = pos]
Extended(s, pos, good) == [len |-> pos + 1, good |-> (pos = 0 \/ s.good) /\ good]

\* The file work of append(): what becomes of the chunk, and the staging file after it.
Work(c, pos, good) ==
    LET s == Extended(staging[c], pos, good)
        keeps(is) == [is |-> is, staging |-> staging[c]]
    IN  IF cap[c] # "pending" THEN keeps("raise")
        ELSE IF Content[c] \in blob THEN keeps("blob")
        ELSE IF pos # off[c] \/ staging[c].len < pos THEN keeps("raise")
        ELSE IF s.len < Chunks THEN [is |-> "more", staging |-> s]
        ELSE IF s.good THEN [is |-> "blob", staging |-> NoStaging]
        ELSE [is |-> "raise", staging |-> s]

Files1(c, work) ==
    /\ staging' = [staging EXCEPT ![c] = work.staging]
    /\ blob' = IF work.is = "blob" THEN blob \cup {Content[c]} ELSE blob
Commits(c, pos, work) ==
    /\ off' = [off EXCEPT ![c] = CASE work.is = "raise" -> @
                                   [] work.is = "blob" -> Chunks
                                   [] work.is = "more" -> pos + 1]
    /\ noted' = IF work.is = "blob" THEN noted \cup {Content[c]} ELSE noted

Appends(t) ==
    LET c == Self(t).c
        pos == Self(t).pos
        work == Work(c, pos, TRUE)
    IN  /\ At(t, "append")
        /\ Files1(c, work) /\ Commits(c, pos, work)
        /\ IF work.is = "raise" THEN Raises(t)
           ELSE Goes(t, [Self(t) EXCEPT !.pos = pos + 1,
                                        !.at = IF pos + 1 < Chunks THEN @ ELSE "finalize"])
        /\ UNCHANGED <<cap, age, unseen, limit>>

CompleteNoted(c) == Content[c] \in noted
Complete(c) == Content[c] \in noted \cap blob
Finalizes(t) ==
    LET c == Self(t).c
        may == c \in Held /\ Complete(c)
    IN  /\ At(t, "finalize")
        /\ cap' = IF may THEN [cap EXCEPT ![c] = "stored"] ELSE cap
        /\ IF ~may THEN Raises(t) ELSE IF t = "scan" THEN GoesTo(t, "record") ELSE Goes(t, Rest)
        /\ UNCHANGED <<off, onDisk, age, unseen, limit>>

Storing(t) == Evicts(t) \/ Collects(t) \/ Inserts(t) \/ Statuses(t) \/ Appends(t) \/ Finalizes(t)

------------------------------------------------------------------------------
(* The scan of native receipts (archive_native), and its own prune.         *)

ScanTakes(c) ==
    /\ Self("scan") = Rest /\ c \in unseen
    /\ CASE cap[c] = "deleted" -> unseen' = unseen \ {c} /\ UNCHANGED <<thread, limit>>
         [] cap[c] = "stored" -> /\ thread' = [thread EXCEPT !["scan"] = [at |-> "record", c |-> c]]
                                 /\ UNCHANGED <<unseen, limit>>
         [] OTHER -> Creates("scan", c, FALSE) /\ UNCHANGED unseen
    /\ UNCHANGED <<cap, off, onDisk, age, copies>>

\* record_attempt(): a capture is as old as its last print.
ScanRecords ==
    LET c == Self("scan").c
    IN  /\ At("scan", "record") /\ Goes("scan", Rest)
        /\ IF cap[c] = "stored"
           THEN age' = Append(SelectSeq(age, LAMBDA d : d # c), c) /\ unseen' = unseen \ {c}
           ELSE UNCHANGED <<age, unseen>>
        /\ UNCHANGED <<cap, off, onDisk, limit>>

ScanPrunes ==
    /\ Self("scan") = Rest
    /\ \E c \in Receipts : Prunes("scan", c, "done", limit.quota, FALSE)
    /\ thread'["scan"].at = "evict"
    /\ UNCHANGED <<cap, off, onDisk, age, unseen, copies>>

ScanEnds == /\ At("scan", "done") /\ Goes("scan", Rest)
            /\ UNCHANGED <<cap, off, onDisk, age, unseen, limit>>

(* Copies: of the file the printer runs (capture_once), and, dated back, of  *)
(* those it was given while the bridge was away (catch_up).                 *)

CopierTakes(f) ==
    /\ Self("copier") = Rest /\ cap[f] # "stored" /\ tries[f] < Tries
    /\ \/ Spare("unread") /\ tries' = [tries EXCEPT ![f] = @ + 1] /\ UNCHANGED thread
       \/ Creates("copier", f, FALSE) /\ UNCHANGED tries
    /\ UNCHANGED <<cap, off, onDisk, age, unseen, refused>>

CatchUpTakes(f) ==
    /\ Self("catchup") = Rest /\ cap[f] = "missing" /\ Creates("catchup", f, TRUE)
    /\ UNCHANGED <<cap, off, onDisk, age, unseen, copies>>

(* A slicer's requests, which may be late, repeated or carry wrong bytes;    *)
(* the owner; prints.                                                       *)

SlicerCreates(c) ==
    /\ Self("slicer") = Rest /\ cap[c] # "stored" /\ Creates("slicer", c, FALSE)
    /\ UNCHANGED <<cap, off, onDisk, age, unseen, copies>>

SlicerAppends(c, pos, good) ==
    LET work == Work(c, pos, good)
    IN  /\ cap[c] = "pending" /\ IF good THEN UNCHANGED limit ELSE Spare("bad")
        /\ Files1(c, work) /\ Commits(c, pos, work)
        /\ UNCHANGED <<cap, age, thread, unseen, copies>>

SlicerFinalizes(c) ==
    /\ cap[c] = "pending" /\ Complete(c) /\ cap' = [cap EXCEPT ![c] = "stored"]
    /\ UNCHANGED <<off, onDisk, age, thread, unseen, copies, limit>>

OwnerDeletes(c) ==
    /\ c \in Held /\ Spare("delete") /\ Deleted(c)
    /\ UNCHANGED <<noted, blob, thread, unseen, copies>>

OwnerCollects == /\ Collected
                 /\ UNCHANGED <<cap, off, staging, age, thread, unseen, copies, limit>>

Prints(c) == /\ Spare("print") /\ unseen' = unseen \cup {c}
             /\ UNCHANGED <<cap, off, onDisk, age, thread, copies>>

(* An append or a collection that fails after its file work rolls back; the *)
(* call ends, with the process or alone.                                    *)

AppendBreaks(t) ==
    /\ At(t, "append") /\ Spare("fault")
    /\ Files1(Self(t).c, Work(Self(t).c, Self(t).pos, TRUE))
    /\ Goes(t, Rest)
    /\ UNCHANGED <<cap, off, noted, age, unseen>>

CollectBreaks ==
    /\ Spare("fault")
    /\ \E h \in blob \ Referenced : blob' = blob \ {h}
    /\ UNCHANGED <<cap, off, staging, noted, age, thread, unseen, copies>>

Crash ==
    /\ Spare("fault")
    /\ thread' = [t \in Threads |-> Rest]
    /\ tries' = [f \in Files |-> 0] /\ refused' = {}
    /\ UNCHANGED <<cap, off, onDisk, age, unseen>>

Scanning == Storing("scan") \/ ScanRecords \/ ScanEnds \/ \E c \in Receipts : ScanTakes(c)
FromClients == \/ \E c \in Uploads : SlicerCreates(c) \/ SlicerFinalizes(c)
               \/ \E c \in Uploads, pos \in 0..(Chunks - 1), good \in BOOLEAN : SlicerAppends(c, pos, good)
               \/ \E c \in Captures : OwnerDeletes(c)
               \/ OwnerCollects
Faults == CollectBreaks \/ Crash \/ \E t \in Threads : AppendBreaks(t)

LibraryNext ==
    \/ Scanning \/ ScanPrunes \/ FromClients \/ Faults
    \/ \E t \in Threads \ {"scan"} : Storing(t)
    \/ \E f \in Files : CopierTakes(f) \/ CatchUpTakes(f)
    \/ \E c \in Receipts : Prints(c)

\* Every call that has begun ends, and the scan comes round every 30 s.
LibraryFairness == WF_libraryVars(Scanning) /\ \A t \in Threads : WF_libraryVars(Storing(t))
LibrarySpec == LibraryInit /\ [][LibraryNext]_libraryVars /\ LibraryFairness

------------------------------------------------------------------------------
(* Properties.                                                              *)

LibraryTypeOK ==
    /\ cap \in [Captures -> {"missing", "pending", "stored", "deleted"}]
    /\ off \in [Captures -> 0..Chunks] /\ noted \subseteq Hashes /\ blob \subseteq Hashes
    /\ \A c \in Captures : staging[c].len \in 0..Chunks
    /\ \A t \in Threads : thread[t].at \in {"rest", "evict", "collect", "insert", "status", "append",
                                            "finalize", "record", "done"}
    /\ {age[i] : i \in DOMAIN age} = Held /\ Len(age) = Cardinality(Held)

\* A finalized capture can be read: whatever uploads, evictions, collections, crashes and
\* shared contents came between, its bytes are in blobs/ and on record.
StoredIsReadable == \A c \in Captures : cap[c] = "stored" => Content[c] \in noted \cap blob

\* "explicit owner deletion must survive reconciliation" (library_history.py:135), and so
\* does an eviction: no scan, copy or repeated request brings the capture back.
DeletedStays == \A c \in Captures : cap[c] = "deleted" => cap'[c] = "deleted"
TombstonesStay == [][DeletedStays]_libraryVars

\* What is reserved, partial uploads and concurrent creates included, fits the quota.
QuotaKept == Cardinality(Held) <= limit.quota

\* Files of a collection that failed are gone while their rows are back.
Torn(c) == Content[c] \in noted \ blob

\* With room for everything, a receipt the scan saw is archived in the end, through any
\* interrupted upload, unless its capture was deleted (or a collection broke off).
ReceiptArchived ==
    \A c \in Receipts :
        (c \in unseen /\ limit.quota = Cardinality(Captures))
            ~> (cap[c] \in {"stored", "deleted"} \/ Torn(c))

\* ... which is what the README promises even of a broken collection.
ReceiptArchivedAlways ==
    \A c \in Receipts :
        (c \in unseen /\ limit.quota = Cardinality(Captures)) ~> (cap[c] \in {"stored", "deleted"})

\* "Refused for good (full, too old, or a plate or name the library cannot hold)"
\* (print_capture.py:203): losing the race for an eviction is none of these.
RefusedForGood ==
    [][refused' # refused => ~At("copier", "evict")]_libraryVars

\* "Not reached when storing failed otherwise (disk): the next tick retries."
\* (print_capture.py:208): an interrupted copy is not refused when it is tried again.
CopyIsRetried ==
    [][\A f \in refused' \ refused : cap[f] # "pending"]_libraryVars

\* "the newest print always fits by evicting the oldest" (library.py:197)
NewestFits ==
    [][\A t \in Threads :
          At(t, "insert") /\ cap[Self(t).c] = "missing" /\ ~Self(t).backdated /\ thread'[t] = Rest
          => Oldest = <<>>]_libraryVars

\* "so a reprint keeps a file" (library.py:601)
ReprintKept ==
    [][\A c \in Captures : cap[c] = "stored" /\ cap'[c] = "deleted" /\ limit'.delete = limit.delete
                           => Len(Oldest) = 1 \/ c # Oldest[Len(Oldest)]]_libraryVars

\* A backup finds the bytes of every offset on record (library_backup.py:90).
BackupFindsAll ==
    /\ noted \subseteq blob
    /\ \A c \in Held : off[c] > 0 /\ Content[c] \notin noted => staging[c].len >= off[c]

\* What the library holds can be read and fits the quota.
LibrarySound == LibraryTypeOK /\ StoredIsReadable /\ QuotaKept
=============================================================================
