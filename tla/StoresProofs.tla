---------------------------- MODULE StoresProofs -----------------------------
(***************************************************************************)
(* What the bridge keeps.  The library for every set of captures, however   *)
(* their contents are shared, and every interleaving of its threads: what   *)
(* is stored can be read, what is held fits the quota, and what was deleted  *)
(* stays deleted.  The one connection of the job database for any number of  *)
(* requests: rows are shifted once, what was answered is on disk, and a      *)
(* label fits what is loaded.                                               *)
(***************************************************************************)
EXTENDS Library, SharedDb, FiniteSetTheorems, TLAPS

(***************************************************************************)
(* The library.  Types.                                                    *)
(***************************************************************************)

CapTyped == cap \in [Captures -> {"missing", "pending", "stored", "deleted"}]
LimitTyped == /\ limit = [e \in DOMAIN limit |-> limit[e]]
              /\ "quota" \in DOMAIN limit /\ limit["quota"] \in Nat
ArchiveInv == CapTyped /\ LimitTyped

(***************************************************************************)
(* What a step may do to the captures, the records and the blobs.          *)
(***************************************************************************)
\* Whatever is done to files and records spares those of a capture with a row.
Spares == /\ cap' = cap
          /\ noted \cap Referenced \subseteq noted' /\ blob \cap Referenced \subseteq blob'

Comes(c) == cap[c] = "missing" /\ Reserved < limit["quota"] /\ cap' = [cap EXCEPT ![c] = "pending"]
Completes(c) == c \in Held /\ Complete(c) /\ cap' = [cap EXCEPT ![c] = "stored"]
Leaves(c) == cap' = [cap EXCEPT ![c] = "deleted"]

ArchiveStep == \/ Spares
               \/ /\ noted' = noted /\ blob' = blob
                  /\ \E c : Comes(c) \/ Completes(c) \/ Leaves(c)
LimitStep == limit' = limit \/ \E e : e # "quota" /\ limit' = [limit EXCEPT ![e] = @ - 1]

LEMMA SpareIs == ASSUME NEW e, e # "quota", Spare(e) PROVE LimitStep
BY DEF Spare, LimitStep

LEMMA PruneIs ==
    ASSUME NEW t, NEW c, NEW next, NEW keep, NEW backdated, Prunes(t, c, next, keep, backdated)
    PROVE  LimitStep
BY DEF Prunes, LimitStep

LEMMA AppendIs ==
    ASSUME NEW c, NEW pos, NEW work, Files1(c, work), Commits(c, pos, work), cap' = cap
    PROVE  ArchiveStep
BY DEF Files1, Commits, ArchiveStep, Spares

LEMMA CollectIs == ASSUME Collected, cap' = cap PROVE ArchiveStep
BY DEF Collected, ArchiveStep, Spares

LEMMA SameIs == ASSUME cap' = cap, noted' = noted, blob' = blob PROVE ArchiveStep
BY DEF ArchiveStep, Spares

LEMMA StoringStep ==
    ASSUME NEW t \in Threads, Storing(t)
    PROVE  ArchiveStep /\ limit' = limit
<1>1. CASE Evicts(t)
  BY <1>1, SameIs DEF Evicts, Deleted, ArchiveStep, Leaves
<1>2. CASE Collects(t)
  BY <1>2, CollectIs DEF Collects
<1>3. CASE Inserts(t)
  BY <1>3, SameIs DEF Inserts, ArchiveStep, Comes, Known, onDisk
<1>4. CASE Statuses(t)
  BY <1>4, SameIs DEF Statuses, onDisk
<1>5. CASE Appends(t)
  BY <1>5, AppendIs DEF Appends
<1>6. CASE Finalizes(t)
  BY <1>6, SameIs DEF Finalizes, ArchiveStep, Completes, onDisk
<1> QED
  BY <1>1, <1>2, <1>3, <1>4, <1>5, <1>6 DEF Storing

LEMMA ScanningStep ==
    ASSUME Scanning
    PROVE  ArchiveStep /\ LimitStep
<1>1. CASE Storing("scan")
  BY <1>1, StoringStep DEF Threads, LimitStep
<1>2. CASE ScanRecords
  BY <1>2, SameIs DEF ScanRecords, onDisk, LimitStep
<1>3. CASE ScanEnds
  BY <1>3, SameIs DEF ScanEnds, onDisk, LimitStep
<1>4. ASSUME NEW c \in Receipts, ScanTakes(c)
      PROVE  ArchiveStep /\ LimitStep
  <2>1. ArchiveStep
    BY <1>4, SameIs DEF ScanTakes, onDisk
  <2>2. limit' = limit \/ Creates("scan", c, FALSE)
    BY <1>4 DEF ScanTakes
  <2> QED
    BY <2>1, <2>2, PruneIs DEF Creates, LimitStep
<1> QED
  BY <1>1, <1>2, <1>3, <1>4 DEF Scanning

LEMMA ClientStep ==
    ASSUME CapTyped, FromClients
    PROVE  ArchiveStep /\ LimitStep
<1>1. ASSUME NEW c \in Uploads, SlicerCreates(c)
      PROVE  ArchiveStep /\ LimitStep
  BY <1>1, SameIs, PruneIs DEF SlicerCreates, Creates, onDisk
<1>2. ASSUME NEW c \in Uploads, SlicerFinalizes(c)
      PROVE  ArchiveStep /\ LimitStep
  BY <1>2 DEF SlicerFinalizes, ArchiveStep, Completes, Held, Captures, onDisk, LimitStep
<1>3. ASSUME NEW c \in Uploads, NEW pos, NEW good \in BOOLEAN, SlicerAppends(c, pos, good)
      PROVE  ArchiveStep /\ LimitStep
  <2>1. ArchiveStep
    BY <1>3, AppendIs DEF SlicerAppends
  <2>2. limit' = limit \/ Spare("bad")
    BY <1>3 DEF SlicerAppends
  <2> QED
    BY <2>1, <2>2, SpareIs DEF LimitStep
<1>4. ASSUME NEW c \in Captures, OwnerDeletes(c)
      PROVE  ArchiveStep /\ LimitStep
  BY <1>4, SpareIs DEF OwnerDeletes, Deleted, ArchiveStep, Leaves
<1>5. CASE OwnerCollects
  BY <1>5, CollectIs DEF OwnerCollects, LimitStep
<1> QED
  BY <1>1, <1>2, <1>3, <1>4, <1>5 DEF FromClients

LEMMA FaultStep ==
    ASSUME Faults
    PROVE  ArchiveStep /\ LimitStep
<1>1. CASE CollectBreaks
  BY <1>1, SpareIs DEF CollectBreaks, ArchiveStep, Spares
<1>2. CASE Crash
  BY <1>2, SameIs, SpareIs DEF Crash, onDisk
<1>3. ASSUME NEW t \in Threads, AppendBreaks(t)
      PROVE  ArchiveStep /\ LimitStep
  BY <1>3, SpareIs DEF AppendBreaks, Files1, ArchiveStep, Spares
<1> QED
  BY <1>1, <1>2, <1>3 DEF Faults

LEMMA CopyStep ==
    ASSUME NEW f \in Files, CopierTakes(f) \/ CatchUpTakes(f)
    PROVE  ArchiveStep /\ LimitStep
<1>1. CASE CopierTakes(f)
  <2>1. ArchiveStep
    BY <1>1, SameIs DEF CopierTakes, onDisk
  <2>2. Spare("unread") \/ Creates("copier", f, FALSE)
    BY <1>1 DEF CopierTakes
  <2> QED
    BY <2>1, <2>2, SpareIs, PruneIs DEF Creates
<1>2. CASE CatchUpTakes(f)
  BY <1>2, SameIs, PruneIs DEF CatchUpTakes, Creates, onDisk
<1> QED
  BY <1>1, <1>2

LEMMA LibraryStep ==
    ASSUME CapTyped, [LibraryNext]_libraryVars
    PROVE  ArchiveStep /\ LimitStep
<1>1. CASE ScanPrunes
  <2>1. ArchiveStep
    BY <1>1, SameIs DEF ScanPrunes, onDisk
  <2>2. PICK c \in Receipts : Prunes("scan", c, "done", limit.quota, FALSE)
    BY <1>1 DEF ScanPrunes
  <2> QED
    BY <2>1, <2>2, PruneIs
<1>2. ASSUME NEW t \in Threads, Storing(t)
      PROVE  ArchiveStep /\ LimitStep
  BY <1>2, StoringStep DEF LimitStep
<1>3. ASSUME NEW c \in Receipts, Prints(c)
      PROVE  ArchiveStep /\ LimitStep
  BY <1>3, SameIs, SpareIs DEF Prints, onDisk
<1>4. CASE UNCHANGED libraryVars
  BY <1>4, SameIs DEF libraryVars, onDisk, LimitStep
<1> QED
  BY <1>1, <1>2, <1>3, <1>4, ScanningStep, ClientStep, FaultStep, CopyStep DEF LibraryNext

(***************************************************************************)
(* The invariant: the state of each capture, and a quota.                  *)
(***************************************************************************)
LEMMA ArchiveStarts == ASSUME LibraryConstants, LibraryInit PROVE ArchiveInv
BY DEF LibraryConstants, LibraryInit, ArchiveInv, CapTyped, LimitTyped

LEMMA CapStays ==
    ASSUME CapTyped, ArchiveStep
    PROVE  CapTyped'
BY DEF CapTyped, ArchiveStep, Spares, Comes, Completes, Leaves

LEMMA LimitStays ==
    ASSUME LimitTyped, LimitStep
    PROVE  LimitTyped' /\ limit'["quota"] = limit["quota"]
<1>1. CASE limit' = limit
  BY <1>1 DEF LimitTyped
<1>2. ASSUME NEW e, e # "quota", limit' = [limit EXCEPT ![e] = @ - 1]
      PROVE  LimitTyped' /\ limit'["quota"] = limit["quota"]
  <2>1. DOMAIN limit' = DOMAIN limit /\ limit'["quota"] = limit["quota"]
    BY <1>2 DEF LimitTyped
  <2>2. limit' = [x \in DOMAIN limit' |-> limit'[x]]
    BY <1>2
  <2> QED
    BY <2>1, <2>2 DEF LimitTyped
<1> QED
  BY <1>1, <1>2 DEF LimitStep

LEMMA ArchiveStays ==
    ASSUME ArchiveInv, [LibraryNext]_libraryVars
    PROVE  ArchiveInv'
BY LibraryStep, CapStays, LimitStays DEF ArchiveInv

(***************************************************************************)
(* The three properties, step by step.                                     *)
(***************************************************************************)
LEMMA ReadableStays ==
    ASSUME CapTyped, StoredIsReadable, ArchiveStep
    PROVE  StoredIsReadable'
<1> SUFFICES ASSUME NEW c \in Captures, cap'[c] = "stored"
             PROVE  Content[c] \in noted' \cap blob'
  BY DEF StoredIsReadable
<1>1. CASE Spares
  <2>1. c \in Held /\ Content[c] \in noted \cap blob
    BY <1>1 DEF Spares, StoredIsReadable, Held
  <2>2. Content[c] \in Referenced
    BY <2>1 DEF Referenced
  <2> QED
    BY <1>1, <2>1, <2>2 DEF Spares
<1>2. ASSUME NEW d, Comes(d) \/ Completes(d) \/ Leaves(d), noted' = noted, blob' = blob
      PROVE  Content[c] \in noted' \cap blob'
  <2>1. CASE cap[c] = "stored"
    BY <1>2, <2>1 DEF StoredIsReadable
  <2>2. CASE cap[c] # "stored"
    <3>1. d = c /\ Completes(d)
      BY <1>2, <2>2 DEF Comes, Completes, Leaves, CapTyped
    <3> QED
      BY <1>2, <3>1 DEF Completes, Complete
  <2> QED
    BY <2>1, <2>2
<1> QED
  BY <1>1, <1>2 DEF ArchiveStep

LEMMA QuotaStays ==
    ASSUME LibraryConstants, ArchiveInv, QuotaKept, ArchiveStep, LimitStep
    PROVE  QuotaKept'
<1> USE DEF ArchiveInv
<1>1. IsFiniteSet(Held) /\ Cardinality(Held) \in Nat
  BY FS_Subset, FS_CardinalityType DEF LibraryConstants, Held
<1>2. limit'["quota"] = limit["quota"] /\ limit["quota"] \in Nat
  BY LimitStays DEF LimitTyped
<1>3. CASE Held' \subseteq Held
  <2>1. Cardinality(Held') <= Cardinality(Held)
    BY <1>1, <1>3, FS_Subset
  <2>2. Cardinality(Held') \in Nat
    BY <1>1, <1>3, FS_Subset, FS_CardinalityType
  <2> QED
    BY <1>1, <1>2, <2>1, <2>2 DEF QuotaKept
<1>4. CASE ~(Held' \subseteq Held)
  <2>1. PICK c : Comes(c)
    BY <1>4 DEF ArchiveStep, Spares, Completes, Leaves, Held, CapTyped
  <2>2. Held' \subseteq Held \cup {c}
    BY <2>1 DEF Comes, Held, CapTyped
  <2>3. IsFiniteSet(Held \cup {c}) /\ Cardinality(Held \cup {c}) <= Cardinality(Held) + 1
    BY <1>1, FS_AddElement
  <2>4. Cardinality(Held') \in Nat /\ Cardinality(Held') <= Cardinality(Held \cup {c})
    BY <2>2, <2>3, FS_Subset, FS_CardinalityType
  <2>5. Cardinality(Held \cup {c}) \in Nat /\ Cardinality(Held) < limit["quota"]
    BY <2>1, <2>3, FS_CardinalityType DEF Comes, Reserved
  <2> QED
    BY <1>1, <1>2, <2>3, <2>4, <2>5 DEF QuotaKept
<1> QED
  BY <1>3, <1>4

LEMMA DeletedIsKept ==
    ASSUME CapTyped, ArchiveStep
    PROVE  DeletedStays
BY DEF CapTyped, ArchiveStep, Spares, Comes, Completes, Leaves, Held, DeletedStays

(***************************************************************************)
(* The theorems.                                                           *)
(***************************************************************************)
\* Whatever can be interleaved, interrupted or collected, a finalized capture has its blob on
\* record and in blobs/: collect() spares what a row refers to, finalize() asks for both
\* first (library.py, library_history.py, print_capture.py).
THEOREM StoredStaysReadable ==
    ASSUME LibraryConstants
    PROVE  LibrarySpec => []StoredIsReadable
<1>1. LibraryInit => CapTyped /\ StoredIsReadable
  BY ArchiveStarts DEF ArchiveInv, LibraryInit, StoredIsReadable
<1>2. CapTyped /\ StoredIsReadable /\ [LibraryNext]_libraryVars => (CapTyped /\ StoredIsReadable)'
  BY LibraryStep, CapStays, ReadableStays
<1> QED
  BY <1>1, <1>2, PTL DEF LibrarySpec

\* What is reserved, by captures that are stored or still uploaded, never exceeds the quota,
\* however many threads create at once: the last check shares its transaction with the insert
\* (library.py, create()).
THEOREM HeldFitsQuota ==
    ASSUME LibraryConstants
    PROVE  LibrarySpec => []QuotaKept
<1>1. LibraryInit => ArchiveInv /\ QuotaKept
  <2> SUFFICES ASSUME LibraryInit PROVE QuotaKept
    BY ArchiveStarts
  <2>1. Held = {}
    BY DEF LibraryInit, Held
  <2> QED
    BY <2>1, ArchiveStarts, FS_EmptySet DEF ArchiveInv, LimitTyped, QuotaKept
<1>2. ArchiveInv /\ QuotaKept /\ [LibraryNext]_libraryVars => (ArchiveInv /\ QuotaKept)'
  BY ArchiveStays, LibraryStep, QuotaStays DEF ArchiveInv
<1> QED
  BY <1>1, <1>2, PTL DEF LibrarySpec

\* A tombstone is for good: no scan, copy, late request or rollback brings a deleted capture
\* back, since create() takes an unknown ID only and finalize() a row that is there
\* (library.py, library_history.py).
THEOREM DeletedForGood ==
    ASSUME LibraryConstants
    PROVE  LibrarySpec => TombstonesStay
<1>1. LibraryInit => CapTyped
  BY ArchiveStarts DEF ArchiveInv
<1>2. CapTyped /\ [LibraryNext]_libraryVars => CapTyped' /\ [DeletedStays]_libraryVars
  BY LibraryStep, CapStays, DeletedIsKept
<1> QED
  BY <1>1, <1>2, PTL DEF LibrarySpec, TombstonesStay

(***************************************************************************)
(* The shared connection.  What it sees and what is committed differ only   *)
(* while somebody has yet to commit, and in the migration, which commits    *)
(* once.                                                                    *)
(***************************************************************************)
Stuff == Materials \cup {Blank}
DbRec == [version : Nat, shifts : [Items -> Nat], queue : SUBSET Items, label : SUBSET Stuff]
TaskRec == [op : {"none", "dequeue", "label", "unlabel"}, at : {"none", "commit", "cache"}, arg : Stuff]
LabelsRec == [loaded : BOOLEAN, label : SUBSET Stuff]
ReportRec == [at : {"none", "seen", "load", "commit"}, read : SUBSET Stuff]

DbTyped == /\ up \in {"down", "open", "up"} /\ pending \in DbRec /\ disk \in DbRec
           /\ task \in [Clients -> TaskRec] /\ labels \in LabelsRec /\ report \in ReportRec
           /\ loaded \in Stuff /\ heard \in Stuff

Shifted(rows, n) == \A i \in rows.queue : rows.shifts[i] = n

\* A start that is cut short leaves the rows as they were; one that ends leaves each shifted once.
MigrationFits ==
    /\ disk.version \in {0, 1} /\ Shifted(disk, disk.version)
    /\ up = "down" => pending = disk
    /\ up = "open" => /\ pending.queue = disk.queue /\ pending.version \in {0, 1}
                      /\ pending.version = 0 => \A i \in pending.queue : pending.shifts[i] = IF i \in todo THEN 0 ELSE 1
                      /\ pending.version = 1 => todo = {} /\ Shifted(pending, 1)
    /\ up = "up" => pending.version = 1 /\ Shifted(pending, 1)

Durable == up = "up" /\ report.at # "commit" /\ (\A c \in Clients : task[c].at # "commit") => disk = pending

\* The cache of labels fits what was heard, also before the labels were read.
CacheFits == /\ ~ set /\ heard # Blank => \A m \in labels.label : m \in {Blank, heard}
             /\ ~ labels.loaded => labels.label = {}

DbInv == DbTyped /\ MigrationFits /\ Durable /\ CacheFits

LEMMA IdleIs == Idle \in TaskRec /\ Idle.at = "none" /\ Blank \in Stuff
BY DEF Idle, TaskRec, Stuff

LEMMA QuietIs ==
    /\ Quiet \in ReportRec /\ Quiet.at = "none"
    /\ \A at \in {"seen", "commit"} : [Quiet EXCEPT !.at = at] \in ReportRec /\ [Quiet EXCEPT !.at = at].at = at
BY DEF Quiet, NoLabel, ReportRec

LEMMA DbStarts ==
    ASSUME DbInit
    PROVE  DbInv
<1>1. disk \in DbRec /\ disk.version = 0 /\ disk.queue = Items /\ disk.shifts = [i \in Items |-> 0]
  BY DEF DbInit, DbRec, NoLabel
<1>2. labels \in LabelsRec /\ labels.label = {}
  BY DEF DbInit, LabelsRec, NoLabel
<1>3. DbTyped
  BY <1>1, <1>2, IdleIs, QuietIs DEF DbInit, DbTyped
<1>4. MigrationFits
  BY <1>1 DEF DbInit, MigrationFits, Shifted
<1>5. Durable /\ CacheFits
  BY <1>2 DEF DbInit, Durable, CacheFits
<1> QED
  BY <1>3, <1>4, <1>5 DEF DbInv

(***************************************************************************)
(* The start: the migration, and a process that stops at any step.          *)
(***************************************************************************)
LEMMA MigrationSteps ==
    ASSUME DbInv, Opens \/ (\E i \in Items : Shifts(i)) \/ Versions \/ Migrates
    PROVE  DbInv'
<1>0. DbTyped /\ MigrationFits /\ CacheFits
  BY DEF DbInv
<1>1. UNCHANGED <<task, labels, loaded, heard, report, set>>
  BY DEF Opens, Shifts, Versions, Migrates, Slot
<1>2. CASE Opens
  <2>1. up = "down" /\ up' = "open" /\ UNCHANGED <<pending, disk>> /\ todo' = (IF disk.version = 0 THEN disk.queue ELSE {})
    BY <1>2 DEF Opens
  <2>2. pending = disk /\ Shifted(disk, disk.version) /\ disk.version \in {0, 1}
    BY <1>0, <2>1 DEF MigrationFits
  <2> QED
    BY <1>0, <1>1, <2>1, <2>2 DEF DbInv, DbTyped, MigrationFits, Durable, CacheFits, Shifted
<1>3. ASSUME NEW i \in Items, Shifts(i) PROVE DbInv'
  <2>1. /\ up = "open" /\ up' = up /\ i \in todo /\ todo' = todo \ {i} /\ disk' = disk
        /\ pending' = [pending EXCEPT !.shifts[i] = @ + 1]
    BY <1>3 DEF Shifts, Writes, Kept, InTransaction
  <2>2. pending.shifts \in [Items -> Nat] /\ pending \in DbRec
    BY <1>0 DEF DbTyped, DbRec
  <2>3. pending.shifts[i] + 1 \in Nat
    BY <2>2
  <2>4. /\ pending' \in DbRec /\ pending'.queue = pending.queue /\ pending'.version = pending.version
        /\ pending'.shifts = [pending.shifts EXCEPT ![i] = @ + 1]
    BY <2>1, <2>2, <2>3 DEF DbRec
  <2>5. pending.version = 0 /\ \A j \in pending.queue : pending.shifts[j] = IF j \in todo THEN 0 ELSE 1
    BY <1>0, <2>1 DEF MigrationFits
  <2>6. \A j \in pending'.queue : pending'.shifts[j] = IF j \in todo' THEN 0 ELSE 1
    BY <2>1, <2>2, <2>4, <2>5 DEF DbRec
  <2>7. MigrationFits'
    BY <1>0, <2>1, <2>4, <2>5, <2>6 DEF MigrationFits, Shifted
  <2> QED
    BY <1>0, <1>1, <2>1, <2>4, <2>7 DEF DbInv, DbTyped, Durable, CacheFits
<1>4. CASE Versions
  <2>1. up = "open" /\ up' = up /\ pending.version = 0 /\ todo = {} /\ todo' = todo /\ disk' = disk
        /\ pending' = [pending EXCEPT !.version = 1]
    BY <1>4 DEF Versions, Writes, Kept, InTransaction
  <2>2. /\ pending' \in DbRec /\ pending'.queue = pending.queue /\ pending'.version = 1
        /\ pending'.shifts = pending.shifts
    BY <1>0, <2>1 DEF DbTyped, DbRec
  <2>3. MigrationFits'
    BY <1>0, <2>1, <2>2 DEF MigrationFits, Shifted
  <2> QED
    BY <1>0, <1>1, <2>1, <2>2, <2>3 DEF DbInv, DbTyped, Durable, CacheFits
<1>5. CASE Migrates
  <2>1. up = "open" /\ up' = "up" /\ pending.version = 1 /\ pending' = pending /\ disk' = pending
    BY <1>5 DEF Migrates, Commit
  <2> QED
    BY <1>0, <1>1, <2>1 DEF DbInv, DbTyped, MigrationFits, Durable, CacheFits, Shifted
<1> QED
  BY <1>2, <1>3, <1>4, <1>5

LEMMA CrashStep ==
    ASSUME DbInv, Crashes
    PROVE  DbInv'
<1>1. /\ up' = "down" /\ pending' = disk /\ disk' = disk /\ task' = [c \in Clients |-> Idle] /\ heard' = Blank
      /\ report' = Quiet /\ loaded' = loaded /\ labels' = [loaded |-> FALSE, label |-> NoLabel]
  BY DEF Crashes
<1>2. labels' \in LabelsRec /\ labels'.label = {}
  BY <1>1 DEF LabelsRec, NoLabel
<1> QED
  BY <1>1, <1>2, IdleIs, QuietIs DEF DbInv, DbTyped, MigrationFits, Durable, CacheFits, Shifted

(***************************************************************************)
(* Requests and reports.                                                    *)
(***************************************************************************)
\* While the bridge is up, the queue may shrink and the label change, and a commit is everybody's.
LEMMA UpFits ==
    ASSUME DbInv, up = "up", up' = up, pending' \in DbRec, disk' \in {disk, pending}, pending'.queue \subseteq pending.queue,
           pending'.version = pending.version, pending'.shifts = pending.shifts
    PROVE  MigrationFits' /\ disk' \in DbRec
BY DEF DbInv, DbTyped, MigrationFits, Shifted

LEMMA RequestSteps ==
    ASSUME DbInv, NEW c \in Clients,
           \/ \E i \in Items : Dequeues(c, i)
           \/ Labels(c) \/ Unlabels(c)
    PROVE  DbInv'
<1>0. DbTyped /\ CacheFits /\ pending \in DbRec /\ heard \in Stuff
  BY DEF DbInv, DbTyped
<1>1. /\ UNCHANGED <<up, disk, labels, loaded, heard, report, set>> /\ up = "up"
      /\ \E x \in TaskRec : task' = [task EXCEPT ![c] = x] /\ x.at = "commit"
  <2>1. PICK op \in {"dequeue", "label", "unlabel"}, arg \in Stuff : Begins(c, op, arg)
    BY <1>0, IdleIs DEF Dequeues, Labels, Unlabels
  <2> DEFINE x == [op |-> op, at |-> "commit", arg |-> arg]
  <2>2. x \in TaskRec /\ x.at = "commit"
    BY DEF TaskRec
  <2> QED
    BY <2>1, <2>2 DEF Begins, Dequeues, Labels, Unlabels, Slot
<1>2. /\ pending' \in DbRec /\ pending'.queue \subseteq pending.queue
      /\ pending'.version = pending.version /\ pending'.shifts = pending.shifts
  BY <1>0 DEF Dequeues, Labels, Unlabels, DbRec, NoLabel
<1>3. task' \in [Clients -> TaskRec] /\ task'[c].at = "commit"
  BY <1>0, <1>1 DEF DbTyped
<1>4. MigrationFits'
  BY <1>1, <1>2, UpFits
<1> QED
  BY <1>0, <1>1, <1>2, <1>3, <1>4 DEF DbInv, DbTyped, Durable, CacheFits

LEMMA AnswerSteps ==
    ASSUME DbInv, NEW c \in Clients, Persists(c) \/ Caches(c)
    PROVE  DbInv'
<1>0. /\ DbTyped /\ CacheFits /\ pending \in DbRec /\ heard \in Stuff /\ Durable
      /\ task \in [Clients -> TaskRec] /\ task[c] \in TaskRec /\ labels \in LabelsRec
  BY DEF DbInv, DbTyped
<1>1. up = "up" /\ UNCHANGED <<up, pending, loaded, heard, report>>
  BY DEF Persists, Caches, Slot
<1>2. CASE Persists(c)
  <2>1. disk' = pending /\ task' = [task EXCEPT ![c].at = "cache"] /\ UNCHANGED <<labels, set>>
    BY <1>2 DEF Persists, Committed, WithCommit, Commit, Does, Slot
  <2>2. task' \in [Clients -> TaskRec]
    BY <1>0, <2>1 DEF TaskRec
  <2>3. MigrationFits'
    BY <1>0, <1>1, <2>1, UpFits
  <2> QED
    BY <1>0, <1>1, <2>1, <2>2, <2>3 DEF DbInv, DbTyped, Durable, CacheFits
<1>3. CASE Caches(c)
  <2>1. disk' = disk /\ task' = [task EXCEPT ![c] = Idle] /\ task[c].at = "cache"
    BY <1>3 DEF Caches
  <2>2. task' \in [Clients -> TaskRec] /\ \A d \in Clients : task'[d].at # "commit" => task[d].at # "commit"
    BY <1>0, <2>1, IdleIs
  <2>3. MigrationFits'
    BY <1>0, <1>1, <2>1, UpFits
  <2>4. Durable'
    BY <1>0, <1>1, <2>1, <2>2 DEF Durable
  <2>5. labels' \in LabelsRec /\ CacheFits'
    <3>1. CASE task[c].op = "label"
      <4>1. labels' = [loaded |-> TRUE, label |-> {task[c].arg}] /\ set' = TRUE
        BY <1>3, <3>1 DEF Caches
      <4>2. labels' \in LabelsRec /\ labels'.loaded = TRUE
        BY <1>0, <4>1 DEF LabelsRec, TaskRec
      <4> QED
        BY <4>1, <4>2 DEF CacheFits
    <3>2. CASE task[c].op = "unlabel"
      <4>1. labels' = [labels EXCEPT !.label = {}]
        BY <1>3, <3>2 DEF Caches, NoLabel
      <4>2. labels' \in LabelsRec /\ labels'.label = {}
        BY <1>0, <4>1 DEF LabelsRec
      <4> QED
        BY <4>2 DEF CacheFits
    <3>3. CASE task[c].op \notin {"label", "unlabel"}
      <4>1. UNCHANGED <<labels, set>>
        BY <1>3, <3>3 DEF Caches
      <4> QED
        BY <1>0, <1>1, <4>1 DEF CacheFits
    <3> QED
      BY <3>1, <3>2, <3>3
  <2> QED
    BY <1>0, <1>1, <2>1, <2>2, <2>3, <2>4, <2>5 DEF DbInv, DbTyped
<1> QED
  BY <1>2, <1>3

\* What a check keeps in the cache fits the report, and what it drops is still to be committed.
LEMMA Checked ==
    ASSUME DbInv, up = "up", UNCHANGED <<up, disk, task, loaded>>, NEW label \in SUBSET Stuff, NEW was,
           heard' \in Stuff, Check(label, heard', was), report.at # "commit"
    PROVE  DbInv'
<1>0. DbTyped /\ pending \in DbRec /\ Durable
  BY DEF DbInv, DbTyped
<1>1. CASE Stale(label, heard', was)
  <2>1. /\ labels' = [loaded |-> TRUE, label |-> {}] /\ pending' = [pending EXCEPT !.label = {}]
        /\ report' = [Quiet EXCEPT !.at = "commit"]
    BY <1>1 DEF Check, NoLabel
  <2>2. /\ labels' \in LabelsRec /\ labels'.label = {} /\ pending' \in DbRec /\ report' \in ReportRec /\ report'.at = "commit"
        /\ pending'.version = pending.version /\ pending'.shifts = pending.shifts /\ pending'.queue = pending.queue
    BY <1>0, <2>1, QuietIs DEF LabelsRec, DbRec
  <2>3. MigrationFits'
    BY <2>2, UpFits
  <2> QED
    BY <1>0, <2>2, <2>3 DEF DbInv, DbTyped, Durable, CacheFits
<1>2. CASE ~ Stale(label, heard', was)
  <2>1. labels' = [loaded |-> TRUE, label |-> label] /\ pending' = pending /\ report' = Quiet
    BY <1>2 DEF Check
  <2>2. labels' \in LabelsRec /\ labels'.label = label /\ labels'.loaded = TRUE
    BY <2>1 DEF LabelsRec
  <2>3. heard' # Blank => \A m \in label : m \in {Blank, heard'}
    BY <1>2 DEF Stale, Other, ByLabel
  <2>4. MigrationFits'
    BY <1>0, <2>1, UpFits
  <2> QED
    BY <1>0, <2>1, <2>2, <2>3, <2>4, QuietIs DEF DbInv, DbTyped, Durable, CacheFits
<1> QED
  BY <1>1, <1>2

LEMMA ReportSteps ==
    ASSUME DbInv, Reports \/ Merges \/ Loads \/ Invalidated
    PROVE  DbInv'
<1>0. /\ DbTyped /\ CacheFits /\ pending \in DbRec /\ heard \in Stuff /\ Durable /\ loaded \in Stuff
      /\ labels \in LabelsRec /\ labels.label \in SUBSET Stuff /\ report \in ReportRec /\ report.read \in SUBSET Stuff
      /\ pending.label \in SUBSET Stuff
  BY DEF DbInv, DbTyped, LabelsRec, ReportRec, DbRec
<1>1. CASE Reports \/ Invalidated
  <2>1. /\ up = "up" /\ UNCHANGED <<up, pending, task, labels, loaded, heard, set>> /\ disk' = pending
        /\ report' \in ReportRec
    BY <1>1, QuietIs DEF Reports, Invalidated, Commit
  <2>2. MigrationFits'
    BY <1>0, <2>1, UpFits
  <2> QED
    BY <1>0, <2>1, <2>2 DEF DbInv, DbTyped, Durable, CacheFits
<1>2. CASE Merges /\ labels.loaded
  <2>1. /\ up = "up" /\ report.at = "seen" /\ heard' = loaded /\ Check(labels.label, loaded, heard)
        /\ UNCHANGED <<up, disk, task, loaded>>
    BY <1>2 DEF Merges
  <2> QED
    BY <1>0, <2>1, Checked
<1>3. CASE Merges /\ ~ labels.loaded
  <2>1. /\ up = "up" /\ report.at = "seen" /\ heard' = loaded /\ report' = [at |-> "load", read |-> pending.label]
        /\ UNCHANGED <<up, disk, pending, labels, set, task, loaded>>
    BY <1>3 DEF Merges
  <2>2. report' \in ReportRec
    BY <1>0, <2>1 DEF ReportRec
  <2>3. MigrationFits'
    BY <1>0, <2>1, UpFits
  <2> QED
    BY <1>0, <1>3, <2>1, <2>2, <2>3 DEF DbInv, DbTyped, Durable, CacheFits
<1>4. CASE Loads
  <2>1. /\ up = "up" /\ report.at = "load" /\ heard' = heard /\ Check(report.read, heard, heard)
        /\ UNCHANGED <<up, disk, task, loaded>>
    BY <1>4 DEF Loads
  <2> QED
    BY <1>0, <2>1, Checked
<1> QED
  BY <1>1, <1>2, <1>3, <1>4

LEMMA DbStays ==
    ASSUME DbInv, [DbNext]_dbVars
    PROVE  DbInv'
<1>1. ASSUME NEW m \in Stuff, Swaps(m) PROVE DbInv'
  BY <1>1 DEF Swaps, DbInv, DbTyped, MigrationFits, Durable, CacheFits, Shifted
<1>2. CASE UNCHANGED dbVars
  BY <1>2 DEF dbVars, DbInv, DbTyped, MigrationFits, Durable, CacheFits, Shifted
<1> QED
  BY <1>1, <1>2, MigrationSteps, CrashStep, RequestSteps, AnswerSteps, ReportSteps DEF DbNext, Stuff

\* However starts, requests and reports meet on the one connection, and wherever the process stops:
\* a queued tray is shifted exactly once, what was answered is on the disk when nothing is under
\* way, and no label outlives a report of another material (db/jobs.py: connect(), QueueRepo,
\* FilamentMemoryRepo; service/printer.py).
THEOREM SharedDbIsSound == DbSpec => []DbSound
<1>1. DbInv => DbSound
  <2> SUFFICES ASSUME DbInv PROVE DbSound
    OBVIOUS
  <2>1. ShiftedOnce
    BY DEF DbInv, MigrationFits, Shifted, ShiftedOnce
  <2>2. DoneIsDurable
    BY IdleIs, QuietIs DEF DbInv, Durable, DoneIsDurable, Nothing
  <2>3. LabelFits
    BY DEF DbInv, CacheFits, LabelFits
  <2> QED
    BY <2>1, <2>2, <2>3 DEF DbSound
<1> QED
  BY <1>1, DbStarts, DbStays, PTL DEF DbSpec
=============================================================================
