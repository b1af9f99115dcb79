------------------------------ MODULE MCStores ------------------------------
(***************************************************************************)
(* What the bridge keeps and hands out, for TLC: the queue and the tables   *)
(* of the database, the event log and its readers, the previews, the        *)
(* listings of the card, the library of printed files and the FTPS          *)
(* sessions. The parts share no state; a behaviour is one of one part.      *)
(***************************************************************************)
EXTENDS PrintQueue

CONSTANTS Materials, DbLimits, Requests, Services, QueueBound, PageLimit, FeedLimits, Jobs,
          Contents, Size, Parses, Viewers, CacheMax, PreviewCases, Names, Sizes, Year, Recent,
          MemoMax, TableMax, MdtmMax, ListingLimits, Uploads, Receipts, Files, Content, Chunks,
          Tries, LibraryCases, Dirs, Home, FtpsLimits

VARIABLE part       \* the part a behaviour is of
VARIABLES up, todo, pending, dbDisk, task, labels, loaded, heard, report, set, spare
VARIABLES phase, known, service, live, last, request, reader, said, rows, cleared, pushed, missed,
          room
VARIABLES card, written, caches, revs, digest, sources, previewsTask, current, previewsPending,
          dirty, raced, may
VARIABLES clock, listingCard, mlsd, dateless, memo, table, learner, lister, answer, left
VARIABLES cap, off, staging, noted, blob, age, thread, unseen, tries, refused, limit
VARIABLES custody, session, slot, channel, data, printing, ended, ftpsRefused, spoiled, ftpsSpare

Db == INSTANCE SharedDb WITH disk <- dbDisk
Feed == INSTANCE EventFeed
Preview == INSTANCE Previews WITH task <- previewsTask, pending <- previewsPending
Listing == INSTANCE FileListing WITH card <- listingCard
Archive == INSTANCE Library
Ftps == INSTANCE FtpsSession WITH refused <- ftpsRefused, spare <- ftpsSpare

(* A part that is not chosen rests: PrintQueue in its first state, the others at nothing. *)
DbRests == up = 0 /\ todo = 0 /\ pending = 0 /\ dbDisk = 0 /\ task = 0 /\ labels = 0 /\ loaded = 0
    /\ heard = 0 /\ report = 0 /\ set = 0 /\ spare = 0
FeedRests == phase = 0 /\ known = 0 /\ service = 0 /\ live = 0 /\ last = 0 /\ request = 0 /\ reader
    = 0 /\ said = 0 /\ rows = 0 /\ cleared = 0 /\ pushed = 0 /\ missed = 0 /\ room = 0
PreviewRests == card = 0 /\ written = 0 /\ caches = 0 /\ revs = 0 /\ digest = 0 /\ sources = 0 /\
    previewsTask = 0 /\ current = 0 /\ previewsPending = 0 /\ dirty = 0 /\ raced = 0 /\ may = 0
ListingRests == clock = 0 /\ listingCard = 0 /\ mlsd = 0 /\ dateless = 0 /\ memo = 0 /\ table = 0 /\
    learner = 0 /\ lister = 0 /\ answer = 0 /\ left = 0
ArchiveRests == cap = 0 /\ off = 0 /\ staging = 0 /\ noted = 0 /\ blob = 0 /\ age = 0 /\ thread = 0
    /\ unseen = 0 /\ tries = 0 /\ refused = 0 /\ limit = 0
FtpsRests == custody = 0 /\ session = 0 /\ slot = 0 /\ channel = 0 /\ data = 0 /\ printing = 0 /\
    ended = 0 /\ ftpsRefused = 0 /\ spoiled = 0 /\ ftpsSpare = 0
dbVars == <<up, todo, pending, dbDisk, task, labels, loaded, heard, report, set, spare>>
feedVars == <<phase, known, service, live, last, request, reader, said, rows, cleared, pushed,
             missed, room>>
previewsVars == <<card, written, caches, revs, digest, sources, previewsTask, current,
             previewsPending, dirty, raced, may>>
listingVars == <<clock, listingCard, mlsd, dateless, memo, table, learner, lister, answer, left>>
libraryVars == <<cap, off, staging, noted, blob, age, thread, unseen, tries, refused, limit>>
ftpsVars == <<custody, session, slot, channel, data, printing, ended, ftpsRefused, spoiled,
             ftpsSpare>>

PartInit ==
    /\ QueueInit
    /\ \/ part = "queue" /\ DbRests /\ FeedRests /\ PreviewRests /\ ListingRests /\ ArchiveRests /\ FtpsRests
       \/ part = "db" /\ Db!DbInit /\ FeedRests /\ PreviewRests /\ ListingRests /\ ArchiveRests /\
          FtpsRests
       \/ part = "feed" /\ Feed!FeedInit /\ DbRests /\ PreviewRests /\ ListingRests /\ ArchiveRests
          /\ FtpsRests
       \/ part = "previews" /\ Preview!PreviewInit /\ DbRests /\ FeedRests /\ ListingRests /\
          ArchiveRests /\ FtpsRests
       \/ part = "listing" /\ Listing!ListingInit /\ DbRests /\ FeedRests /\ PreviewRests /\
          ArchiveRests /\ FtpsRests
       \/ part = "library" /\ Archive!LibraryInit /\ DbRests /\ FeedRests /\ PreviewRests /\
          ListingRests /\ FtpsRests
       \/ part = "ftps" /\ Ftps!FtpsInit /\ DbRests /\ FeedRests /\ PreviewRests /\ ListingRests /\
          ArchiveRests

PartNext ==
    \/ part = "queue" /\ QueueNext /\ UNCHANGED <<part, dbVars, feedVars, previewsVars, listingVars, libraryVars, ftpsVars>>
    \/ part = "db" /\ Db!DbNext
       /\ UNCHANGED <<part, vars, feedVars, previewsVars, listingVars, libraryVars, ftpsVars>>
    \/ part = "feed" /\ Feed!FeedNext
       /\ UNCHANGED <<part, vars, dbVars, previewsVars, listingVars, libraryVars, ftpsVars>>
    \/ part = "previews" /\ Preview!PreviewNext
       /\ UNCHANGED <<part, vars, dbVars, feedVars, listingVars, libraryVars, ftpsVars>>
    \/ part = "listing" /\ Listing!ListingNext
       /\ UNCHANGED <<part, vars, dbVars, feedVars, previewsVars, libraryVars, ftpsVars>>
    \/ part = "library" /\ Archive!LibraryNext
       /\ UNCHANGED <<part, vars, dbVars, feedVars, previewsVars, listingVars, ftpsVars>>
    \/ part = "ftps" /\ Ftps!FtpsNext
       /\ UNCHANGED <<part, vars, dbVars, feedVars, previewsVars, listingVars, libraryVars>>

PartSpec == PartInit /\ [][PartNext]_<<part, vars, dbVars, feedVars, previewsVars, listingVars,
            libraryVars, ftpsVars>>

------------------------------------------------------------------------------
(* What may happen in a behaviour of each part, and how often. *)
MCDbLimits == {[requests |-> 3, swaps |-> 1, crashes |-> 0],
   [requests |-> 1, swaps |-> 3, crashes |-> 1],
   [requests |-> 2, swaps |-> 1, crashes |-> 1]}
MCServices == 1 .. 2
MCFeedLimits == {[events |-> 2, faults |-> 1, changes |-> 2, ends |-> 1, others |-> 1, raises |-> 0],
   [events |-> 3, faults |-> 1, changes |-> 0, ends |-> 1, others |-> 1, raises |-> 0]}
MCSize == [c \in Contents |-> IF c = 3 THEN 2 ELSE 1]
MCParses == [c \in Contents |-> IF c = 3 THEN {"mesh"} ELSE {"mesh", "path"}]
Happens(asks, writes, starts, fault, blind, drops) ==
    [asks |-> asks, writes |-> writes, starts |-> starts, fault |-> fault, blind |-> blind, drops |-> drops]
MCPreviewCases == {Happens(2, 1, 0, 0, FALSE, TRUE), Happens(1, 0, 1, 1, FALSE, FALSE), Happens(1, 1, 0, 1, TRUE, FALSE), Happens(0, 1, 1, 0, FALSE, TRUE)}
MCListingLimits ==
  {[ticks |-> 2, writes |-> 2, learns |-> 1, refusals |-> 0, restarts |-> 0, lists |-> 1, ahead |-> 0],
   [ticks |-> 0, writes |-> 2, learns |-> 2, refusals |-> 0, restarts |-> 1, lists |-> 1, ahead |-> 0],
   [ticks |-> 0, writes |-> 2, learns |-> 1, refusals |-> 1, restarts |-> 1, lists |-> 1, ahead |-> 0]}
MCContent == [c \in {"u", "n", "f"} |-> IF c = "f" THEN 1 ELSE 0]
LibraryCase(quota, threads, events) ==
    [e \in {"quota", "active", "old", "unread", "bad", "delete", "print", "fault"} |->
        CASE e = "quota" -> quota [] e = "active" -> threads
          [] OTHER -> IF e \in events THEN IF e = "fault" THEN 2 ELSE 1 ELSE 0]
MCLibraryCases == {LibraryCase(3, {"slicer", "scan"}, {"print", "fault", "bad", "delete"}),
                   LibraryCase(2, {"scan", "copier"}, {"print", "fault", "delete"}),
                   LibraryCase(2, {"slicer", "scan", "copier"}, {"print", "old"}),
                   LibraryCase(1, {"copier", "catchup", "slicer"}, {"unread", "delete"})}
ASSUME ArchiveAssumption == Archive!LibraryConstants   \* what StoresProofs asks of the library's
MCFtpsLimits == {[channels |-> 2, moves |-> 1, prints |-> 1, faults |-> 1, odd |-> 0],
   [channels |-> 3, moves |-> 0, prints |-> 1, faults |-> 0, odd |-> 0]}

------------------------------------------------------------------------------
(* Properties.                                                              *)

\* The tables: queue positions stay dense, an item leaves the queue only for a job that took it
\* and starts once (api/queue.py); the shift of the trays is made once, an answered request is
\* on disk, a label fits the filament that is loaded (db/jobs.py, api/filament.py).
TablesSound == /\ QueueTypeOK /\ PositionsDense /\ RemovedWasAccepted /\ StartedOnce
               /\ part = "db" => Db!DbSound

\* The event log: what was told is logged once, in order and none missed while its reader lives,
\* each service has one reader, a page is full, an orderly end ends everything.
FeedSound == part = "feed" => Feed!FeedSound

\* The card as it is shown: a preview is of the file that was there after it was asked for, its
\* tag names its body; a listing shows the date learned last, newest first, and a refusal as one.
FilesSound == /\ part = "previews" => Preview!PreviewsAreCurrent
              /\ part = "listing" => Listing!ListingSound

\* What the library holds can be read and fits the quota, through crashes and collections.
LibrarySound == part = "library" => Archive!LibrarySound

\* A capture that was deleted or evicted does not come back.
TombstonesStay == [][part = "library" => Archive!DeletedStays]_libraryVars

\* An FTPS session answers what its client meant, however channels and connections race.
FtpsSound == part = "ftps" => Ftps!FtpsSound
=============================================================================
