----------------------------- MODULE FileListing -----------------------------
(***************************************************************************)
(* The listing of the printer's card, newest first (protocol/ftps.py,            *)
(* api/files.py), with the slice dates the bridge learns whenever it reads an       *)
(* archive anyway: a small cache in the process and a table (db/jobs.py).           *)
(*                                                                         *)
(* Time is counted in ticks, Year to the year.  A LIST line of a recent file has no *)
(* year; of an old one, no hour, which nothing here tells apart.                  *)
(***************************************************************************)
EXTENDS Naturals, FiniteSets, Sequences, SequencesExt

CONSTANTS Names, Sizes,
          Year, Recent,           \* a LIST line is without a year for Recent ticks
          MemoMax, TableMax, MdtmMax,
          ListingLimits           \* bounds: [ticks, writes, learns, lists, refusals, restarts, ahead]

VARIABLES clock, card,       \* name -> [size, sliced, written], or the size 0 for no file
          mlsd, dateless,    \* the daemon knows MLSD; the names whose LIST date cannot be read
          memo,              \* the process's cache, oldest first: [name, size, sliced]
          table,             \* sliced_dates, in the order learned
          learner,           \* who writes what it learned: [at, row]
          lister,            \* the request: [at, tries, found, seen, fromTable]
          answer,            \* what it was answered
          left

listingVars == <<clock, card, mlsd, dateless, memo, table, learner, lister, answer, left>>
NoFile == [size |-> 0, sliced |-> 0, written |-> 0]
NoRow == [name |-> "none", size |-> 0, sliced |-> 0]
Waiting == [at |-> "none", tries |-> 0, found |-> {}, seen |-> {}, fromTable |-> {}]
NoAnswer == [kind |-> "none", files |-> {}, seen |-> {}, known |-> {}]
ListingInit ==
    /\ clock = 2 * Year - 1 /\ card = [n \in Names |-> NoFile] /\ mlsd \in BOOLEAN /\ dateless \in {{}, Names}
    /\ memo = <<>> /\ table = <<>> /\ learner = [at |-> "none", row |-> NoRow] /\ lister = Waiting /\ answer = NoAnswer
    /\ left \in ListingLimits
Less(what) == left[what] > 0 /\ left' = [left EXCEPT ![what] = @ - 1]
Outside == UNCHANGED <<mlsd, dateless>>
Latest(S) == CHOOSE t \in S : \A u \in S : u <= t

------------------------------------------------------------------------------
(* The card and the time.                                                   *)

Ticks == /\ Less("ticks") /\ clock' = clock + 1
         /\ UNCHANGED <<card, memo, table, learner, lister, answer>> /\ Outside
\* A file is put on the card, perhaps one that was sliced long ago.
Writes(n, size, sliced) ==
    /\ Less("writes") /\ sliced <= clock /\ card' = [card EXCEPT ![n] = [size |-> size, sliced |-> sliced, written |-> clock]]
    /\ UNCHANGED <<clock, memo, table, learner, lister, answer>> /\ Outside
Removes(n) == /\ card[n] # NoFile /\ Less("writes") /\ card' = [card EXCEPT ![n] = NoFile]
              /\ UNCHANGED <<clock, memo, table, learner, lister, answer>> /\ Outside
Restarts == /\ Less("restarts") /\ memo' = <<>> /\ learner' = [at |-> "none", row |-> NoRow] /\ lister' = Waiting
            /\ UNCHANGED <<clock, card, table, answer>> /\ Outside

------------------------------------------------------------------------------
(* SlicedDateMemo and SlicedDateRepo.                                       *)

SameKey(r, s) == r.name = s.name /\ r.size = s.size
Without(rows, row) == SelectSeq(rows, LAMBDA r : ~ SameKey(r, row))
\* put() of the cache evicts its oldest entry when it is full and the key is new.
Cached(row) == LET kept == Without(memo, row)
               IN Append(IF kept = memo /\ Len(memo) >= MemoMax THEN Tail(memo) ELSE kept, row)
Learns(n) ==
    /\ learner.at = "none" /\ card[n] # NoFile /\ Less("learns")
    /\ LET row == [name |-> n, size |-> card[n].size, sliced |-> card[n].sliced]
       IN memo' = Cached(row) /\ learner' = [at |-> "table", row |-> row]
    /\ UNCHANGED <<clock, card, table, lister, answer>> /\ Outside
\* INSERT OR REPLACE and its commit; the pruning is a transaction of its own.
Stored(row) == Append(Without(table, row), row)
Stores == /\ learner.at = "table" /\ table' = Stored(learner.row) /\ learner' = [learner EXCEPT !.at = "prune"]
          /\ UNCHANGED <<clock, card, memo, lister, answer, left>> /\ Outside
Prunes == /\ learner.at = "prune" /\ learner' = [at |-> "none", row |-> NoRow]
          /\ table' = (IF Len(table) > TableMax THEN Tail(table) ELSE table)
          /\ UNCHANGED <<clock, card, memo, lister, answer, left>> /\ Outside
Rows(rows) == {rows[i] : i \in DOMAIN rows}
Dates(rows, n) == {r.sliced : r \in {s \in rows : s.name = n}}

------------------------------------------------------------------------------
(* FtpsTransfer.list_dir_with_timestamps().                                 *)

\* The year of a LIST date without one: this year, or the last if that is yet to come.
SteppedBack(t) == LET guess == (clock \div Year) * Year + (t % Year)
                  IN IF guess > clock THEN guess - Year ELSE guess
ThisYear(t) == (clock \div Year) * Year + (t % Year)
Inferred(t) == SteppedBack(t)
Shown(n) == card[n].written + left.ahead         \* on the printer's clock
ListDate(n) == IF clock - card[n].written <= Recent THEN Inferred(Shown(n)) ELSE Shown(n)
Present == {n \in Names : card[n] # NoFile}
\* The first MdtmMax of the entries without a date are asked for one by one.
Asked == CHOOSE S \in SUBSET (Present \cap dateless) :
             Cardinality(S) = (IF Cardinality(Present \cap dateless) <= MdtmMax THEN Cardinality(Present \cap dateless) ELSE MdtmMax)
Modified(n) == IF mlsd \/ n \in Asked THEN Shown(n) ELSE IF n \in dateless THEN 0 ELSE ListDate(n)
Entries == {[name |-> n, modified |-> Modified(n)] : n \in Present}

ListRequests == /\ lister.at = "none" /\ Less("lists")
                /\ lister' = [Waiting EXCEPT !.at = "list", !.tries = 2]
                /\ UNCHANGED <<clock, card, memo, table, learner, answer>> /\ Outside
Found(entries) == lister' = [lister EXCEPT !.at = "table", !.found = entries,
                                           !.seen = {[name |-> n, written |-> card[n].written] : n \in Present}]
Lists == /\ lister.at = "list" /\ Found(Entries)
         /\ UNCHANGED <<clock, card, memo, table, learner, answer, left>> /\ Outside
\* The root is refused while the printer opens a job: tried once more, then an error, never an
\* empty listing.
Strictly == IF lister.tries > 1 THEN lister' = [lister EXCEPT !.tries = @ - 1] /\ UNCHANGED answer
            ELSE lister' = Waiting /\ answer' = [NoAnswer EXCEPT !.kind = "503"]
Degrades == Found({}) /\ UNCHANGED answer
Refusal == Strictly
Refused == /\ lister.at = "list" /\ Less("refusals") /\ Refusal
           /\ UNCHANGED <<clock, card, memo, table, learner>> /\ Outside

------------------------------------------------------------------------------
(* latest_by_names_async() and sort_files_newest_first().                   *)

AsksTable == /\ lister.at = "table" /\ lister' = [lister EXCEPT !.at = "sort", !.fromTable = Rows(table)]
             /\ UNCHANGED <<clock, card, memo, table, learner, answer, left>> /\ Outside
\* The cache is laid over the table's answer, where it is newer.
Newer(n) == Dates(lister.fromTable, n) \cup Dates(Rows(memo), n)
CacheFirst(n) == IF Dates(Rows(memo), n) # {} THEN Dates(Rows(memo), n) ELSE Dates(lister.fromTable, n)
Known(n) == Newer(n)
Dated(e) == LET sliced == IF Known(e.name) = {} THEN 0 ELSE Latest(Known(e.name))
            IN [name |-> e.name, sliced |-> sliced, key |-> IF sliced # 0 THEN sliced ELSE e.modified]
Answers == /\ lister.at = "sort" /\ lister' = Waiting
           /\ answer' = [kind |-> "200", files |-> {Dated(e) : e \in lister.found}, seen |-> lister.seen, known |-> lister.fromTable]
           /\ UNCHANGED <<clock, card, memo, table, learner, left>> /\ Outside

ListingNext ==
    \/ Ticks \/ Restarts \/ Stores \/ Prunes \/ ListRequests \/ Lists \/ Refused \/ AsksTable \/ Answers
    \/ \E n \in Names : \/ Removes(n) \/ Learns(n)
                        \/ \E size \in Sizes : \E sliced \in {1, clock} : Writes(n, size, sliced)
ListingSpec == ListingInit /\ [][ListingNext]_listingVars

------------------------------------------------------------------------------
(* Properties.                                                              *)

\* A listing that is answered names what was on the card: a printer that refuses is an error,
\* never an empty card (whoever deletes by listing relies on it).
RefusedIsNotEmpty == {f.name : f \in answer.files} = {s.name : s \in answer.seen}
\* A slice date the table gave is not hidden by an older one, whatever the cache learned, forgot
\* or lost in a restart.
LearnedIsShown == \A f \in answer.files : \A r \in answer.known : r.name = f.name => f.sliced >= r.sliced
\* Of two files of unknown slice date the one written later comes first, over a new year too.
NewestFirst == \A f, g \in answer.files : \A s, t \in answer.seen :
    (s.name = f.name /\ t.name = g.name /\ f.sliced = 0 /\ g.sliced = 0 /\ f.key # 0 /\ g.key # 0 /\ s.written > t.written)
        => f.key > g.key
ListingSound == RefusedIsNotEmpty /\ LearnedIsShown /\ NewestFirst
=============================================================================
