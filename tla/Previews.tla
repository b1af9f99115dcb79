------------------------------ MODULE Previews ------------------------------
(***************************************************************************)
(* What the viewer is shown of the running print: the caches of             *)
(* service/viz_cache.py, the requests of api/viz.py that fill them, the     *)
(* pre-warm of a started print, the kept sources of source_assets.py, and   *)
(* the printer's card behind protocol/ftps.py, which anybody may rewrite    *)
(* (api/files.py through the bridge, others without it).                    *)
(*                                                                         *)
(* One action is what runs between two awaits.  A file is known by its job's *)
(* name; of its two fields a revision (SIZE, MDTM) is one number that each   *)
(* write of the card changes.                                               *)
(***************************************************************************)
EXTENDS Naturals, Sequences, FiniteSets

CONSTANTS Jobs,         \* print names, each the name of a file too
          Contents,     \* what a file may hold
          Size,         \* the length of each content
          Parses,       \* the views each content can be parsed into
          Viewers,      \* requests that may be open at once (a bound)
          CacheMax,     \* _CACHE_MAX
          PreviewCases  \* what may happen, and how often (bounds)

Places == {"root", "cache"}
Views == {"mesh", "path"}
Tasks == Viewers \cup Jobs     \* a job's own task is its pre-warm
Nothing == [content |-> 0, rev |-> 0]

VARIABLES card,     \* [Places -> [Jobs -> file]]
          written,  \* files written so far
          caches,   \* mesh_cache, toolpath_cache: <<[job, size, content]>>, oldest first
          revs,     \* _revisions: <<>> or <<[dir, rev]>>
          digest,   \* _digests: the content recorded last, 0 for none
          sources,  \* SourceAssets: [job, dir, rev, content] kept by reference
          task,     \* requests and pre-warms
          current,  \* subtask_name, the job being printed
          pending,  \* uploads let in, <<job, content>>, and not sent yet
          dirty,    \* files the bridge wrote whose caches it has yet to forget
          raced,    \* history: <<what, job>> that came between a fill's validation and its end
          may       \* what may still happen

store == <<caches, revs, digest>>
previewVars == <<card, written, caches, revs, digest, sources, task, current, pending, dirty, raced, may>>

Resting == [at |-> "rest", job |-> "", view |-> "", dir |-> "", ref |-> 0, data |-> 0,
            since |-> {}, todo |-> <<>>, failed |-> <<>>, again |-> FALSE, etag |-> 0]

PreviewInit ==
    /\ may \in PreviewCases
    /\ \E c \in Contents : \E k \in {0} \cup (Contents \ {c}) :      \* k: what /cache holds, 0 for no file
         card = [d \in Places |-> [j \in Jobs |-> [content |-> IF d = "root" THEN c ELSE k, rev |-> 0]]]
    /\ written = 0
    /\ caches = [v \in Views |-> <<>>] /\ revs = [j \in Jobs |-> <<>>] /\ digest = [j \in Jobs |-> 0]
    /\ sources = {} /\ task = [t \in Tasks |-> Resting]
    /\ current \in Jobs \cup {""}            \* a print may be under way, its pre-warm given up
    /\ pending = {} /\ dirty = {} /\ raced = {}

Spare(event) == may[event] > 0 /\ may' = [may EXCEPT ![event] = @ - 1]
On(d, j) == card[d][j]
Exists(d, j) == On(d, j) # Nothing
Shown(j) == {On(d, j).content : d \in Places} \ {0}
At(t, step) == task[t].at = step
Self(t) == task[t]
Goes(t, next) == task' = [task EXCEPT ![t] = next]
Filling == {"locating", "validating", "looking", "source", "download", "put", "rest of it"}

------------------------------------------------------------------------------
(* The caches.                                                              *)

Forget(cache, js) == SelectSeq(cache, LAMBDA e : e.job \notin js)
InvalidateRevisions(js) ==
    /\ revs' = [j \in Jobs |-> IF j \in js THEN <<>> ELSE revs[j]]
    /\ digest' = [j \in Jobs |-> IF j \in js THEN 0 ELSE digest[j]]
Invalidate(js) ==
    /\ caches' = [v \in Views |-> Forget(caches[v], js)]
    /\ InvalidateRevisions(js)

Hits(v, j) == SelectSeq(caches[v], LAMBDA e : e.job = j)      \* lookup_*() takes the oldest
Cached(j) == \E v \in Views : Hits(v, j) # <<>>

\* _cache_put_*(): the key is the file's name and size; the oldest entry makes room.
Put(cache, j, c) ==
    LET rest == SelectSeq(cache, LAMBDA e : ~ (e.job = j /\ e.size = Size[c]))
        room == IF Len(rest) = Len(cache) /\ Len(cache) >= CacheMax THEN Tail(cache) ELSE rest
    IN  Append(room, [job |-> j, size |-> Size[c], content |-> c])

\* _record_content(): and what is in neither cache is forgotten.
Record(j, c, both) ==
    LET live == {i \in Jobs : \E v \in Views : \E k \in DOMAIN both[v] : both[v][k].job = i}
    IN  /\ digest' = [i \in Jobs |-> IF i \notin live THEN 0 ELSE IF i = j THEN c ELSE digest[i]]
        /\ revs' = [i \in Jobs |-> IF i \in live THEN revs[i] ELSE <<>>]

------------------------------------------------------------------------------
(* How a task ends a fill: a request answers, with an entity tag, or fails; *)
(* a pre-warm goes on to its next view and tries what failed once again.    *)

Ended(t, failed) ==
    LET s == Self(t)
        missed == IF failed THEN Append(s.failed, s.view) ELSE s.failed
    IN  IF t \in Viewers THEN Resting
        ELSE IF s.todo # <<>>
        THEN [s EXCEPT !.at = "wait", !.view = Head(s.todo), !.todo = Tail(s.todo), !.failed = missed]
        ELSE IF missed # <<>> /\ ~ s.again
        THEN [Resting EXCEPT !.at = "sleep", !.job = s.job, !.todo = missed, !.again = TRUE]
        ELSE Resting
Fails(t) == Goes(t, Ended(t, TRUE))
Answered(t, c, tag) ==
    IF t \in Viewers THEN [Self(t) EXCEPT !.at = "answered", !.data = c, !.etag = tag] ELSE Ended(t, FALSE)

\* cached_location(): a file that is cached, and whose revision is known, is not looked for.
Asks(t, v) ==
    /\ Self(t).at \in {"rest", "answered"} /\ current # "" /\ Spare("asks")
    /\ LET new == [Resting EXCEPT !.job = current, !.view = v, !.since = Shown(current)]
       IN  Goes(t, IF v # "source" /\ Cached(current) /\ revs[current] # <<>>
                   THEN [new EXCEPT !.at = "validate", !.dir = revs[current][1].dir]
                   ELSE [new EXCEPT !.at = "locate"])
    /\ UNCHANGED <<card, written, store, sources, current, pending, dirty, raced>>

Then(t, request, fill) == IF At(t, request[1]) THEN request[2] ELSE fill

\* find_3mf(): root first; a directory that cannot be listed counts as empty.
Locates(t) ==
    /\ Self(t).at \in {"locate", "locating"}
    /\ \E listed \in SUBSET Places :
         /\ IF listed = Places THEN UNCHANGED may ELSE Spare("fault")
         /\ LET hits == {d \in listed : Exists(d, Self(t).job)}
            IN  IF hits = {} THEN Fails(t)
                ELSE Goes(t, [Self(t) EXCEPT !.at = Then(t, <<"locate", "validate">>, "validating"),
                                             !.dir = IF "root" \in hits THEN "root" ELSE "cache"])
    /\ UNCHANGED <<card, written, store, sources, current, pending, dirty, raced>>

\* Another fill of j has validated its file and not put it in the cache yet.
Underway(t, j) == \E s \in Tasks \ {t} :
    Self(s).job = j /\ Self(s).at \in {"looking", "source", "download", "put", "rest of it"}

\* validate_revision(): what is cached of another revision, or of a file whose revision
\* cannot be told, is forgotten.
AnyRevision(j, now) == now # <<>> /\ revs[j] # <<>>
SameRevision(j, now) == now # <<>> /\ revs[j] = now
Validates(t) ==
    LET j == Self(t).job
        d == Self(t).dir
        now == IF may.blind THEN <<>> ELSE <<[dir |-> d, rev |-> On(d, j).rev]>>
    IN  /\ Self(t).at \in {"validate", "validating"}
        /\ \/ /\ Exists(d, j)
              /\ IF SameRevision(j, now) THEN UNCHANGED store /\ UNCHANGED raced
                 ELSE /\ caches' = [v \in Views |-> Forget(caches[v], {j})]
                      /\ revs' = [revs EXCEPT ![j] = now] /\ digest' = [digest EXCEPT ![j] = 0]
                      /\ raced' = IF Underway(t, j) THEN raced \cup {<<"validated", j>>} ELSE raced
              /\ Goes(t, [Self(t) EXCEPT !.at =
                     IF Self(t).view = "source" THEN "source"
                     ELSE Then(t, <<"validate", "look">>, "looking")])
              /\ UNCHANGED may
           \/ /\ Invalidate({j}) /\ Fails(t) /\ UNCHANGED raced
              /\ IF Exists(d, j) THEN Spare("fault") ELSE UNCHANGED may
        /\ UNCHANGED <<card, written, sources, current, pending, dirty>>

\* A hit is answered from the cache; a miss queues for the fill lock, or goes on with it.
Looks(t) ==
    /\ Self(t).at \in {"look", "looking"}
    /\ LET j == Self(t).job
           hits == Hits(Self(t).view, j)
       IN  Goes(t, IF hits # <<>> THEN Answered(t, hits[1].content, digest[j])
                   ELSE [Self(t) EXCEPT !.at = Then(t, <<"look", "wait">>, "source")])
    /\ UNCHANGED <<card, written, store, sources, current, pending, dirty, raced, may>>

LockFree == \A s \in Tasks : Self(s).view = "source" \/ Self(s).at \notin Filling
Enters(t) ==
    /\ At(t, "wait") /\ LockFree
    /\ Goes(t, [Self(t) EXCEPT !.at = "locating"])
    /\ UNCHANGED <<card, written, store, sources, current, pending, dirty, raced, may>>

\* source_bytes(), one at a time: the reference is the revision on record when it begins.
SourceAsks(t) ==
    LET j == Self(t).job
        kept == {s \in sources : revs[j] # <<>> /\ s.job = j /\ s.dir = revs[j][1].dir /\ s.rev = revs[j][1].rev}
    IN  /\ At(t, "source") /\ \A s \in Tasks : Self(s).at # "download"
        /\ IF kept # {} THEN \E s \in kept : Goes(t, IF Self(t).view = "source" THEN Answered(t, s.content, s.content)
                                                    ELSE [Self(t) EXCEPT !.at = "put", !.data = s.content])
           ELSE Goes(t, [Self(t) EXCEPT !.at = "download", !.ref = IF revs[j] = <<>> THEN 0 ELSE 1 + revs[j][1].rev])
        /\ UNCHANGED <<card, written, store, sources, current, pending, dirty, raced, may>>

Downloads(t) ==
    LET j == Self(t).job
        d == Self(t).dir
        c == On(d, j).content
    IN  /\ At(t, "download")
        /\ \/ /\ Exists(d, j) /\ UNCHANGED may
              /\ sources' = IF Self(t).ref = 0 THEN sources
                            ELSE {s \in sources : ~ (s.job = j /\ s.dir = d /\ s.rev = Self(t).ref - 1)}
                                 \cup {[job |-> j, dir |-> d, rev |-> Self(t).ref - 1, content |-> c]}
              /\ Goes(t, IF Self(t).view = "source" THEN Answered(t, c, c)
                         ELSE [Self(t) EXCEPT !.at = "put", !.data = c])
           \/ /\ IF Exists(d, j) THEN Spare("fault") ELSE UNCHANGED may
              /\ Fails(t) /\ UNCHANGED sources
        /\ UNCHANGED <<card, written, store, current, pending, dirty, raced>>

\* A mesh is put first, then the archive is parsed for its toolpath too.
Puts(t) ==
    LET j == Self(t).job
        v == Self(t).view
        c == Self(t).data
        both == [caches EXCEPT ![v] = Put(@, j, c)]
    IN  /\ At(t, "put")
        /\ IF v \notin Parses[c] THEN Fails(t) /\ UNCHANGED store
           ELSE IF v = "mesh" THEN /\ caches' = both /\ Goes(t, [Self(t) EXCEPT !.at = "rest of it"])
                                   /\ UNCHANGED <<revs, digest>>
           ELSE caches' = both /\ Record(j, c, both) /\ Goes(t, Answered(t, c, c))
        /\ UNCHANGED <<card, written, sources, current, pending, dirty, raced, may>>

PutsRest(t) ==
    LET j == Self(t).job
        c == Self(t).data
        both == IF "path" \in Parses[c] THEN [caches EXCEPT !.path = Put(@, j, c)] ELSE caches
    IN  /\ At(t, "rest of it")
        /\ caches' = both /\ Record(j, c, both)
        /\ Goes(t, Answered(t, c, IF digest'[j] = c THEN c ELSE 0))
        /\ UNCHANGED <<card, written, sources, current, pending, dirty, raced, may>>

------------------------------------------------------------------------------
(* A print starts (schedule_prewarm): everything cached is forgotten, unless *)
(* a pre-warm of that name is still at work.                                *)

JobStarts(j) ==
    /\ Spare("starts") /\ current' = j
    /\ IF At(j, "rest")
       THEN Invalidate(Jobs) /\ Goes(j, [Resting EXCEPT !.at = "sleep", !.job = j, !.todo = <<"mesh", "path">>])
       ELSE UNCHANGED <<store, task>>
    /\ UNCHANGED <<card, written, sources, pending, dirty, raced>>

Wakes(j) ==
    /\ At(j, "sleep")
    /\ Goes(j, [Self(j) EXCEPT !.at = "wait", !.view = Head(Self(j).todo), !.todo = Tail(@)])
    /\ UNCHANGED <<card, written, store, sources, current, pending, dirty, raced, may>>

(* The card changes: through the bridge, which then forgets the file, or     *)
(* behind its back.                                                         *)

Becomes(d, j, file) ==
    /\ card' = [card EXCEPT ![d][j] = file]
    /\ task' = [t \in Tasks |-> IF t \in Viewers /\ Self(t).job = j /\ Self(t).at # "answered"
                                THEN [Self(t) EXCEPT !.since = @ \cup {file.content}] ELSE Self(t)]
    /\ raced' = IF Underway("", j) THEN raced \cup {<<"written", j>>} ELSE raced

UploadLetIn(j, c) ==          \* the name is compared with the running print's before the body is read
    /\ current # j /\ Spare("writes") /\ pending' = pending \cup {<<j, c>>}
    /\ UNCHANGED <<card, written, store, sources, task, current, dirty, raced>>
UploadArrives(j, c) ==
    /\ <<j, c>> \in pending /\ pending' = pending \ {<<j, c>>} /\ written' = written + 1
    /\ Becomes("root", j, [content |-> c, rev |-> written + 1])
    /\ dirty' = dirty \cup {j} /\ UNCHANGED <<store, sources, current, may>>
Deletes(d, j) ==
    /\ Exists(d, j) /\ Spare("writes") /\ Becomes(d, j, Nothing)
    /\ dirty' = dirty \cup {j} /\ UNCHANGED <<written, store, sources, current, pending>>
Forgets(j) ==
    /\ j \in dirty /\ dirty' = dirty \ {j} /\ Invalidate({j})
    /\ UNCHANGED <<card, written, sources, task, current, pending, raced, may>>
Rewritten(d, j, c) ==
    /\ Spare("writes") /\ written' = written + 1
    /\ Becomes(d, j, [content |-> c, rev |-> written + 1])
    /\ UNCHANGED <<store, sources, current, pending, dirty>>

\* SourceAssets.put() evicts the files used longest ago, with their references.
SourceDropped == /\ sources # {} /\ may.drops /\ \E s \in sources : sources' = {r \in sources : r.content # s.content}
                 /\ UNCHANGED <<card, written, store, task, current, pending, dirty, raced, may>>

Steps(t) == Locates(t) \/ Validates(t) \/ Looks(t) \/ Enters(t) \/ SourceAsks(t) \/ Downloads(t) \/ Puts(t) \/ PutsRest(t)
PreviewNext ==
    \/ \E t \in Viewers, v \in Views \cup {"source"} : Asks(t, v)
    \/ \E t \in Tasks : Steps(t)
    \/ \E j \in Jobs : JobStarts(j) \/ Wakes(j) \/ Forgets(j)
    \/ \E j \in Jobs, c \in Contents : UploadLetIn(j, c) \/ UploadArrives(j, c) \/ \E d \in Places : Rewritten(d, j, c)
    \/ \E d \in Places, j \in Jobs : Deletes(d, j)
    \/ SourceDropped
PreviewSpec == PreviewInit /\ [][PreviewNext]_previewVars

------------------------------------------------------------------------------
(* Properties.                                                              *)

Raced(j) == <<"validated", j>> \in raced

\* What a viewer is shown was in the file at some time while it asked, whatever was cached
\* before - unless a revision was recorded while an older file was being filled in.
ShownIsCurrent ==
    \A t \in Viewers : At(t, "answered") => Self(t).data \in Self(t).since \/ Raced(Self(t).job)

\* "Revalidate before both API conditional responses and pre-warm reuse"
\* (viz_cache.py:262): without the exception.
ShownIsAlwaysCurrent == \A t \in Viewers : At(t, "answered") => Self(t).data \in Self(t).since

\* The entity tag of an answer names the content of its body, or none (a mesh answered from the
\* cache before its content is recorded), so that "not modified" never stands for another file -
\* unless the file was written, or another revision recorded, in the middle of a fill.
TagNamesBody ==
    \A t \in Viewers : At(t, "answered") => Self(t).etag \in {0, Self(t).data} \/ \E r \in raced : r[2] = Self(t).job

\* A cache holds one version of a file and no more files than it may, so that the oldest
\* match is the only one.
OneVersion ==
    /\ \A v \in Views : Len(caches[v]) <= CacheMax
    /\ \A v \in Views, j \in Jobs : Len(Hits(v, j)) <= 1 \/ Raced(j)

PreviewsAreCurrent == ShownIsCurrent /\ TagNamesBody /\ OneVersion
=============================================================================
