--------------------------- MODULE KnowledgeIndex ---------------------------
(***************************************************************************)
(* One document of the knowledge base: its source row, its passages and    *)
(* the full-text index over them, the jobs that index it and the folder    *)
(* watcher that starts such jobs.                                          *)
(*                                                                         *)
(* Jobs overlap: the operator's, the operator's second and the watcher's.  *)
(* Each takes the store's lock once per statement, and reads, extracts and *)
(* embeds between them without it.  A save makes a new version of the      *)
(* file; the passages of one extraction are replaced together, so they are *)
(* known by the source id they were stored under and the version read.     *)
(***************************************************************************)
EXTENDS Naturals, FiniteSets

CONSTANTS
    Jobs,        \* tasks that index the file at the same time
    Watchers,    \* watcher threads alive at the same time
    Sizes,       \* sizes of the file
    MaxSaves     \* bound: versions of the file

VARIABLES
    file,        \* its version and size
    source,      \* the row in knowledge_sources
    passages,    \* its rows in chunks
    fts,         \* versions whose passages the full-text index holds
    job,         \* each job's step and its copy of the row
    watching,    \* AppState.watching
    watcher,     \* each watcher thread: alive, and the file in its pending map
    tried,       \* history: the newest version a job has tried to read
    robbed       \* history: removed under a job, and not stored again since
vars == <<file, source, passages, fts, job, watching, watcher, tried, robbed>>

None == [id |-> 0]
Ids == 1 .. Cardinality(Jobs) + 2
Idle == [at |-> "idle", id |-> 0, size |-> 0, version |-> 0]

Init ==
    /\ file \in [version : {1}, size : Sizes]
    /\ source = None /\ passages = None /\ fts = {}
    /\ job = [j \in Jobs |-> Idle]
    /\ watching = FALSE
    /\ watcher = [w \in Watchers |-> [alive |-> FALSE, pending |-> FALSE]]
    /\ tried = 0 /\ robbed = FALSE

At(j, step) == job[j].at = step
Goto(j, step) == job' = [job EXCEPT ![j].at = step]

(* new_id: an id nothing refers to.                                        *)
FreshId == CHOOSE i \in Ids :
    i \notin {source.id, passages.id} \union {job[j].id : j \in Jobs}

(* The row a job begins with keeps the stored one's id, or gets a new one. *)
Row(j, step) ==
    [job[j] EXCEPT !.at = step, !.size = file.size,
                   !.id = IF source = None THEN FreshId ELSE source.id]

(* publish: upsert_knowledge_source is by path, a row that exists keeps    *)
(* its id.  Counts, hashes and notes of the row are left out.              *)
Upserted(r, status) ==
    [id |-> IF source = None THEN r.id ELSE source.id, size |-> r.size, status |-> status]
Publish(j, status, step) ==
    /\ source' = Upserted(job[j], status)
    /\ Goto(j, step)
    /\ UNCHANGED <<file, passages, fts, watching, watcher, tried, robbed>>

-----------------------------------------------------------------------------
(* index: a row that says queued, unless a job is at it, then index_one.   *)
Request(j) ==
    /\ At(j, "idle")
    /\ job' = [job EXCEPT ![j] =
           IF source # None /\ source.status = "indexing"
           THEN [@ EXCEPT !.at = "begin"] ELSE Row(j, "queue")]
    /\ UNCHANGED <<file, source, passages, fts, watching, watcher, tried, robbed>>

Queue(j) == At(j, "queue") /\ Publish(j, "queued", "begin")

(* reindex starts at index_one; a file that is gone fails its row as read. *)
Reindex(j) ==
    /\ At(j, "idle") /\ source # None
    /\ job' = [job EXCEPT ![j].at = "begin"]
    /\ UNCHANGED <<file, source, passages, fts, watching, watcher, tried, robbed>>

ReindexMissing(j) ==
    /\ At(j, "idle") /\ source # None
    /\ job' = [job EXCEPT ![j] = [Row(j, "fail") EXCEPT !.size = source.size]]
    /\ UNCHANGED <<file, source, passages, fts, watching, watcher, tried, robbed>>

Begin(j) ==
    /\ At(j, "begin")
    /\ job' = [job EXCEPT ![j] = Row(j, "announce")]
    /\ UNCHANGED <<file, source, passages, fts, watching, watcher, tried, robbed>>

Announce(j) == At(j, "announce") /\ Publish(j, "indexing", "extract")

(* ingest reads the file as it is now, and embedding takes its time: text, *)
(* or nothing to index and errors.                                         *)
Extract(j) ==
    /\ At(j, "extract")
    /\ tried' = file.version
    /\ \/ job' = [job EXCEPT ![j].at = "count", ![j].version = file.version]
       \/ Goto(j, "fail")
    /\ UNCHANGED <<file, source, passages, fts, watching, watcher, robbed>>

(* The row has to be there before its passages.                            *)
Count(j) == At(j, "count") /\ Publish(j, "indexing", "replace")

(* replace_chunks: one transaction; a source id no row has is refused.     *)
Stored(id) == IF passages.id = id THEN {passages.version} ELSE {}

ReplaceKeepingTerms(j) ==
    /\ At(j, "replace")
    /\ LET r == job[j] IN
       IF source.id = r.id
       THEN /\ passages' = [id |-> r.id, version |-> r.version]
            /\ fts' = fts \union {r.version}
            /\ robbed' = FALSE
            /\ Goto(j, "done")
       ELSE /\ Goto(j, "fail")
            /\ UNCHANGED <<passages, fts, robbed>>
    /\ UNCHANGED <<file, source, watching, watcher, tried>>

Replace(j) ==
    /\ At(j, "replace")
    /\ LET r == job[j] IN
       IF source.id = r.id
       THEN /\ passages' = [id |-> r.id, version |-> r.version]
            /\ fts' = (fts \ Stored(r.id)) \union {r.version}
            /\ robbed' = FALSE
            /\ Goto(j, "done")
       ELSE /\ Goto(j, "fail")
            /\ UNCHANGED <<passages, fts, robbed>>
    /\ UNCHANGED <<file, source, watching, watcher, tried>>

(* The last publish says what came of it.                                  *)
Settle(j) ==
    /\ job[j].at \in {"done", "fail"}
    /\ source' = Upserted(job[j], IF At(j, "done") THEN "indexed" ELSE "failed")
    /\ job' = [job EXCEPT ![j] = Idle]
    /\ UNCHANGED <<file, passages, fts, watching, watcher, tried, robbed>>

(* remove: the passages with their terms, and the row; a job at work is    *)
(* not told.                                                               *)
Remove ==
    /\ source # None
    /\ source' = None
    /\ fts' = fts \ Stored(source.id)
    /\ passages' = IF passages.id = source.id THEN None ELSE passages
    /\ robbed' = (robbed \/ \E j \in Jobs : ~At(j, "idle"))
    /\ UNCHANGED <<file, job, watching, watcher, tried>>

-----------------------------------------------------------------------------
(* The file is saved; a live watcher notes the path.                       *)
Save(size) ==
    /\ file.version < MaxSaves
    /\ file' = [version |-> file.version + 1, size |-> size]
    /\ watcher' = [w \in Watchers |->
           [watcher[w] EXCEPT !.pending = @ \/ watcher[w].alive]]
    /\ UNCHANGED <<source, passages, fts, job, watching, tried, robbed>>

(* set_watching: on starts a thread of its own, off only clears the flag.  *)
SetWatching(on) ==
    /\ watching # on
    /\ watching' = on
    /\ \/ ~on /\ UNCHANGED watcher
       \/ /\ on
          /\ \E w \in Watchers :
               /\ ~watcher[w].alive
               /\ watcher' = [watcher EXCEPT ![w].alive = TRUE]
    /\ UNCHANGED <<file, source, passages, fts, job, tried, robbed>>

WatcherStops(w) ==
    /\ watcher[w].alive /\ ~watching
    /\ watcher' = [watcher EXCEPT ![w] = [alive |-> FALSE, pending |-> FALSE]]
    /\ UNCHANGED <<file, source, passages, fts, job, watching, tried, robbed>>

(* A save of a document whose row is done and says the same size.          *)
SeemsUnchanged ==
    source # None /\ source.status = "indexed" /\ source.size = file.size

(* The debounced path: skipped, or given to a job of its own.              *)
WatcherHandles(w) ==
    /\ watcher[w].alive /\ watching /\ watcher[w].pending
    /\ watcher' = [watcher EXCEPT ![w].pending = FALSE]
    /\ \/ SeemsUnchanged /\ UNCHANGED job
       \/ /\ ~SeemsUnchanged
          /\ \E j \in Jobs : At(j, "idle")
                 /\ job' = [job EXCEPT ![j] = [Idle EXCEPT !.at = "begin"]]
    /\ UNCHANGED <<file, source, passages, fts, watching, tried, robbed>>

(* The process dies: the rows stay as they are.                            *)
Crash ==
    /\ job' = [j \in Jobs |-> Idle]
    /\ watching' = FALSE
    /\ watcher' = [w \in Watchers |-> [alive |-> FALSE, pending |-> FALSE]]
    /\ UNCHANGED <<file, source, passages, fts, tried, robbed>>

Work(j) ==
    \/ Queue(j) \/ Begin(j) \/ Announce(j) \/ Extract(j)
    \/ Count(j) \/ Replace(j) \/ Settle(j)
Watch(w) == WatcherStops(w) \/ WatcherHandles(w)

Next ==
    \/ \E j \in Jobs : Request(j) \/ Reindex(j) \/ ReindexMissing(j) \/ Work(j)
    \/ \E w \in Watchers : Watch(w)
    \/ \E size \in Sizes : Save(size)
    \/ \E on \in BOOLEAN : SetWatching(on)
    \/ Remove \/ Crash

Spec ==
    /\ Init /\ [][Next]_vars
    /\ \A j \in Jobs : WF_vars(Work(j))
    /\ \A w \in Watchers : SF_vars(Watch(w))

-----------------------------------------------------------------------------
Statuses == {"queued", "indexing", "indexed", "failed"}
TypeOK ==
    /\ file \in [version : 1 .. MaxSaves, size : Sizes]
    /\ source = None \/ source \in [id : Ids, size : Sizes, status : Statuses]
    /\ passages = None \/ passages \in [id : Ids, version : 1 .. MaxSaves]
    /\ fts \subseteq 1 .. MaxSaves
    /\ job \in [Jobs -> [at : {"idle", "queue", "begin", "announce", "extract",
                               "count", "replace", "done", "fail"},
                         id : Ids \union {0}, size : Sizes \union {0},
                         version : 0 .. MaxSaves]]
    /\ {watching, robbed} \subseteq BOOLEAN /\ tried \in 0 .. MaxSaves
    /\ watcher \in [Watchers -> [alive : BOOLEAN, pending : BOOLEAN]]

(* Whatever jobs overlap, search finds the passages of one extraction of a *)
(* listed source and nothing else: no term of a passage that is gone, and  *)
(* no passage the full-text index does not know.                           *)
SearchFindsWhole ==
    /\ fts = IF passages = None THEN {} ELSE {passages.version}
    /\ passages # None => source # None /\ passages.id = source.id

(* A source listed as indexed can be searched, unless it was removed while *)
(* a job was at it; that job lists it again.                               *)
IndexedIsSearchable ==
    source # None /\ source.status = "indexed" => passages # None \/ robbed

(* A save that a running watcher has noted is read by a job, unless        *)
(* watching is switched off or the row says indexed with the size the file *)
(* has.                                                                    *)
Noted == \E w \in Watchers : watcher[w].alive /\ watcher[w].pending
SavesAreRead ==
    Noted /\ tried < file.version
        ~> tried = file.version \/ ~watching \/ SeemsUnchanged
=============================================================================
