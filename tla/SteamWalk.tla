------------------------------ MODULE SteamWalk ------------------------------
(***************************************************************************)
(* The Steam collector (collectors/steam/main.py): a walk through a        *)
(* paginated review stream, newest first, that archives in-window reviews  *)
(* to GCS and keeps its position in a checkpoint object, so that a run cut *)
(* short by an exception, a task restart or the page cap can be resumed.   *)
(*                                                                         *)
(* A review is named by its creation time: reviews are 1..LastReview in    *)
(* order of creation, and review r appears on Steam once posted >= r.      *)
(* A stream (filter, review_type, language, purchase_type) serves the      *)
(* reviews Member[s], in descending Rank[s], but only the first Depth[s]   *)
(* of them: Steam ends a result stream long before its data (main.py:81).  *)
(* A cursor is a rank: the page behind it holds the reviews of lower rank. *)
(*                                                                         *)
(* GCS (archive, checkpoint) survives a Crash, which is any exception that *)
(* leaves collect(), or the end of the container; the rest of the state    *)
(* belongs to one run. The page content and the cursor the endpoint        *)
(* returns are external, and so is the posting of reviews.                 *)
(***************************************************************************)
EXTENDS Naturals, FiniteSets

CONSTANTS
  LastReview,      \* bound: the newest review ever posted
  Windows,         \* the [from, to) windows runs are started with
  Streams,         \* the streams runs are started on
  Chronological,   \* the streams ordered by creation time (filter=recent)
  Member,          \* Member[s]: the reviews that match stream s
  Rank,            \* Rank[s][r]: the position of review r in stream s
  Depth,           \* Depth[s]: how many of them, from the front, it serves
  Tags,            \* event tags, each its own buffer and archive prefix
  TagOf,           \* TagOf[r]: event_tag_for of the review's date
  ResumeModes,     \* the STEAM_RESUME settings runs are started with
  PageSize,        \* PAGE_SIZE
  BatchSize,       \* BATCH_SIZE
  MaxPages,        \* STEAM_MAX_PAGES
  CheckpointEvery, \* CHECKPOINT_EVERY_PAGES
  MaxFaults,       \* bound: crashes and failed checkpoint operations
  NoCheckpoint     \* the checkpoint object does not exist

Reviews == 1 .. LastReview
Star == LastReview + 1          \* the cursor "*" of the first page
NoCursor == 0                   \* an empty cursor in the payload
Cursors == 1 .. Star

ASSUME SteamAssumption ==
  /\ LastReview \in Nat
  /\ Windows \subseteq [from : Nat, to : Nat]
  /\ Chronological \subseteq Streams
  /\ Member \in [Streams -> SUBSET Reviews]
  /\ Rank \in [Streams -> [Reviews -> Reviews]]
  /\ Depth \in [Streams -> Nat]
  /\ \A s \in Streams : \A q, r \in Reviews : Rank[s][q] = Rank[s][r] => q = r
  /\ \A s \in Chronological : \A r \in Reviews : Rank[s][r] = r
  /\ TagOf \in [Reviews -> Tags]
  /\ ResumeModes \subseteq BOOLEAN
  /\ {PageSize, BatchSize, MaxPages, CheckpointEvery} \subseteq Nat \ {0}
  /\ MaxFaults \in Nat
  /\ NoCheckpoint \notin [window : Windows, cursor : Cursors]

VARIABLES
  posted,        \* reviews 1..posted are on Steam
  archive,       \* the reviews in the raw archive bucket
  checkpoint,    \* the checkpoint object: NoCheckpoint or [window, cursor]
  pc,            \* where collect() is; "idle" when no run is active
  config,        \* RunConfig of the run: window, stream, resume
  cursor,        \* cursor of the next page to fetch
  seen_cursors,  \* cursors returned to this run
  pages_read,    \* pages fetched by this run
  pending,       \* reviews of the current page still to be looked at
  next_cursor,   \* the cursor the current page came with
  buffers,       \* buffers[tag]: records not yet written to GCS
  exit,          \* why the page loop ended; "none" while it runs
  faults,        \* crashes and failed checkpoint operations so far
  known,         \* history: reviews posted when this pass left Star
  saved          \* history: stream and known of the run that checkpointed

durable == <<posted, archive, checkpoint, saved, faults>>
page == <<pending, next_cursor>>
walk == <<cursor, seen_cursors, pages_read, exit, known, config>>
vars == <<durable, page, walk, pc, buffers>>

SavedPasses == [stream : Streams, known : 0 .. LastReview]
Posted == 1 .. posted
Empty == [t \in Tags |-> {}]
Drained == \A t \in Tags : buffers[t] = {}
Buffered == {r \in Reviews : \E t \in Tags : r \in buffers[t]}
Kept == archive \cup Buffered

\* The reviews in front of r in stream s.
Ahead(s, r) == {q \in Posted \cap Member[s] : Rank[s][q] > Rank[s][r]}

\* What stream s serves at present. The cap is on the stream, not on the data:
\* each review posted in front of r moves r towards it, and past it for good.
Served(s) == {r \in Posted \cap Member[s] : Cardinality(Ahead(s, r)) < Depth[s]}

\* What stream s still serves behind cursor c.
Behind(s, c) == {r \in Served(s) : Rank[s][r] < c}

InWindow(w, r) == w.from <= r /\ r < w.to

\* What a pass over window w of stream s must have kept once past cursor c,
\* of the n reviews there were when it began.
Owed(s, n, w, c) ==
  {r \in Member[s] : r <= n /\ InWindow(w, r) /\ Rank[s][r] >= c}

\* What the present run owes.
Due(c) == Owed(config.stream, known, config.window, c)

\* What it owes when its page loop is over. A walk that met the window's start
\* owes the whole window. One that ran out of pages owes what its cursor has
\* passed and what the stream still serves behind it: an empty page does not
\* say whether the window or only the stream is exhausted. One cut by the page
\* cap owes what its cursor has passed.
DueAtEnd ==
  {r \in Due(1) :
     \/ Rank[config.stream][r] >= cursor
     \/ exit = "window_start"
     \/ exit \in {"empty_page", "stuck_cursor"} /\ r \in Served(config.stream)}

TypeOK ==
  /\ posted \in 0 .. LastReview
  /\ archive \subseteq Reviews
  /\ checkpoint \in [window : Windows, cursor : Cursors] \cup {NoCheckpoint}
  /\ pc \in {"idle", "fetch", "scan", "flush", "drain"}
  /\ config \in [window : Windows, stream : Streams, resume : BOOLEAN]
  /\ cursor \in Cursors
  /\ seen_cursors \subseteq Cursors
  /\ pages_read \in 0 .. MaxPages
  /\ pending \subseteq Reviews
  /\ next_cursor \in Cursors \cup {NoCursor}
  /\ buffers \in [Tags -> SUBSET Reviews]
  /\ exit \in {"none", "window_start", "empty_page", "stuck_cursor", "page_cap"}
  /\ faults \in 0 .. MaxFaults
  /\ known \in 0 .. LastReview
  /\ saved \in SavedPasses

-----------------------------------------------------------------------------
\* The state a run leaves behind when it ends, however it ends.
NoRun ==
  /\ pc' = "idle"
  /\ buffers' = Empty
  /\ pending' = {}
  /\ seen_cursors' = {}
  /\ pages_read' = 0
  /\ exit' = "none"
  /\ UNCHANGED <<cursor, next_cursor, known, config>>

Init ==
  /\ posted = 0
  /\ archive = {}
  /\ checkpoint = NoCheckpoint
  /\ pc = "idle"
  /\ config \in [window : Windows, stream : Streams, resume : ResumeModes]
  /\ cursor = Star
  /\ seen_cursors = {}
  /\ pages_read = 0
  /\ pending = {}
  /\ next_cursor = NoCursor
  /\ buffers = Empty
  /\ exit = "none"
  /\ faults = 0
  /\ known = 0
  /\ saved = [stream |-> config.stream, known |-> 0]

\* A player writes a review.
Post ==
  /\ posted < LastReview
  /\ posted' = posted + 1
  /\ UNCHANGED <<archive, checkpoint, saved, faults, page, walk, pc, buffers>>

\* Mutant: a checkpoint of any window is resumed.
ResumableAnyKey(w) == checkpoint # NoCheckpoint

\* read_cursor: the stored cursor, when the object is readable and its key
\* (appid and window; the stream is not part of it) is this run's key.
Resumable(w) == checkpoint # NoCheckpoint /\ checkpoint.window = w

\* A run starts: the checkpoint is consulted unless STEAM_RESUME=false.
StartAt(w, s, resume, c, n) ==
  /\ pc = "idle"
  /\ config' = [window |-> w, stream |-> s, resume |-> resume]
  /\ cursor' = c
  /\ known' = n
  /\ pc' = "fetch"
  /\ UNCHANGED <<posted, archive, checkpoint, saved, page, seen_cursors,
                 pages_read, exit, buffers>>

ResumeWalk(w, s) ==
  /\ TRUE \in ResumeModes
  /\ Resumable(w)
  /\ StartAt(w, s, TRUE, checkpoint.cursor, saved.known)
  /\ UNCHANGED faults

StartWalk(w, s, resume) ==
  /\ resume => ~Resumable(w)
  /\ StartAt(w, s, resume, Star, posted)
  /\ UNCHANGED faults

\* The download failed, or the object is not valid JSON: start over.
StartUnreadable(w, s) ==
  /\ TRUE \in ResumeModes
  /\ Resumable(w)
  /\ faults < MaxFaults
  /\ faults' = faults + 1
  /\ StartAt(w, s, TRUE, Star, posted)

\* Mutant: one page too many.
FetchEmptyPastCap ==
  /\ pc = "fetch"
  /\ Behind(config.stream, cursor) = {}
  /\ pages_read' = pages_read + 1
  /\ exit' = "empty_page"
  /\ pc' = "drain"
  /\ UNCHANGED <<durable, page, cursor, seen_cursors, known, config, buffers>>

\* The page loop fetches a page; an empty one ends the walk, whether the stream
\* has nothing older or serves nothing older.
FetchEmpty ==
  /\ pc = "fetch"
  /\ pages_read < MaxPages
  /\ Behind(config.stream, cursor) = {}
  /\ pages_read' = pages_read + 1
  /\ exit' = "empty_page"
  /\ pc' = "drain"
  /\ UNCHANGED <<durable, page, cursor, seen_cursors, known, config, buffers>>

\* A page is the next run of the stream, at most PageSize long. On its last
\* page the endpoint may hand back the cursor it was given, or none.
FetchPage ==
  /\ pc = "fetch"
  /\ pages_read < MaxPages
  /\ pages_read' = pages_read + 1
  /\ LET rest == Behind(config.stream, cursor)
         rank == Rank[config.stream]
     IN \E last \in rest :
          LET reviews == {r \in rest : rank[r] >= rank[last]} IN
            /\ Cardinality(reviews) <= PageSize
            /\ pending' = reviews
            /\ \/ next_cursor' = rank[last]
               \/ reviews = rest /\ next_cursor' \in {cursor, NoCursor}
  /\ pc' = "scan"
  /\ UNCHANGED <<durable, cursor, seen_cursors, exit, known, config, buffers>>

\* The range of the page loop is exhausted.
HitPageCap ==
  /\ pc = "fetch"
  /\ pages_read = MaxPages
  /\ exit' = "page_cap"
  /\ pc' = "drain"
  /\ UNCHANGED <<durable, page, cursor, seen_cursors, pages_read, known, config, buffers>>

\* r is the next review of the current page.
Looking(r) ==
  /\ pc = "scan"
  /\ r \in pending
  /\ \A q \in pending : Rank[config.stream][q] <= Rank[config.stream][r]

\* An in-window review joins its tag's buffer, which is written when full.
Keep(r) ==
  LET full == buffers[TagOf[r]] \cup {r} IN
  /\ Looking(r)
  /\ InWindow(config.window, r)
  /\ pending' = pending \ {r}
  /\ IF Cardinality(full) >= BatchSize
       THEN /\ archive' = archive \cup full
            /\ buffers' = [buffers EXCEPT ![TagOf[r]] = {}]
       ELSE /\ buffers' = [buffers EXCEPT ![TagOf[r]] = full]
            /\ UNCHANGED archive
  /\ UNCHANGED <<posted, checkpoint, saved, faults, next_cursor, walk, pc>>

\* A review newer than the window is passed over; so is an older one unless
\* the stream is chronological.
Skip(r) ==
  /\ Looking(r)
  /\ \/ r < config.window.from /\ config.stream \notin Chronological
     \/ r >= config.window.from /\ r >= config.window.to
  /\ pending' = pending \ {r}
  /\ UNCHANGED <<durable, next_cursor, walk, pc, buffers>>

\* Mutant: the first review older than the window ends any walk.
ReachWindowStartUnordered(r) ==
  /\ Looking(r)
  /\ r < config.window.from
  /\ exit' = "window_start"
  /\ pc' = "drain"
  /\ pending' = {}
  /\ UNCHANGED <<durable, next_cursor, cursor, seen_cursors, pages_read, known,
                 config, buffers>>

\* In a chronological stream everything after an old review is older still.
ReachWindowStart(r) ==
  /\ Looking(r)
  /\ r < config.window.from
  /\ config.stream \in Chronological
  /\ exit' = "window_start"
  /\ pc' = "drain"
  /\ pending' = {}
  /\ UNCHANGED <<durable, next_cursor, cursor, seen_cursors, pages_read, known,
                 config, buffers>>

StopOnStuckCursor ==
  /\ pc = "scan"
  /\ pending = {}
  /\ next_cursor = NoCursor \/ next_cursor \in seen_cursors
  /\ exit' = "stuck_cursor"
  /\ pc' = "drain"
  /\ UNCHANGED <<durable, page, cursor, seen_cursors, pages_read, known, config, buffers>>

\* The page is read: move the cursor and, every CheckpointEvery pages of a
\* resumable run, write the buffers out and store the cursor.
Advance ==
  /\ pc = "scan"
  /\ pending = {}
  /\ next_cursor # NoCursor
  /\ next_cursor \notin seen_cursors
  /\ seen_cursors' = seen_cursors \cup {next_cursor}
  /\ cursor' = next_cursor
  /\ pc' = IF config.resume /\ pages_read % CheckpointEvery = 0
             THEN "flush" ELSE "fetch"
  /\ UNCHANGED <<durable, page, pages_read, exit, known, config, buffers>>

\* flush(): one object per tag, one upload at a time.
Flush(t) ==
  /\ pc \in {"flush", "drain"}
  /\ buffers[t] # {}
  /\ archive' = archive \cup buffers[t]
  /\ buffers' = [buffers EXCEPT ![t] = {}]
  /\ UNCHANGED <<posted, checkpoint, saved, faults, page, walk, pc>>

\* Mutant: the cursor is stored before the buffers are written.
SaveBeforeFlush ==
  /\ pc = "flush"
  /\ checkpoint' = [window |-> config.window, cursor |-> cursor]
  /\ saved' = [stream |-> config.stream, known |-> known]
  /\ pc' = "fetch"
  /\ UNCHANGED <<posted, archive, faults, page, walk, buffers>>

Save ==
  /\ pc = "flush"
  /\ Drained
  /\ checkpoint' = [window |-> config.window, cursor |-> cursor]
  /\ saved' = [stream |-> config.stream, known |-> known]
  /\ pc' = "fetch"
  /\ UNCHANGED <<posted, archive, faults, page, walk, buffers>>

\* save() swallows a failed upload: the walk goes on.
SaveFails ==
  /\ pc = "flush"
  /\ Drained
  /\ faults < MaxFaults
  /\ faults' = faults + 1
  /\ pc' = "fetch"
  /\ UNCHANGED <<posted, archive, checkpoint, saved, page, walk, buffers>>

\* Mutant: every resumable run clears.
ClearsAlways == config.resume

\* The walk counts as over unless it used up its pages.
ClearsCheckpoint ==
  config.resume /\ (exit = "window_start" \/ pages_read < MaxPages)

EndRun ==
  /\ pc = "drain"
  /\ Drained
  /\ checkpoint' = IF ClearsCheckpoint THEN NoCheckpoint ELSE checkpoint
  /\ UNCHANGED <<posted, archive, saved, faults>>
  /\ NoRun

\* clear() swallows a failed delete: the checkpoint outlives the walk.
EndRunClearFails ==
  /\ pc = "drain"
  /\ Drained
  /\ ClearsCheckpoint
  /\ faults < MaxFaults
  /\ faults' = faults + 1
  /\ UNCHANGED <<posted, archive, checkpoint, saved>>
  /\ NoRun

\* An exception leaves collect() (the page fetch gave up, an upload failed),
\* or the task is killed: what is buffered is lost.
Crash ==
  /\ pc # "idle"
  /\ faults < MaxFaults
  /\ faults' = faults + 1
  /\ UNCHANGED <<posted, archive, checkpoint, saved>>
  /\ NoRun

Start ==
  \E w \in Windows, s \in Streams :
    \/ ResumeWalk(w, s)
    \/ StartUnreadable(w, s)
    \/ \E resume \in ResumeModes : StartWalk(w, s, resume)

Scan == \E r \in Reviews : Keep(r) \/ Skip(r) \/ ReachWindowStart(r)

Run ==
  \/ FetchEmpty \/ FetchPage \/ HitPageCap
  \/ Scan \/ StopOnStuckCursor \/ Advance
  \/ (\E t \in Tags : Flush(t))
  \/ Save \/ SaveFails \/ EndRun \/ EndRunClearFails

Next == Post \/ Start \/ Run \/ Crash

Spec == Init /\ [][Next]_vars

\* The operator runs the job again after it ends, and a running job goes on.
FairSpec == Spec /\ WF_vars(Start) /\ WF_vars(Run)

-----------------------------------------------------------------------------
(* Safety *)

\* A stored cursor stands for records already in GCS: whatever order the
\* flushes, saves, failures and restarts came in, every in-window review
\* that a resumed run will not fetch again is archived.
CheckpointBacked ==
  checkpoint # NoCheckpoint =>
    Owed(saved.stream, saved.known, checkpoint.window, checkpoint.cursor)
      \subseteq archive

\* "A resumed run never skips records the cursor has passed" (main.py:760):
\* between two pages every in-window review of the run's stream behind it is
\* archived or still in a buffer.
NothingSkipped ==
  pc \in {"fetch", "flush"} =>
    Due(cursor) \subseteq Kept

\* When the last flush is done, the archive holds what the walk owes at its
\* end, however many runs, failed saves and crashes it took: the whole window
\* if it met the window's start; what it passed and what Steam still serves if
\* the pages ran out; what it passed if it hit the page cap. The second is less
\* than the window when the stream is longer than Steam's cap on it, of which
\* the code notices nothing (main.py:81-86).
EndedWalkComplete ==
  pc = "drain" /\ Drained => DueAtEnd \subseteq archive

\* A run deletes the checkpoint only when it leaves nothing of its own pass to
\* resume: every review it owed that Steam still serves is archived.
ClearedOnlyWhenComplete ==
  [][checkpoint # NoCheckpoint /\ checkpoint' = NoCheckpoint =>
       Due(1) \cap Served(config.stream) \subseteq archive']_vars

(* The inductive invariant behind the safety properties (see              *)
(* SteamWalk_proofs): what is owed at each point of the page loop.        *)

\* While a page is looked at, what is owed up to the page's end, and up to
\* each review still pending, is kept or pending; a cursor that did not move
\* means that the stream serves no more.
PageCovered ==
  pc = "scan" =>
    /\ next_cursor # NoCursor =>
         /\ next_cursor <= cursor
         /\ Due(next_cursor) \subseteq Kept \cup pending
    /\ next_cursor \in {NoCursor, cursor} =>
         Due(1) \cap Served(config.stream) \subseteq Kept \cup pending
    /\ Due(cursor) \subseteq Kept \cup pending
    /\ \A r \in pending :
         Due(Rank[config.stream][r]) \subseteq Kept \cup pending

LoopEnd ==
  pc = "drain" =>
    /\ exit # "none"
    /\ exit = "page_cap" => pages_read = MaxPages
    /\ DueAtEnd \subseteq Kept

CursorsDescend ==
  /\ pc = "idle" => seen_cursors = {}
  /\ \A c \in seen_cursors : cursor <= c

WalkInv ==
  /\ TypeOK
  /\ known <= posted /\ saved.known <= posted
  /\ CheckpointBacked
  /\ NothingSkipped
  /\ PageCovered
  /\ LoopEnd
  /\ CursorsDescend

(* Liveness *)

\* However often runs are cut short or capped, re-running the job in the end
\* archives every in-window review, unless newer ones push it past the cap of
\* every stream that had it: what no stream serves, no run can fetch.
EveryReviewArchived ==
  \A r \in Reviews :
    (r <= posted /\ \E w \in Windows, s \in Streams : r \in Member[s] /\ InWindow(w, r))
      ~> (r \in archive \/ \A s \in Streams : r \notin Served(s))

=============================================================================
