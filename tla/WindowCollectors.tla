--------------------------- MODULE WindowCollectors ---------------------------
(***************************************************************************)
(* The YouTube and Reddit collectors (collectors/youtube/main.py and       *)
(* collectors/reddit/main.py) in front of the publisher's load step        *)
(* (StagingLoad). A pass walks everything its API exposes once, keeps what *)
(* its window admits in a buffer, writes the buffer in objects, and stores *)
(* no position: a pass that dies is run again from the beginning, and what *)
(* it archives twice the load step deduplicates.                           *)
(*                                                                         *)
(* The APIs are external. YouTube answers with the threads of a curated    *)
(* video page by page; a Reddit search answers with the newest submissions *)
(* up to a ceiling. Their content does not change while it is collected,   *)
(* times are whole units, and one pass runs at a time. Rows carries a copy *)
(* of every record for every pass; quick passes may share a second.        *)
(***************************************************************************)
EXTENDS StagingLoad, Sequences, SequencesExt, TLC

CONSTANTS
  WindowFrom, WindowTo,  \* the collection window
  Time,          \* Time[k]: when record k was published
  Videos,        \* youtube_videos.yaml: its entries, in order
  Event,         \* EVENT_ID
  Threads,       \* Threads[v]: the pages of v; a page is a sequence of threads,
                 \* a thread the comment and its replies
  Subreddits,    \* SUBREDDITS
  Posts,         \* Posts[s]: the submissions the query matches, newest first
  Replies,       \* Replies[k]: the comments below submission or comment k
  Ceiling,       \* submissions a Reddit search returns at most
  SliceLength,   \* SLICE_HOURS
  MaxDepth,      \* MAX_COMMENT_DEPTH
  BatchSize,     \* BATCH_SIZE
  MaxAttempts,   \* max_attempts of retry_transient
  Second,        \* Second[p]: collected_at of what pass p collects, to the second
  MaxPasses,     \* bound: how many passes are started
  MaxFaults      \* bound: failed calls and crashes

ASSUME CollectorAssumption ==
  /\ IsFiniteSet(Keys)
  /\ Time \in [Keys -> Nat] /\ {WindowFrom, WindowTo} \subseteq Nat
  /\ Threads \in [DOMAIN Threads -> Seq(Seq(Seq(Keys)))]
  /\ Videos \in Seq(ToSet(Videos))
  /\ \A v \in ToSet(Videos) : v.id \in DOMAIN Threads
  /\ Posts \in [DOMAIN Posts -> Seq(Keys)]
  /\ Subreddits \in Seq(DOMAIN Posts)
  /\ Replies \in [Keys -> SUBSET Keys]
  /\ {Ceiling, SliceLength, BatchSize, MaxAttempts} \subseteq Nat \ {0}
  /\ {MaxDepth, MaxPasses, MaxFaults} \subseteq Nat
  /\ Second \in [1 .. MaxPasses -> Nat]
  /\ Rows = {[id |-> k, at |-> Second[p], pass |-> p] : k \in Keys, p \in 1 .. MaxPasses}

VARIABLES
  source,    \* the collector of the pass, or "none" when no pass runs
  passes,    \* passes started
  targets,   \* the videos or subreddits still to be walked
  requests,  \* what is still to be asked for of the one in hand
  feed,      \* the threads or submissions left of the last answer
  item,      \* the records left of the one in hand
  buffer,    \* records collected and not yet written
  written,   \* total_written
  attempts,  \* failed attempts of the request in hand
  reported,  \* history: how each pass ended: its collector and total
  whole,     \* history: whole[l]: the passes that had ended when l began
  faults     \* failed calls and crashes so far

ahead == <<targets, requests, feed, item>>
walk == <<source, passes, ahead, buffer, written, attempts, reported>>
loading == <<landing, staging, at, listed, alone, merged, loads>>
collectVars == <<vars, walk, whole, faults>>

-----------------------------------------------------------------------------
\* _in_window, the half-open window of a run or a slice.
InWindow(k, from, to) == from <= Time[k] /\ Time[k] < to

\* load_videos_for_event: the event's videos, placeholders skipped.
Curated(v) == Event \in v.events /\ ~v.placeholder

\* Mutant: the last slice is dropped when it is not a full one.
TimeSlicesFull == [i \in 1 .. (WindowTo - WindowFrom) \div SliceLength |->
  [from |-> WindowFrom + (i - 1) * SliceLength, to |-> WindowFrom + i * SliceLength]]

\* _time_slices: the slices cover the window, the last one cut short.
TimeSlices ==
  [i \in 1 .. (WindowTo - WindowFrom + SliceLength - 1) \div SliceLength |->
     [from |-> WindowFrom + (i - 1) * SliceLength,
      to |-> IF WindowFrom + i * SliceLength < WindowTo
             THEN WindowFrom + i * SliceLength ELSE WindowTo]]

\* The outer loop of collect: over the videos or the subreddits.
Targets(s) == IF s = "youtube" THEN Videos ELSE Subreddits

\* The inner loop: the pages of a video, or a search for every slice.
Requests(s, target) ==
  IF s = "youtube"
  THEN IF Curated(target) THEN Threads[target.id] ELSE <<>>
  ELSE [j \in DOMAIN TimeSlices |-> [subreddit |-> target, slice |-> TimeSlices[j]]]

\* A thread: the buffer is checked once, after its last record.
ThreadItem(thread) ==
  [i \in DOMAIN thread |-> [id |-> thread[i], check |-> i = Len(thread)]]

\* _iter_comments: the comments of a submission down to MAX_COMMENT_DEPTH, each
\* the end of a chain of replies.
CommentsOf == [post \in Keys |->
  {k \in Keys : \E d \in 0 .. MaxDepth : \E chain \in [0 .. d -> Keys] :
     /\ chain[0] \in Replies[post] /\ chain[d] = k
     /\ \A i \in 1 .. d : chain[i] \in Replies[chain[i - 1]]}]

\* A submission and its comments; the buffer is checked after every comment, and
\* after the submission.
PostItem(post) ==
  LET comments == SetToSeq(CommentsOf[post])
  IN [i \in 1 .. Len(comments) + 1 |->
        [id |-> IF i = 1 THEN post ELSE comments[i - 1], check |-> i > 1 \/ comments = <<>>]]

\* search: the newest matches up to the ceiling; the slice is not part of the
\* query and only filters what came back.
SearchAnswer(query) ==
  LET posts == Posts[query.subreddit]
  IN [i \in 1 .. IF Len(posts) < Ceiling THEN Len(posts) ELSE Ceiling |->
        IF InWindow(posts[i], query.slice.from, query.slice.to)
        THEN PostItem(posts[i]) ELSE <<>>]

Answer(s, query) ==
  IF s = "youtube" THEN [i \in DOMAIN query |-> ThreadItem(query[i])] ELSE SearchAnswer(query)

\* A comment on YouTube is kept if it is in the window; on Reddit the submission
\* was, and its comments are kept whenever they were written.
Admits(s, k) == s = "youtube" => InWindow(k, WindowFrom, WindowTo)

-----------------------------------------------------------------------------
Copies(ids) == {[id |-> k, at |-> Second[passes], pass |-> passes] : k \in ids}

Ends ==
  /\ source' = "none"
  /\ targets' = <<>> /\ requests' = <<>> /\ feed' = <<>> /\ item' = <<>>
  /\ buffer' = <<>>
  /\ attempts' = 0

Fault == faults < MaxFaults /\ faults' = faults + 1

\* main, load_config: a run of one collector.
StartPass(s) ==
  /\ source = "none" /\ passes < MaxPasses
  /\ source' = s
  /\ passes' = passes + 1
  /\ targets' = Targets(s)
  /\ requests' = <<>> /\ feed' = <<>> /\ item' = <<>>
  /\ buffer' = <<>> /\ written' = 0 /\ attempts' = 0
  /\ UNCHANGED <<archive, loading, reported, whole, faults>>

\* The next video or subreddit.
Turn ==
  /\ item = <<>> /\ feed = <<>> /\ requests = <<>> /\ targets # <<>>
  /\ requests' = Requests(source, Head(targets))
  /\ targets' = Tail(targets)
  /\ UNCHANGED <<vars, source, passes, feed, item, buffer, written, attempts, reported,
                 whole, faults>>

\* A request answers. Both collectors have taken in the whole last answer.
Ask ==
  /\ item = <<>> /\ feed = <<>> /\ requests # <<>>
  /\ feed' = Answer(source, Head(requests))
  /\ requests' = Tail(requests)
  /\ attempts' = 0
  /\ UNCHANGED <<vars, source, passes, targets, item, buffer, written, reported, whole, faults>>

\* retry_transient, _execute: YouTube requests are tried again after a
\* transient error; the last one, another error or a Reddit error ends the run.
AskFails ==
  /\ item = <<>> /\ feed = <<>> /\ requests # <<>>
  /\ Fault
  /\ \/ /\ source = "youtube" /\ attempts + 1 < MaxAttempts
        /\ attempts' = attempts + 1
        /\ UNCHANGED <<source, ahead, buffer>>
     \/ Ends
  /\ UNCHANGED <<vars, passes, written, reported, whole>>

\* The next thread or submission of the answer.
Take ==
  /\ item = <<>> /\ feed # <<>>
  /\ item' = Head(feed)
  /\ feed' = Tail(feed)
  /\ UNCHANGED <<vars, source, passes, targets, requests, buffer, written, attempts, reported,
                 whole, faults>>

\* Mutant: every object gets the same name.
WriteOverwrites(records) ==
  /\ archive' = IF records = <<>> THEN archive ELSE Copies(ToSet(records))
  /\ written' = written + Len(records)

\* flush, write_batch: the records become one new object and are counted.
Write(records) ==
  /\ archive' = archive \cup Copies(ToSet(records))
  /\ written' = written + Len(records)

\* An upload that raises ends the run, although the object may be there.
UploadFails(records) ==
  /\ records # <<>>
  /\ Fault
  /\ archive' \in {archive, archive \cup Copies(ToSet(records))}
  /\ Ends
  /\ UNCHANGED <<written, reported>>

\* What the buffer holds after the next record.
Kept == IF Admits(source, Head(item).id) THEN Append(buffer, Head(item).id) ELSE buffer

\* collect: the next record joins the buffer if it is admitted; where the buffer
\* is checked, it is written when it is full.
Keep ==
  /\ item # <<>>
  /\ IF Head(item).check /\ Len(Kept) >= BatchSize
     THEN \/ /\ Write(Kept)
             /\ buffer' = <<>> /\ item' = Tail(item)
             /\ UNCHANGED <<source, targets, requests, feed, attempts, reported, faults>>
          \/ UploadFails(Kept)
     ELSE /\ buffer' = Kept /\ item' = Tail(item)
          /\ UNCHANGED <<archive, source, targets, requests, feed, attempts, written, reported,
                         faults>>
  /\ UNCHANGED <<loading, passes, whole>>

\* The end of collect: the rest of the buffer is written if there is any, and
\* main reports the total.
EndPass ==
  /\ source # "none"
  /\ item = <<>> /\ feed = <<>> /\ requests = <<>> /\ targets = <<>>
  /\ \/ /\ Write(buffer)
        /\ reported' = [reported EXCEPT ![passes] = [source |-> source, total |-> written']]
        /\ Ends
        /\ UNCHANGED faults
     \/ UploadFails(buffer)
  /\ UNCHANGED <<loading, passes, whole>>

\* The process dies with its buffer.
Crash ==
  /\ source # "none"
  /\ Fault
  /\ Ends
  /\ UNCHANGED <<vars, passes, written, reported, whole>>

\* The passes that ended normally.
Ended == {p \in 1 .. MaxPasses : reported[p].source # "none"}

\* The load step runs over whatever the passes have archived.
Load(l) ==
  /\ LoadStep(l)
  /\ whole' = IF at[l] # "loading" /\ at'[l] = "loading"
              THEN [whole EXCEPT ![l] = Ended] ELSE whole
  /\ UNCHANGED <<walk, faults>>

CollectInit ==
  /\ Init
  /\ source = "none" /\ passes = 0
  /\ targets = <<>> /\ requests = <<>> /\ feed = <<>> /\ item = <<>> /\ buffer = <<>>
  /\ written = 0 /\ attempts = 0
  /\ reported = [p \in 1 .. MaxPasses |-> [source |-> "none", total |-> 0]]
  /\ whole = [l \in Loaders |-> {}]
  /\ faults = 0

CollectNext ==
  \/ \E s \in {"youtube", "reddit"} : StartPass(s)
  \/ Turn
  \/ Ask
  \/ AskFails
  \/ Take
  \/ Keep
  \/ EndPass
  \/ Crash
  \/ \E l \in Loaders : Load(l)

CollectSpec == CollectInit /\ [][CollectNext]_collectVars

-----------------------------------------------------------------------------
\* What a pass is to archive of the window if its searches return these
\* submissions, without pages, slices and buffers.
Within(posts) == [s \in {"youtube", "reddit"} |->
  IF s = "youtube"
  THEN {k \in UNION {UNION {UNION {ToSet(thread) : thread \in ToSet(page)} :
                       page \in ToSet(Threads[v.id])} : v \in {w \in ToSet(Videos) : Curated(w)}} :
          InWindow(k, WindowFrom, WindowTo)}
  ELSE UNION {{post} \cup CommentsOf[post] : post \in {k \in posts : InWindow(k, WindowFrom, WindowTo)}}]

\* What the APIs return of the window: of a subreddit the newest submissions up
\* to the ceiling.
Newest(r) == {Posts[r][i] : i \in {j \in DOMAIN Posts[r] : j <= Ceiling}}
Reached == Within(UNION {Newest(r) : r \in ToSet(Subreddits)})

\* What the APIs are taken to do: a thread, a page, a video and a submission are
\* answered once in a walk, and a comment belongs to one submission.
PageKeys(page) == UNION {ToSet(thread) : thread \in ToSet(page)}
VideoKeys(v) == UNION {PageKeys(page) : page \in ToSet(Threads[v])}

AnswersOnce ==
  /\ \A v \in DOMAIN Threads :
       /\ \A page \in ToSet(Threads[v]) :
            /\ \A thread \in ToSet(page) : IsInjective(thread)
            /\ \A i, j \in DOMAIN page : i # j => ToSet(page[i]) \cap ToSet(page[j]) = {}
       /\ \A i, j \in DOMAIN Threads[v] :
            i # j => PageKeys(Threads[v][i]) \cap PageKeys(Threads[v][j]) = {}
  /\ \A i, j \in DOMAIN Videos :
       i # j /\ Curated(Videos[i]) /\ Curated(Videos[j]) =>
         VideoKeys(Videos[i].id) \cap VideoKeys(Videos[j].id) = {}
  /\ \A i, j \in DOMAIN Subreddits :
       i # j => ToSet(Posts[Subreddits[i]]) \cap ToSet(Posts[Subreddits[j]]) = {}
  /\ \A r \in ToSet(Subreddits) : IsInjective(Posts[r])
  /\ LET posts == UNION {ToSet(Posts[r]) : r \in ToSet(Subreddits)}
     IN \A k, j \in posts :
          /\ k \notin CommentsOf[j]
          /\ k # j => CommentsOf[k] \cap CommentsOf[j] = {}

\* The records pass p has archived.
StoredBy(p) == {row.id : row \in {r \in archive : r.pass = p}}

\* A pass that ends normally has archived exactly what its API returns of the
\* window, and reports that number: whatever pages, slices of another length
\* than the window's, partly filled buffers and retries it went through, and
\* however earlier passes ended (youtube/main.py:253-297, reddit/main.py:242-270).
PassComplete ==
  \A p \in Ended :
    /\ StoredBy(p) = Reached[reported[p].source]
    /\ reported[p].total = Cardinality(Reached[reported[p].source])

\* End to end: a load that no other overlapped leaves in staging every record
\* of the window that a pass completed before it saw, at least as fresh as
\* that pass saw it, although crashed and repeated passes archived copies.
StagedWhole ==
  \A l \in Loaders : at[l] = "done" /\ alone[l] =>
    \A p \in whole[l] : \A k \in Reached[reported[p].source] :
      staging[k] # Absent /\ staging[k].at >= Second[p]
===============================================================================
