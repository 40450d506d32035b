--------------------------- MODULE SteamWalk_proofs ---------------------------
(* Proofs about SteamWalk, for every feed, window set, bound and failure     *)
(* count. The type invariant needs no hypothesis; the checkpoint's safety    *)
(* holds when all runs walk one stream (OneStream), because the checkpoint's *)
(* key does not name the stream.                                             *)
EXTENDS SteamWalk, FiniteSetTheorems, TLAPS

OneStream == \A s1, s2 \in Streams : s1 = s2

-----------------------------------------------------------------------------
\* The constants' types, as the provers need them.
LEMMA Domains ==
  /\ LastReview \in Nat /\ MaxPages \in Nat /\ MaxFaults \in Nat
  /\ ResumeModes \subseteq BOOLEAN
  /\ Star \in Cursors
  /\ Reviews \subseteq Cursors
  /\ \A s \in Streams : Member[s] \subseteq Reviews
  /\ \A s \in Streams : \A r \in Reviews : Rank[s][r] \in Reviews
  /\ \A r \in Reviews : TagOf[r] \in Tags
  /\ \A w \in Windows : w.from \in Nat /\ w.to \in Nat
<1>1. LastReview \in Nat /\ MaxPages \in Nat /\ MaxFaults \in Nat
  BY SteamAssumption
<1>2. Star \in Cursors /\ Reviews \subseteq Cursors
  BY <1>1 DEF Star, Cursors, Reviews
<1>3. ResumeModes \subseteq BOOLEAN
  BY SteamAssumption
<1>4. \A s \in Streams : Member[s] \subseteq Reviews
  BY SteamAssumption
<1>5. \A s \in Streams : \A r \in Reviews : Rank[s][r] \in Reviews
  BY SteamAssumption
<1>6. \A r \in Reviews : TagOf[r] \in Tags
  BY SteamAssumption
<1>7. \A w \in Windows : w.from \in Nat /\ w.to \in Nat
  BY SteamAssumption
<1> QED BY <1>1, <1>2, <1>3, <1>4, <1>5, <1>6, <1>7

\* What a step that fetches a page does, without its choice of the page.
LEMMA FetchPageEffect ==
  ASSUME TypeOK, FetchPage
  PROVE  LET rank == Rank[config.stream]
             rest == Behind(config.stream, cursor) IN
    /\ pc = "fetch" /\ pc' = "scan"
    /\ pages_read < MaxPages /\ pages_read' = pages_read + 1
    /\ rest \subseteq Reviews
    /\ \E last \in rest :
         /\ pending' = {r \in rest : rank[r] >= rank[last]}
         /\ \/ next_cursor' = rank[last]
            \/ pending' = rest /\ next_cursor' \in {cursor, NoCursor}
    /\ UNCHANGED <<posted, archive, checkpoint, saved, faults, cursor,
                   seen_cursors, exit, known, config, buffers>>
<1>1. Behind(config.stream, cursor) \subseteq Reviews
  BY Domains DEF TypeOK, Behind, Served, Posted
<1> QED BY <1>1 DEF FetchPage, durable

LEMMA StartAtType ==
  ASSUME TypeOK, NEW w \in Windows, NEW s \in Streams, NEW resume \in BOOLEAN,
         NEW c \in Cursors, NEW n \in 0 .. LastReview,
         StartAt(w, s, resume, c, n), faults' \in 0 .. MaxFaults
  PROVE  TypeOK'
<1>1. config' \in [window : Windows, stream : Streams, resume : BOOLEAN]
  BY DEF StartAt
<1> QED BY <1>1 DEF TypeOK, StartAt, page

\* The type invariant of the collector: every variable of a run and both GCS
\* objects keep their type through every step, crashes included.
THEOREM TypeCorrect == Spec => []TypeOK
<1> USE Domains DEF TypeOK
<1>1. Init => TypeOK
  BY DEF Init, Empty, SavedPasses
<1>2. TypeOK /\ [Next]_vars => TypeOK'
  <2> SUFFICES ASSUME TypeOK, [Next]_vars PROVE TypeOK'
    OBVIOUS
  <2>1. CASE Post
    <3>1. posted' \in 0 .. LastReview
      BY <2>1 DEF Post
    <3> QED BY <2>1, <3>1 DEF Post, page, walk
  <2>2. ASSUME NEW w \in Windows, NEW s \in Streams, ResumeWalk(w, s) PROVE TypeOK'
    <3>1. checkpoint.cursor \in Cursors /\ saved.known \in 0 .. LastReview
      BY <2>2 DEF ResumeWalk, Resumable, SavedPasses
    <3> QED BY <2>2, <3>1, StartAtType DEF ResumeWalk
  <2>18. ASSUME NEW w \in Windows, NEW s \in Streams, StartUnreadable(w, s) PROVE TypeOK'
    <3>1. faults' \in 0 .. MaxFaults
      BY <2>18 DEF StartUnreadable
    <3> QED BY <2>18, <3>1, StartAtType DEF StartUnreadable
  <2>19. ASSUME NEW w \in Windows, NEW s \in Streams, NEW resume \in ResumeModes,
                StartWalk(w, s, resume)
         PROVE  TypeOK'
    BY <2>19, StartAtType DEF StartWalk
  <2>3. CASE FetchEmpty
    BY <2>3 DEF FetchEmpty, durable, page
  <2>4. CASE FetchPage
    <3>1. pending' \subseteq Reviews
      BY <2>4, FetchPageEffect
    <3>2. next_cursor' \in Cursors \cup {NoCursor}
      BY <2>4, FetchPageEffect
    <3>3. pages_read' \in 0 .. MaxPages
      BY <2>4, FetchPageEffect
    <3> QED BY <2>4, <3>1, <3>2, <3>3, FetchPageEffect
  <2>5. CASE HitPageCap
    BY <2>5 DEF HitPageCap, durable, page
  <2>6. ASSUME NEW r \in Reviews, Keep(r) PROVE TypeOK'
    BY <2>6 DEF Keep, Looking, walk
  <2>7. ASSUME NEW r \in Reviews, Skip(r) PROVE TypeOK'
    BY <2>7 DEF Skip, Looking, durable, walk
  <2>8. ASSUME NEW r \in Reviews, ReachWindowStart(r) PROVE TypeOK'
    BY <2>8 DEF ReachWindowStart, Looking, durable
  <2>9. CASE StopOnStuckCursor
    BY <2>9 DEF StopOnStuckCursor, durable, page
  <2>10. CASE Advance
    BY <2>10 DEF Advance, durable, page
  <2>11. ASSUME NEW t \in Tags, Flush(t) PROVE TypeOK'
    BY <2>11 DEF Flush, page, walk
  <2>12. CASE Save
    BY <2>12 DEF Save, page, walk, SavedPasses
  <2>13. CASE SaveFails
    BY <2>13 DEF SaveFails, page, walk
  <2>14. CASE EndRun
    BY <2>14 DEF EndRun, NoRun, Empty
  <2>15. CASE EndRunClearFails
    BY <2>15 DEF EndRunClearFails, NoRun, Empty
  <2>16. CASE Crash
    BY <2>16 DEF Crash, NoRun, Empty
  <2>17. CASE UNCHANGED vars
    BY <2>17 DEF vars, durable, page, walk
  <2> QED
    BY <2>1, <2>2, <2>3, <2>4, <2>5, <2>6, <2>7, <2>8, <2>9, <2>10, <2>11,
       <2>12, <2>13, <2>14, <2>15, <2>16, <2>17, <2>18, <2>19
    DEF Next, Start, Run, Scan
<1> QED BY <1>1, <1>2, PTL DEF Spec

-----------------------------------------------------------------------------
\* Facts about what a pass owes.

\* Nothing is owed in front of the first page.
LEMMA OwedAtStar ==
  ASSUME NEW s \in Streams, NEW n, NEW w
  PROVE  Owed(s, n, w, Star) = {}
<1>1. \A r \in Member[s] : Rank[s][r] \in Reviews
  BY Domains
<1>2. \A k \in Reviews : ~(k >= Star)
  BY Domains DEF Reviews, Star
<1> QED BY <1>1, <1>2 DEF Owed

\* Passing more of the stream owes more.
LEMMA OwedGrows ==
  ASSUME NEW s \in Streams, NEW n, NEW w,
         NEW c \in Cursors, NEW d \in Cursors, d <= c
  PROVE  Owed(s, n, w, c) \subseteq Owed(s, n, w, d)
<1>1. \A r \in Member[s] : Rank[s][r] \in Nat
  BY Domains DEF Reviews
<1> QED BY <1>1, Domains DEF Owed, Cursors, Star

\* The reviews in front of another are finitely many.
LEMMA AheadFinite ==
  ASSUME TypeOK, NEW s \in Streams, NEW r
  PROVE  IsFiniteSet(Ahead(s, r))
<1>1. IsFiniteSet(1 .. posted)
  BY Domains, FS_Interval DEF TypeOK
<1> QED BY <1>1, FS_Subset DEF Ahead, Posted

\* A stream that serves a review serves every one in front of it.
LEMMA ServedAhead ==
  ASSUME TypeOK, NEW s \in Streams, NEW r \in Served(s),
         NEW q \in Posted \cap Member[s], Rank[s][q] >= Rank[s][r]
  PROVE  q \in Served(s)
<1>1. r \in Member[s] /\ \A p \in Member[s] : Rank[s][p] \in Nat
  BY Domains DEF Served, Reviews
<1>2. Ahead(s, q) \subseteq Ahead(s, r)
  BY <1>1 DEF Ahead
<1>3. /\ Cardinality(Ahead(s, q)) <= Cardinality(Ahead(s, r))
      /\ Cardinality(Ahead(s, q)) \in Nat /\ Cardinality(Ahead(s, r)) \in Nat
  BY <1>2, AheadFinite, FS_Subset, FS_CardinalityType
<1>4. Depth[s] \in Nat /\ Cardinality(Ahead(s, r)) < Depth[s]
  BY SteamAssumption DEF Served
<1> QED BY <1>3, <1>4 DEF Served

\* A review past the cap of a stream stays there.
LEMMA ServedShrinks ==
  ASSUME TypeOK, TypeOK', posted <= posted', NEW s \in Streams,
         NEW r \in Posted, r \in Served(s)'
  PROVE  r \in Served(s)
<1>1. Posted \subseteq Posted'
  BY Domains DEF Posted, TypeOK
<1>2. Ahead(s, r) \subseteq Ahead(s, r)'
  BY <1>1 DEF Ahead
<1>3. IsFiniteSet(1 .. posted')
  BY Domains, FS_Interval DEF TypeOK
<1>4. IsFiniteSet(Ahead(s, r)')
  BY <1>3, FS_Subset DEF Ahead, Posted
<1>5. /\ Cardinality(Ahead(s, r)) <= Cardinality(Ahead(s, r)')
      /\ Cardinality(Ahead(s, r)) \in Nat /\ Cardinality(Ahead(s, r)') \in Nat
  BY <1>2, <1>4, FS_Subset, FS_CardinalityType
<1>6. /\ Depth[s] \in Nat /\ Cardinality(Ahead(s, r)') < Depth[s]
      /\ r \in Member[s]
  BY SteamAssumption DEF Served
<1> QED BY <1>5, <1>6 DEF Served

\* What is owed behind a cursor and still served is what the endpoint has there.
LEMMA OwedBehind ==
  ASSUME TypeOK, NEW s \in Streams, NEW n, NEW w, NEW c \in Cursors, NEW d
  PROVE  Owed(s, n, w, d) \cap Served(s) \subseteq Owed(s, n, w, c) \cup Behind(s, c)
<1> SUFFICES ASSUME NEW r \in Owed(s, n, w, d), r \in Served(s), ~(Rank[s][r] >= c)
             PROVE  r \in Behind(s, c)
  BY DEF Owed
<1>1. r \in Member[s] /\ r \in Reviews
  BY Domains DEF Owed
<1>2. Rank[s][r] \in Reviews
  BY <1>1, Domains
<1>3. Rank[s][r] < c
  BY <1>2, Domains DEF Reviews, Cursors, Star
<1> QED BY <1>3 DEF Behind

\* What is owed up to a review that is served is served itself.
LEMMA OwedServed ==
  ASSUME TypeOK, NEW s \in Streams, NEW n \in 0 .. posted, NEW w, NEW r \in Served(s)
  PROVE  Owed(s, n, w, Rank[s][r]) \subseteq Served(s)
<1> SUFFICES ASSUME NEW q \in Owed(s, n, w, Rank[s][r]) PROVE q \in Served(s)
  OBVIOUS
<1>1. q \in Member[s] /\ q \in Reviews /\ q <= n /\ Rank[s][q] >= Rank[s][r]
  BY Domains DEF Owed
<1>2. q \in Posted
  BY <1>1, Domains DEF Reviews, Posted, TypeOK
<1> QED BY <1>1, <1>2, ServedAhead

\* Once every buffer is written, what is kept is what is archived.
LEMMA DrainedKept == Drained => Kept = archive
BY DEF Drained, Kept, Buffered

\* Writing out a buffer, or buffering a review, loses nothing.
LEMMA FlushKept ==
  ASSUME TypeOK, NEW t \in Tags, Flush(t)
  PROVE  Kept \subseteq Kept'
BY DEF Flush, Kept, Buffered, TypeOK

LEMMA KeepKept ==
  ASSUME TypeOK, NEW r \in Reviews, Keep(r)
  PROVE  Kept \cup {r} \subseteq Kept'
<1> DEFINE t == TagOf[r]
           full == buffers[t] \cup {r}
<1>1. t \in Tags
  BY Domains
<1>2. CASE archive' = archive \cup full /\ buffers' = [buffers EXCEPT ![t] = {}]
  BY <1>1, <1>2 DEF Kept, Buffered, TypeOK
<1>3. CASE archive' = archive /\ buffers' = [buffers EXCEPT ![t] = full]
  BY <1>1, <1>3 DEF Kept, Buffered, TypeOK
<1> QED BY <1>2, <1>3 DEF Keep

\* The checkpoint stays backed when only the archive grows.
LEMMA BackedStays ==
  ASSUME CheckpointBacked, archive \subseteq archive', UNCHANGED <<checkpoint, saved>>
  PROVE  CheckpointBacked'
BY DEF CheckpointBacked, Owed, InWindow

-----------------------------------------------------------------------------
\* A run starts with nothing owed that the archive lacks.
LEMMA StartInv ==
  ASSUME WalkInv, TypeOK',
         NEW w \in Windows, NEW s \in Streams, NEW resume,
         NEW c \in Cursors, NEW n \in 0 .. posted,
         StartAt(w, s, resume, c, n),
         Owed(s, n, w, c) \subseteq archive
  PROVE  WalkInv'
<1> USE DEF StartAt
<1>1. (known <= posted /\ saved.known <= posted)'
  BY DEF WalkInv, TypeOK
<1>2. CheckpointBacked'
  BY BackedStays DEF WalkInv
<1>3. NothingSkipped'
  BY DEF NothingSkipped, Kept, Due, Owed, InWindow
<1>4. PageCovered' /\ LoopEnd'
  BY DEF PageCovered, LoopEnd
<1>5. CursorsDescend'
  BY DEF CursorsDescend, WalkInv
<1> QED BY <1>1, <1>2, <1>3, <1>4, <1>5 DEF WalkInv

\* However a run ends, nothing but the two GCS objects matters.
LEMMA NoRunInv ==
  ASSUME WalkInv, TypeOK', NoRun, UNCHANGED <<posted, archive, saved>>,
         checkpoint' \in {checkpoint, NoCheckpoint}
  PROVE  WalkInv'
<1> USE DEF NoRun
<1>1. (known <= posted /\ saved.known <= posted)'
  BY DEF WalkInv
<1>2. CheckpointBacked'
  BY DEF WalkInv, CheckpointBacked, Owed, InWindow
<1>3. NothingSkipped' /\ PageCovered' /\ LoopEnd' /\ CursorsDescend'
  BY DEF NothingSkipped, PageCovered, LoopEnd, CursorsDescend
<1> QED BY <1>1, <1>2, <1>3 DEF WalkInv

\* Fetching an empty page: nothing is left behind the cursor.
LEMMA FetchEmptyInv ==
  ASSUME WalkInv, TypeOK', FetchEmpty
  PROVE  WalkInv'
<1> USE DEF FetchEmpty, durable, page
<1>1. (known <= posted /\ saved.known <= posted)'
  BY DEF WalkInv
<1>2. CheckpointBacked'
  BY BackedStays DEF WalkInv
<1>3. NothingSkipped' /\ PageCovered'
  BY DEF NothingSkipped, PageCovered
<1>4. CursorsDescend'
  BY DEF CursorsDescend, WalkInv
<1>5. LoopEnd'
  <2>1. config.stream \in Streams /\ cursor \in Cursors /\ known \in 0 .. posted
    BY DEF WalkInv, TypeOK
  <2>2. Due(cursor) \subseteq Kept
    BY DEF WalkInv, NothingSkipped
  <2>3. Due(1) \cap Served(config.stream) \subseteq Kept
    BY <2>1, <2>2, OwedBehind DEF WalkInv, Due
  <2>4. Kept' = Kept
    BY DEF Kept, Buffered
  <2>5. Due(1)' = Due(1)
    BY DEF Due, Owed, InWindow
  <2>6. Served(config.stream)' = Served(config.stream)
    BY DEF Served, Ahead, Posted
  <2>7. exit' = "empty_page"
    OBVIOUS
  <2>8. DueAtEnd' \subseteq Kept'
    <3>1. \A r \in Due(1) : Rank[config.stream][r] >= cursor => r \in Due(cursor)
      BY DEF Due, Owed
    <3> QED BY <2>2, <2>3, <2>4, <2>5, <2>6, <2>7, <3>1 DEF DueAtEnd
  <2> QED BY <2>7, <2>8 DEF LoopEnd
<1> QED BY <1>1, <1>2, <1>3, <1>4, <1>5 DEF WalkInv

\* Fetching a page: what it holds is pending, what lies behind it is not owed.
LEMMA FetchPageInv ==
  ASSUME WalkInv, TypeOK', FetchPage
  PROVE  WalkInv'
<1> DEFINE rank == Rank[config.stream]
           rest == Behind(config.stream, cursor)
<1>0. TypeOK
  BY DEF WalkInv
<1>1. /\ pc = "fetch" /\ pc' = "scan"
      /\ UNCHANGED <<posted, archive, checkpoint, saved, cursor, seen_cursors,
                     exit, known, config, buffers>>
  BY <1>0, FetchPageEffect
<1>2. PICK last \in rest :
        /\ pending' = {r \in rest : rank[r] >= rank[last]}
        /\ next_cursor' = rank[last] \/ (pending' = rest /\ next_cursor' \in {cursor, NoCursor})
  BY <1>0, FetchPageEffect
<1>3. config.stream \in Streams /\ cursor \in Cursors /\ known \in 0 .. posted
  BY DEF WalkInv, TypeOK
<1>4. rest \subseteq Reviews
  BY <1>0, FetchPageEffect
<1>5. rank[last] \in Reviews /\ rank[last] < cursor
  BY <1>2, <1>3, <1>4, Domains DEF Behind
<1>6. /\ Due(cursor) \subseteq Kept
      /\ \A c : Due(c) \cap Served(config.stream) \subseteq Kept \cup rest
  <2>1. Due(cursor) \subseteq Kept
    BY <1>1 DEF WalkInv, NothingSkipped
  <2>2. \A c : Due(c) \cap Served(config.stream) \subseteq Due(cursor) \cup rest
    BY <1>0, <1>3, OwedBehind DEF Due
  <2> QED BY <2>1, <2>2
<1>7. \A r \in rest : Due(rank[r]) \subseteq Kept \cup {q \in rest : rank[q] >= rank[r]}
  <2> TAKE r \in rest
  <2>1. r \in Served(config.stream)
    BY DEF Behind
  <2>2. Due(rank[r]) \subseteq Served(config.stream)
    BY <1>0, <1>3, <2>1, OwedServed DEF Due
  <2>3. \A q \in Due(rank[r]) : rank[q] >= rank[r]
    BY DEF Due, Owed
  <2> QED BY <1>6, <2>2, <2>3
<1>8. /\ Kept' = Kept /\ \A c : Due(c)' = Due(c)
      /\ Served(config.stream)' = Served(config.stream)
  BY <1>1 DEF Kept, Buffered, Due, Owed, InWindow, Served, Ahead, Posted
<1>13. \A r \in pending' : Due(rank[r]) \subseteq Kept \cup pending'
  <2> TAKE r \in pending'
  <2>1. r \in rest /\ rank[r] >= rank[last]
    BY <1>2
  <2>2. \A q \in rest : rank[q] \in Nat
    BY <1>3, <1>4, Domains DEF Reviews
  <2>3. \A q \in rest : rank[q] >= rank[r] => rank[q] >= rank[last]
    BY <1>2, <2>1, <2>2
  <2> QED BY <1>2, <1>7, <2>1, <2>3
<1>14. last \in pending'
  <2>1. rank[last] >= rank[last]
    BY <1>5, Domains DEF Reviews
  <2> QED BY <1>2, <2>1
<1>9. PageCovered'
  <2>1. Due(cursor)' \subseteq Kept' \cup pending'
    BY <1>1, <1>6, <1>8 DEF Due, Owed, InWindow
  <2>2. \A r \in pending' : Due(Rank[config.stream][r])' \subseteq Kept' \cup pending'
    BY <1>1, <1>8, <1>13 DEF Due, Owed, InWindow
  <2>3. CASE next_cursor' = rank[last]
    <3>1. next_cursor' \notin {NoCursor, cursor} /\ next_cursor' <= cursor
      BY <1>3, <1>5, <2>3, Domains DEF Reviews, NoCursor, Cursors, Star
    <3>2. Due(next_cursor)' = Due(rank[last])
      BY <1>1, <2>3 DEF Due, Owed, InWindow
    <3> QED BY <1>1, <1>8, <1>13, <1>14, <2>1, <2>2, <3>1, <3>2 DEF PageCovered
  <2>4. CASE pending' = rest /\ next_cursor' \in {cursor, NoCursor}
    <3>1. cursor <= cursor
      BY <1>3, Domains DEF Cursors, Star
    <3>2. (Due(1) \cap Served(config.stream))' \subseteq Kept' \cup pending'
      BY <1>6, <1>8, <2>4
    <3>3. next_cursor' # NoCursor => Due(next_cursor)' = Due(cursor)
      BY <1>1, <2>4 DEF Due, Owed, InWindow
    <3> QED BY <1>1, <1>6, <1>8, <2>1, <2>2, <2>4, <3>1, <3>2, <3>3 DEF PageCovered
  <2> QED BY <1>2, <2>3, <2>4
<1>10. CheckpointBacked'
  BY <1>1, BackedStays DEF WalkInv
<1>11. NothingSkipped' /\ LoopEnd'
  BY <1>1 DEF NothingSkipped, LoopEnd
<1>12. CursorsDescend' /\ (known <= posted /\ saved.known <= posted)'
  BY <1>1 DEF CursorsDescend, WalkInv
<1> QED BY <1>9, <1>10, <1>11, <1>12 DEF WalkInv

\* Looking at an in-window review: from pending to kept.
LEMMA KeepInv ==
  ASSUME WalkInv, TypeOK', NEW r \in Reviews, Keep(r)
  PROVE  WalkInv'
<1>1. Kept \cup {r} \subseteq Kept' /\ pending' = pending \ {r}
  BY KeepKept DEF WalkInv, Keep
<1>2. UNCHANGED <<posted, checkpoint, saved, pc, next_cursor, cursor,
                  seen_cursors, exit, known, config>> /\ pc = "scan"
  BY DEF Keep, Looking, walk
<1>3. archive \subseteq archive'
  BY DEF Keep
<1>4. /\ Due(1)' = Due(1) /\ Due(next_cursor)' = Due(next_cursor)
      /\ Due(cursor)' = Due(cursor)
      /\ \A q : Due(Rank[config.stream][q])' = Due(Rank[config.stream][q])
      /\ Served(config.stream)' = Served(config.stream)
  BY <1>2 DEF Due, Owed, InWindow, Served, Ahead, Posted
<1>5. PageCovered'
  BY <1>1, <1>2, <1>4 DEF PageCovered, WalkInv
<1>6. CheckpointBacked'
  BY <1>2, <1>3, BackedStays DEF WalkInv
<1>7. NothingSkipped' /\ LoopEnd'
  BY <1>2 DEF NothingSkipped, LoopEnd
<1>8. CursorsDescend' /\ (known <= posted /\ saved.known <= posted)'
  BY <1>2 DEF CursorsDescend, WalkInv
<1> QED BY <1>5, <1>6, <1>7, <1>8 DEF WalkInv

\* Passing over a review: it lies outside the window, so it is not owed.
LEMMA SkipInv ==
  ASSUME WalkInv, TypeOK', NEW r \in Reviews, Skip(r)
  PROVE  WalkInv'
<1>1. ~InWindow(config.window, r)
  <2>1. config.window.from \in Nat /\ config.window.to \in Nat /\ r \in Nat
    BY Domains DEF WalkInv, TypeOK, Reviews
  <2> QED BY <2>1 DEF Skip, InWindow
<1>2. /\ pc = "scan" /\ pending' = pending \ {r}
      /\ UNCHANGED <<posted, archive, checkpoint, saved, pc, next_cursor, cursor,
                     seen_cursors, exit, known, config, buffers>>
  BY DEF Skip, Looking, durable, walk
<1>3. \A c : r \notin Due(c)
  BY <1>1 DEF Due, Owed
<1>4. /\ Kept' = Kept /\ Due(1)' = Due(1) /\ Due(next_cursor)' = Due(next_cursor)
      /\ Due(cursor)' = Due(cursor)
      /\ \A q : Due(Rank[config.stream][q])' = Due(Rank[config.stream][q])
      /\ Served(config.stream)' = Served(config.stream)
  BY <1>2 DEF Kept, Buffered, Due, Owed, InWindow, Served, Ahead, Posted
<1>5. PageCovered'
  BY <1>2, <1>3, <1>4 DEF PageCovered, WalkInv
<1>6. CheckpointBacked'
  BY <1>2, BackedStays DEF WalkInv
<1>7. NothingSkipped' /\ LoopEnd'
  BY <1>2 DEF NothingSkipped, LoopEnd
<1>8. CursorsDescend' /\ (known <= posted /\ saved.known <= posted)'
  BY <1>2 DEF CursorsDescend, WalkInv
<1> QED BY <1>5, <1>6, <1>7, <1>8 DEF WalkInv

\* Reaching the start of the window: all that is pending, and all that lies
\* behind the page, is older still.
LEMMA ReachWindowStartInv ==
  ASSUME WalkInv, TypeOK', NEW r \in Reviews, ReachWindowStart(r)
  PROVE  WalkInv'
<1>1. /\ pc = "scan" /\ pc' = "drain" /\ exit' = "window_start"
      /\ UNCHANGED <<posted, archive, checkpoint, saved, next_cursor, cursor,
                     seen_cursors, known, config, buffers>>
  BY DEF ReachWindowStart, Looking, durable
<1>2. config.stream \in Chronological /\ config.stream \in Streams
  BY DEF ReachWindowStart, WalkInv, TypeOK
<1>3. \A q \in Reviews : Rank[config.stream][q] = q
  BY <1>2, SteamAssumption
<1>4. config.window.from \in Nat /\ r \in Nat /\ r < config.window.from
  BY Domains DEF ReachWindowStart, WalkInv, TypeOK, Reviews
<1>5. r \in pending /\ pending \subseteq Reviews
  BY DEF ReachWindowStart, Looking, WalkInv, TypeOK
<1>6. ASSUME NEW q \in Due(1) PROVE q \in Kept
  <2>1. q \in Reviews /\ q \in Nat /\ config.window.from <= q
    BY <1>2, <1>6, Domains DEF Due, Owed, InWindow, Reviews
  <2>2. q \notin pending
    <3>1. \A p \in pending : p <= r
      BY <1>3, <1>5 DEF ReachWindowStart, Looking
    <3> QED BY <1>4, <2>1, <3>1
  <2>3. q >= r
    BY <1>4, <2>1
  <2>4. q \in Due(Rank[config.stream][r])
    BY <1>3, <1>5, <1>6, <2>1, <2>3 DEF Due, Owed
  <2> QED BY <1>1, <1>5, <2>2, <2>4 DEF WalkInv, PageCovered
<1>7. Kept' = Kept /\ Due(1)' = Due(1)
  BY <1>1 DEF Kept, Buffered, Due, Owed, InWindow
<1>8. LoopEnd'
  BY <1>1, <1>6, <1>7 DEF LoopEnd, DueAtEnd
<1>9. CheckpointBacked'
  BY <1>1, BackedStays DEF WalkInv
<1>10. NothingSkipped' /\ PageCovered'
  BY <1>1 DEF NothingSkipped, PageCovered
<1>11. CursorsDescend' /\ (known <= posted /\ saved.known <= posted)'
  BY <1>1 DEF CursorsDescend, WalkInv
<1> QED BY <1>8, <1>9, <1>10, <1>11 DEF WalkInv

\* A cursor that was seen before has not moved: the stream holds no more.
LEMMA StopOnStuckCursorInv ==
  ASSUME WalkInv, TypeOK', StopOnStuckCursor
  PROVE  WalkInv'
<1>1. /\ pc = "scan" /\ pc' = "drain" /\ exit' = "stuck_cursor" /\ pending = {}
      /\ UNCHANGED <<posted, archive, checkpoint, saved, next_cursor, cursor,
                     seen_cursors, known, config, buffers>>
  BY DEF StopOnStuckCursor, durable, page
<1>2. next_cursor \in {NoCursor, cursor}
  <2>1. CASE next_cursor = NoCursor
    BY <2>1
  <2>2. CASE next_cursor # NoCursor
    <3>1. next_cursor \in seen_cursors /\ next_cursor <= cursor /\ cursor <= next_cursor
      BY <1>1, <2>2 DEF StopOnStuckCursor, WalkInv, CursorsDescend, PageCovered
    <3>2. next_cursor \in Nat /\ cursor \in Nat
      BY <2>2, Domains DEF WalkInv, TypeOK, Cursors, Star
    <3> QED BY <3>1, <3>2
  <2> QED BY <2>1, <2>2
<1>3. Due(1) \cap Served(config.stream) \subseteq Kept /\ Due(cursor) \subseteq Kept
  BY <1>1, <1>2 DEF WalkInv, PageCovered
<1>4. /\ Kept' = Kept /\ Due(1)' = Due(1)
      /\ Served(config.stream)' = Served(config.stream)
  BY <1>1 DEF Kept, Buffered, Due, Owed, InWindow, Served, Ahead, Posted
<1>5. LoopEnd'
  <2>1. \A r \in Due(1) : Rank[config.stream][r] >= cursor => r \in Due(cursor)
    BY DEF Due, Owed
  <2> QED BY <1>1, <1>3, <1>4, <2>1 DEF LoopEnd, DueAtEnd
<1>6. CheckpointBacked'
  BY <1>1, BackedStays DEF WalkInv
<1>7. NothingSkipped' /\ PageCovered'
  BY <1>1 DEF NothingSkipped, PageCovered
<1>8. CursorsDescend' /\ (known <= posted /\ saved.known <= posted)'
  BY <1>1 DEF CursorsDescend, WalkInv
<1> QED BY <1>5, <1>6, <1>7, <1>8 DEF WalkInv

\* The cursor moves to the end of the page that has been read.
LEMMA AdvanceInv ==
  ASSUME WalkInv, TypeOK', Advance
  PROVE  WalkInv'
<1>1. /\ pc = "scan" /\ pc' \in {"flush", "fetch"} /\ pending = {}
      /\ next_cursor # NoCursor /\ cursor' = next_cursor
      /\ seen_cursors' = seen_cursors \cup {next_cursor}
      /\ UNCHANGED <<posted, archive, checkpoint, saved, known, config, buffers>>
  BY DEF Advance, durable, page
<1>2. next_cursor <= cursor /\ Due(next_cursor) \subseteq Kept
  BY <1>1 DEF WalkInv, PageCovered
<1>3. Kept' = Kept /\ Due(cursor)' = Due(next_cursor)
  BY <1>1 DEF Kept, Buffered, Due, Owed, InWindow
<1>4. NothingSkipped'
  BY <1>2, <1>3 DEF NothingSkipped
<1>5. CursorsDescend'
  <2>1. /\ next_cursor \in Nat /\ cursor \in Nat
        /\ \A c \in seen_cursors : c \in Nat /\ cursor <= c
    BY <1>1, Domains DEF WalkInv, TypeOK, CursorsDescend, Cursors, Star
  <2>2. \A c \in seen_cursors' : next_cursor <= c
    BY <1>1, <1>2, <2>1
  <2> QED BY <1>1, <2>2 DEF CursorsDescend
<1>6. CheckpointBacked'
  BY <1>1, BackedStays DEF WalkInv
<1>7. PageCovered' /\ LoopEnd'
  BY <1>1 DEF PageCovered, LoopEnd
<1>8. (known <= posted /\ saved.known <= posted)'
  BY <1>1 DEF WalkInv
<1> QED BY <1>4, <1>5, <1>6, <1>7, <1>8 DEF WalkInv

\* Writing out one tag's buffer.
LEMMA FlushInv ==
  ASSUME WalkInv, TypeOK', NEW t \in Tags, Flush(t)
  PROVE  WalkInv'
<1>1. Kept \subseteq Kept'
  BY FlushKept DEF WalkInv
<1>2. /\ pc \in {"flush", "drain"} /\ archive \subseteq archive'
      /\ UNCHANGED <<posted, checkpoint, saved, pc, pending, next_cursor, cursor,
                     seen_cursors, pages_read, exit, known, config>>
  BY DEF Flush, page, walk
<1>3. Due(cursor)' = Due(cursor) /\ DueAtEnd' = DueAtEnd
  BY <1>2 DEF Due, Owed, InWindow, DueAtEnd, Served, Ahead, Posted
<1>4. NothingSkipped'
  BY <1>1, <1>2, <1>3 DEF NothingSkipped, WalkInv
<1>5. LoopEnd'
  BY <1>1, <1>2, <1>3 DEF LoopEnd, WalkInv
<1>6. CheckpointBacked'
  BY <1>2, BackedStays DEF WalkInv
<1>7. PageCovered'
  BY <1>2 DEF PageCovered
<1>8. CursorsDescend' /\ (known <= posted /\ saved.known <= posted)'
  BY <1>2 DEF CursorsDescend, WalkInv
<1> QED BY <1>4, <1>5, <1>6, <1>7, <1>8 DEF WalkInv

\* Storing the cursor: by then everything behind it has been written.
LEMMA SaveInv ==
  ASSUME WalkInv, TypeOK', Save
  PROVE  WalkInv'
<1>1. /\ pc = "flush" /\ pc' = "fetch"
      /\ checkpoint' = [window |-> config.window, cursor |-> cursor]
      /\ saved' = [stream |-> config.stream, known |-> known]
      /\ UNCHANGED <<posted, archive, pending, next_cursor, cursor,
                     seen_cursors, exit, known, config, buffers>>
  BY DEF Save, page, walk
<1>2. Due(cursor) \subseteq archive
  BY <1>1, DrainedKept DEF Save, WalkInv, NothingSkipped
<1>3. CheckpointBacked'
  BY <1>1, <1>2 DEF CheckpointBacked, Due, Owed, InWindow
<1>4. Kept' = Kept /\ Due(cursor)' = Due(cursor)
  BY <1>1 DEF Kept, Buffered, Due, Owed, InWindow
<1>5. NothingSkipped'
  BY <1>1, <1>4 DEF NothingSkipped, WalkInv
<1>6. PageCovered' /\ LoopEnd'
  BY <1>1 DEF PageCovered, LoopEnd
<1>7. CursorsDescend' /\ (known <= posted /\ saved.known <= posted)'
  BY <1>1 DEF CursorsDescend, WalkInv
<1> QED BY <1>3, <1>5, <1>6, <1>7 DEF WalkInv

\* The steps that touch neither GCS nor the buffers, and leave the loop where
\* it is or end it at the page cap.
LEMMA QuietInv ==
  ASSUME WalkInv, TypeOK', Post \/ SaveFails \/ HitPageCap \/ UNCHANGED vars
  PROVE  WalkInv'
<1>1. UNCHANGED <<archive, checkpoint, saved, pending, next_cursor, cursor,
                  seen_cursors, pages_read, known, config, buffers>>
  BY DEF Post, SaveFails, HitPageCap, vars, durable, page, walk
<1>2. \/ UNCHANGED <<pc, exit>>
      \/ pc = "flush" /\ pc' = "fetch"
      \/ pc = "fetch" /\ pc' = "drain" /\ exit' = "page_cap" /\ pages_read = MaxPages
  BY DEF Post, SaveFails, HitPageCap, vars, durable, page, walk
<1>3. (known <= posted /\ saved.known <= posted)' /\ posted <= posted'
  <2>1. posted' \in {posted, posted + 1}
    BY DEF Post, SaveFails, HitPageCap, vars, durable, page, walk
  <2>2. {known, saved.known, posted} \subseteq Nat
    BY Domains DEF WalkInv, TypeOK, SavedPasses
  <2> QED BY <1>1, <2>1, <2>2 DEF WalkInv
<1>4. /\ Kept' = Kept /\ Due(cursor)' = Due(cursor) /\ Due(1)' = Due(1)
      /\ Due(next_cursor)' = Due(next_cursor)
      /\ \A q : Due(Rank[config.stream][q])' = Due(Rank[config.stream][q])
  BY <1>1 DEF Kept, Buffered, Due, Owed, InWindow
<1>10. Due(1) \cap Served(config.stream)' \subseteq Served(config.stream)
  <2>1. config.stream \in Streams /\ known \in 0 .. posted /\ posted \in Nat
    BY Domains DEF WalkInv, TypeOK
  <2>2. Due(1) \subseteq Posted
    BY <2>1, Domains DEF Due, Owed, Posted, Reviews
  <2> QED BY <1>1, <1>3, <2>1, <2>2, ServedShrinks DEF WalkInv
<1>5. NothingSkipped'
  BY <1>1, <1>2, <1>4 DEF NothingSkipped, WalkInv
<1>6. PageCovered'
  BY <1>1, <1>2, <1>4, <1>10 DEF PageCovered, WalkInv
<1>7. LoopEnd'
  <2>1. CASE UNCHANGED <<pc, exit>>
    <3>1. DueAtEnd' \subseteq DueAtEnd
      BY <1>1, <1>4, <1>10, <2>1 DEF DueAtEnd
    <3> QED BY <1>1, <1>4, <2>1, <3>1 DEF LoopEnd, WalkInv
  <2>2. CASE pc' = "fetch"
    BY <2>2 DEF LoopEnd
  <2>3. CASE pc = "fetch" /\ exit' = "page_cap" /\ pages_read = MaxPages
    <3>1. Due(cursor) \subseteq Kept
      BY <2>3 DEF WalkInv, NothingSkipped
    <3>2. DueAtEnd' \subseteq Due(cursor)
      BY <1>1, <1>4, <2>3 DEF DueAtEnd, Due, Owed
    <3> QED BY <1>1, <1>4, <2>3, <3>1, <3>2 DEF LoopEnd
  <2> QED BY <1>2, <2>1, <2>2, <2>3
<1>8. CheckpointBacked'
  BY <1>1, BackedStays DEF WalkInv
<1>9. CursorsDescend'
  BY <1>1, <1>2 DEF CursorsDescend, WalkInv
<1> QED BY <1>3, <1>5, <1>6, <1>7, <1>8, <1>9 DEF WalkInv

-----------------------------------------------------------------------------
LEMMA NextInv ==
  ASSUME OneStream, WalkInv, TypeOK', [Next]_vars
  PROVE  WalkInv'
<1>1. ASSUME NEW w \in Windows, NEW s \in Streams, ResumeWalk(w, s) PROVE WalkInv'
  <2>1. checkpoint \in [window : Windows, cursor : Cursors] /\ checkpoint.window = w
    BY <1>1 DEF ResumeWalk, Resumable, WalkInv, TypeOK
  <2>2. saved.stream = s
    BY OneStream DEF OneStream, WalkInv, TypeOK, SavedPasses
  <2>3. saved.known \in 0 .. posted
    BY Domains DEF WalkInv, TypeOK, SavedPasses
  <2>4. Owed(s, saved.known, w, checkpoint.cursor) \subseteq archive
    BY <1>1, <2>1, <2>2 DEF WalkInv, CheckpointBacked, ResumeWalk, Resumable
  <2> QED BY <1>1, <2>1, <2>3, <2>4, StartInv DEF ResumeWalk
<1>2. ASSUME NEW w \in Windows, NEW s \in Streams, NEW resume,
             StartAt(w, s, resume, Star, posted)
      PROVE  WalkInv'
  <2>1. posted \in 0 .. posted
    BY DEF WalkInv, TypeOK
  <2>2. Owed(s, posted, w, Star) \subseteq archive
    BY OwedAtStar
  <2> QED BY <1>2, <2>1, <2>2, Domains, StartInv
<1>3. CASE Start
  BY <1>1, <1>2, <1>3 DEF Start, StartUnreadable, StartWalk
<1>4. CASE Run
  <2>1. CASE Scan
    BY <2>1, KeepInv, SkipInv, ReachWindowStartInv DEF Scan
  <2>2. CASE \E t \in Tags : Flush(t)
    BY <2>2, FlushInv
  <2>3. CASE EndRun \/ EndRunClearFails
    BY <2>3, NoRunInv DEF EndRun, EndRunClearFails
  <2>4. CASE SaveFails \/ HitPageCap
    BY <2>4, QuietInv
  <2>5. CASE FetchEmpty \/ FetchPage \/ StopOnStuckCursor \/ Advance \/ Save
    BY <2>5, FetchEmptyInv, FetchPageInv, StopOnStuckCursorInv, AdvanceInv, SaveInv
  <2> QED BY <1>4, <2>1, <2>2, <2>3, <2>4, <2>5 DEF Run
<1>5. CASE Crash
  BY <1>5, NoRunInv DEF Crash
<1>6. CASE Post \/ UNCHANGED vars
  BY <1>6, QuietInv
<1> QED BY <1>3, <1>4, <1>5, <1>6 DEF Next

\* The walk's inductive invariant: at every point of the page loop, through
\* crashes, failed uploads and resumed runs, each in-window review that the
\* cursor has passed is archived or still held by the run.
THEOREM WalkInvariant ==
  ASSUME OneStream
  PROVE  Spec => []WalkInv
<1>1. Init => WalkInv
  <2> SUFFICES ASSUME Init PROVE WalkInv
    OBVIOUS
  <2>1. TypeOK
    BY Domains DEF Init, TypeOK, Empty, SavedPasses
  <2>2. CheckpointBacked /\ NothingSkipped /\ PageCovered /\ LoopEnd /\ CursorsDescend
    BY DEF Init, CheckpointBacked, NothingSkipped, PageCovered, LoopEnd, CursorsDescend
  <2>3. known <= posted /\ saved.known <= posted
    BY DEF Init
  <2> QED BY <2>1, <2>2, <2>3 DEF WalkInv
<1>2. WalkInv /\ TypeOK' /\ [Next]_vars => WalkInv'
  BY OneStream, NextInv
<1> QED BY <1>1, <1>2, TypeCorrect, PTL DEF Spec

\* A stored cursor stands for records already in GCS, for every feed, window
\* and schedule of failures: what a resumed run will not fetch again is
\* archived (Checkpoint, main.py:515-619, and its use in collect).
THEOREM CheckpointSafe ==
  ASSUME OneStream
  PROVE  Spec => []CheckpointBacked
<1>1. WalkInv => CheckpointBacked
  BY DEF WalkInv
<1> QED BY <1>1, WalkInvariant, OneStream, PTL

\* When a walk is over the archive holds what it owes then, over however many
\* interrupted runs: the whole window if it met the window's start, what Steam
\* still serves if the pages ran out, what the cursor passed if the page cap
\* cut it (collect, main.py:779-799). Whatever Steam's caps on its streams are.
THEOREM EndedWalkSafe ==
  ASSUME OneStream
  PROVE  Spec => []EndedWalkComplete
<1>1. WalkInv => EndedWalkComplete
  BY DrainedKept DEF WalkInv, LoopEnd, EndedWalkComplete
<1> QED BY <1>1, WalkInvariant, OneStream, PTL

\* A checkpoint is deleted only when nothing is left to resume that the walk owes
\* and Steam still serves (clear(), main.py:794-799).
THEOREM ClearSafe ==
  ASSUME OneStream
  PROVE  Spec => ClearedOnlyWhenComplete
<1> DEFINE Cleared == checkpoint # NoCheckpoint /\ checkpoint' = NoCheckpoint
<1>1. ASSUME WalkInv, [Next]_vars, Cleared
      PROVE  Due(1) \cap Served(config.stream) \subseteq archive'
  <2>1. checkpoint' # checkpoint
    BY <1>1
  <2>2. Save => checkpoint' # NoCheckpoint
    BY SteamAssumption, <1>1 DEF Save, WalkInv, TypeOK
  <2>3. EndRun /\ ClearsCheckpoint
    BY <1>1, <2>1, <2>2 DEF Next, Post, Start, ResumeWalk, StartUnreadable, StartWalk,
         StartAt, Run, FetchEmpty, FetchPage, HitPageCap, Scan, Keep, Skip,
         ReachWindowStart, StopOnStuckCursor, Advance, Flush, SaveFails, EndRun,
         EndRunClearFails, Crash, vars, durable, page, walk
  <2>4. exit \in {"window_start", "empty_page", "stuck_cursor"}
    <3>1. exit # "page_cap"
      BY <1>1, <2>3, Domains DEF EndRun, ClearsCheckpoint, WalkInv, LoopEnd, TypeOK
    <3> QED BY <1>1, <2>3, <3>1 DEF EndRun, WalkInv, LoopEnd, TypeOK
  <2>5. Due(1) \cap Served(config.stream) \subseteq DueAtEnd
    BY <2>4 DEF DueAtEnd
  <2>6. DueAtEnd \subseteq archive /\ archive' = archive
    BY <1>1, <2>3, DrainedKept DEF EndRun, WalkInv, LoopEnd
  <2> QED BY <2>5, <2>6
<1>2. WalkInv /\ [Next]_vars
        => [Cleared => Due(1) \cap Served(config.stream) \subseteq archive']_vars
  BY <1>1
<1> QED BY <1>2, WalkInvariant, OneStream, PTL DEF Spec, ClearedOnlyWhenComplete
=============================================================================
