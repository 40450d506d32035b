------------------------ MODULE ReplayPublisher_proofs ------------------------
(* Proofs about ReplayPublisher, for every set of rows, every filter, every  *)
(* number of attempts and of runs: what a run has put on the topic is an     *)
(* ordered prefix of its rows with a bounded number of copies of each, and   *)
(* the replay implements PublishJob.                                         *)
EXTENDS ReplayPublisher, FiniteSetTheorems, TLAPS

\* The inductive invariant: the loop's rows not yet published lie at or beyond
\* everything on the topic, and all others of the run are there.
ReplayInv ==
  /\ TypeOK
  /\ ChronologicalTopic
  /\ OnTopic \subseteq selected
  /\ selected \ todo \subseteq OnTopic
  /\ \A r \in OnTopic, q \in todo : r <= q
  /\ job = "succeeded" => todo = {}

-----------------------------------------------------------------------------
\* What Append does to the set of messages and to their order.
LEMMA AppendToTopic ==
  ASSUME topic \in Seq(Rows), NEW r \in Rows, topic' = Append(topic, r)
  PROVE  /\ topic' \in Seq(Rows)
         /\ OnTopic' = OnTopic \cup {r}
         /\ ChronologicalTopic /\ (\A q \in OnTopic : q <= r)
              => ChronologicalTopic'
<1>1. topic' \in Seq(Rows)
  OBVIOUS
<1>2. /\ DOMAIN topic = 1 .. Len(topic) /\ Len(topic) \in Nat
      /\ DOMAIN topic' = 1 .. Len(topic) + 1
      /\ \A i \in 1 .. Len(topic) : topic'[i] = topic[i]
      /\ topic'[Len(topic) + 1] = r
  OBVIOUS
<1>3. OnTopic' = OnTopic \cup {r}
  BY <1>2 DEF OnTopic
<1>4. ASSUME ChronologicalTopic, \A q \in OnTopic : q <= r
      PROVE  ChronologicalTopic'
  <2> SUFFICES ASSUME NEW i \in DOMAIN topic', NEW j \in DOMAIN topic', i <= j
               PROVE  topic'[i] <= topic'[j]
    BY DEF ChronologicalTopic
  <2>1. CASE j \in DOMAIN topic
    <3>1. i \in DOMAIN topic
      BY <1>2, <2>1
    <3> QED BY <1>2, <1>4, <2>1, <3>1 DEF ChronologicalTopic
  <2>2. CASE j = Len(topic) + 1 /\ i \in DOMAIN topic
    <3>1. topic[i] \in OnTopic
      BY <2>2 DEF OnTopic
    <3> QED BY <1>2, <1>4, <2>2, <3>1
  <2>3. CASE j = Len(topic) + 1 /\ i = j
    <3>1. r <= r
      BY ReplayAssumption
    <3> QED BY <1>2, <2>3, <3>1
  <2> QED BY <1>2, <2>1, <2>2, <2>3
<1> QED BY <1>1, <1>3, <1>4

\* The invariant holds again when r, the row the loop is at, is appended.
LEMMA AppendStep ==
  ASSUME ReplayInv, NEW r \in Rows, AtRow(r), topic' = Append(topic, r),
         UNCHANGED selected, todo' \in {todo, todo \ {r}}
  PROVE  /\ topic' \in Seq(Rows) /\ ChronologicalTopic'
         /\ OnTopic' = OnTopic \cup {r}
         /\ OnTopic' \subseteq selected'
         /\ selected' \ todo' \subseteq OnTopic'
         /\ \A t \in OnTopic', q \in todo' : t <= q
<1>1. r \in todo /\ r \in selected /\ \A q \in todo : r <= q
  BY DEF AtRow, ReplayInv, TypeOK
<1>2. \A q \in OnTopic : q <= r
  BY <1>1 DEF ReplayInv
<1>3. topic' \in Seq(Rows) /\ OnTopic' = OnTopic \cup {r} /\ ChronologicalTopic'
  BY <1>2, AppendToTopic DEF ReplayInv, TypeOK
<1>4. OnTopic' \subseteq selected'
  BY <1>1, <1>3 DEF ReplayInv
<1>5. selected' \ todo' \subseteq OnTopic'
  BY <1>3 DEF ReplayInv
<1>6. \A t \in OnTopic', q \in todo' : t <= q
  BY <1>1, <1>3 DEF ReplayInv
<1> QED BY <1>3, <1>4, <1>5, <1>6

LEMMA ReplayInvInit == Init => ReplayInv
BY ReplayAssumption DEF Init, ReplayInv, TypeOK, ChronologicalTopic, OnTopic

LEMMA ReplayInvStep == ReplayInv /\ [Next]_vars => ReplayInv'
<1> SUFFICES ASSUME ReplayInv, [Next]_vars PROVE ReplayInv'
  OBVIOUS
<1>1. ASSUME NEW rows \in Selections, Execute(rows) PROVE ReplayInv'
  <2>1. rows \subseteq Rows /\ 1 \in 1 .. MaxAttempts /\ runs' \in 0 .. MaxRuns
    BY <1>1, ReplayAssumption DEF Execute, ReplayInv, TypeOK
  <2>2. topic' = <<>> /\ DOMAIN topic' = {} /\ OnTopic' = {} /\ topic' \in Seq(Rows)
    BY <1>1 DEF Execute, OnTopic
  <2> QED BY <1>1, <2>1, <2>2 DEF Execute, ReplayInv, TypeOK, ChronologicalTopic
<1>2. ASSUME NEW r \in Rows, PublishAnswered(r) PROVE ReplayInv'
  <2>1. 1 \in 1 .. MaxAttempts
    BY ReplayAssumption
  <2> QED BY <1>2, <2>1, AppendStep DEF PublishAnswered, AtRow, ReplayInv, TypeOK
<1>3. ASSUME NEW r \in Rows, PublishRaises(r) PROVE ReplayInv'
  <2>1. attempt' \in 1 .. MaxAttempts /\ job' \in {"publishing", "failed"}
    BY <1>3, ReplayAssumption DEF PublishRaises, AtRow, ReplayInv, TypeOK
  <2>2. CASE topic' = topic
    <3>1. OnTopic' = OnTopic /\ (ChronologicalTopic => ChronologicalTopic')
      BY <2>2 DEF OnTopic, ChronologicalTopic
    <3> QED BY <1>3, <2>1, <2>2, <3>1 DEF PublishRaises, ReplayInv, TypeOK
  <2>3. CASE topic' = Append(topic, r)
    <3>1. AtRow(r) /\ UNCHANGED <<selected, todo, runs>>
      BY <1>3 DEF PublishRaises
    <3> QED BY <2>1, <2>3, <3>1, AppendStep DEF ReplayInv, TypeOK
  <2> QED BY <1>3, <2>2, <2>3 DEF PublishRaises
<1>4. ASSUME Finish \/ Killed \/ UNCHANGED vars PROVE ReplayInv'
  <2>1. OnTopic' = OnTopic /\ (ChronologicalTopic => ChronologicalTopic')
    BY <1>4 DEF Finish, Killed, vars, OnTopic, ChronologicalTopic
  <2> QED BY <1>4, <2>1 DEF Finish, Killed, vars, ReplayInv, TypeOK
<1> QED BY <1>1, <1>2, <1>3, <1>4 DEF Next, Loop

\* Every state of the replay satisfies the invariant.
THEOREM ReplayInvariant == Spec => []ReplayInv
BY ReplayInvInit, ReplayInvStep, PTL DEF Spec

\* "The global chronological order survives" (replay.py:10-11), whatever fails
\* and is retried.
THEOREM TopicInOrder == Spec => []ChronologicalTopic
<1>1. ReplayInv => ChronologicalTopic
  BY DEF ReplayInv
<1> QED BY <1>1, ReplayInvariant, PTL

LEMMA InvImpliesNoGap == ReplayInv => NoGap
<1> SUFFICES ASSUME ReplayInv PROVE NoGap
  OBVIOUS
<1>1. ASSUME NEW r \in OnTopic, NEW q \in selected, q <= r PROVE q \in OnTopic
  <2>1. CASE q \notin todo
    BY <2>1 DEF ReplayInv
  <2>2. CASE q \in todo
    <3>1. r <= q
      BY <2>2 DEF ReplayInv
    <3>2. q \in Nat /\ r \in Nat
      BY ReplayAssumption DEF ReplayInv, TypeOK
    <3> QED BY <1>1, <3>1, <3>2
  <2> QED BY <2>1, <2>2
<1>2. job = "succeeded" => OnTopic = selected
  BY DEF ReplayInv
<1> QED BY <1>1, <1>2 DEF NoGap, ReplayInv

\* A run leaves no gap: its messages are a prefix of its rows, and all of them
\* when it succeeds.
THEOREM TopicWithoutGap == Spec => []NoGap
BY ReplayInvariant, InvImpliesNoGap, PTL

-----------------------------------------------------------------------------
(* Copies *)

\* Each copy has had its attempt: of the rows to come only the one at hand may
\* be on the topic, fewer times than the attempt it is at.
CopiesInv ==
  /\ BoundedCopies
  /\ job = "publishing" =>
       \A r \in todo : /\ Copies(r) < attempt
                       /\ Copies(r) > 0 => \A q \in todo : r <= q

\* A topic holds finitely many copies of a row.
LEMMA CopiesType ==
  ASSUME topic \in Seq(Rows), NEW r
  PROVE  Copies(r) \in Nat /\ IsFiniteSet({i \in DOMAIN topic : topic[i] = r})
<1>1. IsFiniteSet(DOMAIN topic)
  <2>1. DOMAIN topic = 1 .. Len(topic) /\ Len(topic) \in Nat
    OBVIOUS
  <2> QED BY <2>1, FS_Interval
<1>2. {i \in DOMAIN topic : topic[i] = r} \in SUBSET DOMAIN topic
  OBVIOUS
<1>3. IsFiniteSet({i \in DOMAIN topic : topic[i] = r})
  BY <1>1, <1>2, FS_Subset
<1> QED BY <1>3, FS_CardinalityType DEF Copies

\* Append makes one copy more of its row and none of another.
LEMMA AppendCopies ==
  ASSUME topic \in Seq(Rows), NEW r \in Rows, topic' = Append(topic, r)
  PROVE  /\ Copies(r)' = Copies(r) + 1
         /\ \A q : q # r => Copies(q)' = Copies(q)
<1>1. /\ DOMAIN topic = 1 .. Len(topic) /\ Len(topic) \in Nat
      /\ DOMAIN topic' = 1 .. Len(topic) + 1
      /\ \A i \in 1 .. Len(topic) : topic'[i] = topic[i]
      /\ topic'[Len(topic) + 1] = r
  OBVIOUS
<1>2. Copies(r)' = Copies(r) + 1
  <2> DEFINE indices == {i \in DOMAIN topic : topic[i] = r}
  <2>1. {i \in DOMAIN topic' : topic'[i] = r} = indices \cup {Len(topic) + 1}
    BY <1>1
  <2>2. Len(topic) + 1 \notin indices
    BY <1>1
  <2>3. IsFiniteSet(indices)
    BY CopiesType
  <2>4. Cardinality(indices \cup {Len(topic) + 1}) = Cardinality(indices) + 1
    BY <2>2, <2>3, FS_AddElement
  <2> QED BY <2>1, <2>4 DEF Copies
<1>3. ASSUME NEW q, q # r PROVE Copies(q)' = Copies(q)
  <2>1. {i \in DOMAIN topic' : topic'[i] = q} = {i \in DOMAIN topic : topic[i] = q}
    BY <1>1, <1>3
  <2> QED BY <2>1 DEF Copies
<1> QED BY <1>2, <1>3

\* At row r no other row to come is on the topic, and a further copy of r is
\* within the attempts.
LEMMA CopiesAtRow ==
  ASSUME ReplayInv, CopiesInv, NEW r \in Rows, AtRow(r)
  PROVE  /\ Copies(r) + 1 <= attempt /\ Copies(r) + 1 <= MaxAttempts
         /\ \A q \in todo : q # r => Copies(q) = 0
         /\ attempt \in Nat /\ MaxAttempts \in Nat /\ attempt <= MaxAttempts
<1>1. r \in todo /\ job = "publishing" /\ \A q \in todo : r <= q
  BY DEF AtRow
<1>2. attempt \in Nat /\ MaxAttempts \in Nat /\ attempt <= MaxAttempts
  BY ReplayAssumption DEF ReplayInv, TypeOK
<1>3. \A q : Copies(q) \in Nat
  BY CopiesType DEF ReplayInv, TypeOK
<1>4. \A q \in todo : /\ Copies(q) < attempt
                      /\ Copies(q) > 0 => \A t \in todo : q <= t
  BY <1>1 DEF CopiesInv
<1>5. Copies(r) < attempt
  BY <1>1, <1>4, Zenon
<1>6. Copies(r) + 1 <= attempt /\ Copies(r) + 1 <= MaxAttempts
  BY <1>2, <1>3, <1>5
<1>7. ASSUME NEW q \in todo, q # r PROVE Copies(q) = 0
  <2>1. q \in Nat /\ r \in Nat /\ r <= q
    BY <1>1, ReplayAssumption DEF ReplayInv, TypeOK
  <2>2. Copies(q) > 0 => q <= r
    BY <1>1, <1>4, <1>7, Zenon
  <2> QED BY <1>3, <1>7, <2>1, <2>2
<1> QED BY <1>2, <1>6, <1>7

LEMMA CopiesInvStep == ReplayInv /\ CopiesInv /\ [Next]_vars => CopiesInv'
<1> SUFFICES ASSUME ReplayInv, CopiesInv, [Next]_vars PROVE CopiesInv'
  OBVIOUS
<1>1. topic \in Seq(Rows) /\ MaxAttempts \in Nat \ {0} /\ \A r : Copies(r) \in Nat
  BY CopiesType, ReplayAssumption DEF ReplayInv, TypeOK
<1>2. ASSUME NEW rows \in Selections, Execute(rows) PROVE CopiesInv'
  <2>1. ASSUME NEW r PROVE Copies(r)' = 0
    <3>1. {i \in DOMAIN topic' : topic'[i] = r} = {}
      BY <1>2 DEF Execute
    <3> QED BY <3>1, FS_EmptySet DEF Copies
  <2>2. attempt' = 1
    BY <1>2 DEF Execute
  <2> QED BY <1>1, <2>1, <2>2 DEF CopiesInv, BoundedCopies
<1>3. ASSUME NEW r \in Rows, PublishAnswered(r) PROVE CopiesInv'
  <2>1. /\ AtRow(r) /\ topic' = Append(topic, r) /\ todo' = todo \ {r} /\ attempt' = 1
        /\ UNCHANGED job
    BY <1>3 DEF PublishAnswered
  <2>2. Copies(r)' = Copies(r) + 1 /\ \A q : q # r => Copies(q)' = Copies(q)
    BY <1>1, <2>1, AppendCopies
  <2>3. BoundedCopies'
    BY <1>1, <2>1, <2>2, CopiesAtRow DEF CopiesInv, BoundedCopies
  <2>4. \A q \in todo' : Copies(q)' = 0
    BY <2>1, <2>2, CopiesAtRow
  <2> QED BY <2>1, <2>3, <2>4 DEF CopiesInv
<1>4. ASSUME NEW r \in Rows, PublishRaises(r) PROVE CopiesInv'
  <2>1. /\ AtRow(r) /\ UNCHANGED todo /\ r \in todo /\ \A q \in todo : r <= q
        /\ job' # "publishing" \/ attempt' = attempt + 1
    BY <1>4 DEF PublishRaises, AtRow
  <2>2. CASE topic' = topic
    <3>1. \A q : Copies(q)' = Copies(q)
      BY <2>2 DEF Copies
    <3>2. ASSUME NEW q \in todo PROVE Copies(q) < attempt + 1
      BY <1>1, <2>1, CopiesAtRow
    <3> QED BY <2>1, <3>1, <3>2, CopiesAtRow DEF CopiesInv, BoundedCopies
  <2>3. CASE topic' = Append(topic, r)
    <3>1. Copies(r)' = Copies(r) + 1 /\ \A q : q # r => Copies(q)' = Copies(q)
      BY <1>1, <2>3, AppendCopies
    <3>2. BoundedCopies'
      BY <1>1, <2>1, <3>1, CopiesAtRow DEF CopiesInv, BoundedCopies
    <3>3. ASSUME NEW q \in todo, attempt' = attempt + 1
          PROVE  Copies(q)' < attempt' /\ (Copies(q)' > 0 => q = r)
      BY <1>1, <2>1, <3>1, <3>3, CopiesAtRow
    <3> QED BY <2>1, <3>2, <3>3 DEF CopiesInv
  <2> QED BY <1>4, <2>2, <2>3 DEF PublishRaises
<1>5. ASSUME Finish \/ Killed \/ UNCHANGED vars PROVE CopiesInv'
  <2>1. \A r : Copies(r)' = Copies(r)
    BY <1>5 DEF Finish, Killed, vars, Copies
  <2> QED BY <1>5, <2>1 DEF Finish, Killed, vars, CopiesInv, BoundedCopies
<1> QED BY <1>2, <1>3, <1>4, <1>5 DEF Next, Loop

\* A row is published at most MAX_PUBLISH_ATTEMPTS times per run, whichever of
\* its attempts had reached the topic before they failed.
THEOREM CopiesBounded == Spec => []BoundedCopies
<1>1. Init => CopiesInv
  <2> SUFFICES ASSUME Init PROVE CopiesInv
    OBVIOUS
  <2>1. ASSUME NEW r PROVE Copies(r) = 0
    <3>1. {i \in DOMAIN topic : topic[i] = r} = {}
      BY DEF Init
    <3> QED BY <3>1, FS_EmptySet DEF Copies
  <2> QED BY <2>1, ReplayAssumption DEF Init, CopiesInv, BoundedCopies
<1>2. CopiesInv => BoundedCopies
  BY DEF CopiesInv
<1> QED BY <1>1, <1>2, CopiesInvStep, ReplayInvariant, PTL DEF Spec

-----------------------------------------------------------------------------
(* The refinement of PublishJob *)

\* At row r, everything on the topic and r are the run's prefix up to r.
LEMMA PrefixAtRow ==
  ASSUME ReplayInv, NEW r \in Rows, AtRow(r)
  PROVE  OnTopic \cup {r} = Job!UpTo(r)
<1>1. r \in selected /\ r \in todo /\ \A q \in todo : r <= q
  BY DEF AtRow, ReplayInv, TypeOK
<1>2. r \in Nat /\ \A q \in selected : q \in Nat
  BY ReplayAssumption DEF ReplayInv, TypeOK
<1>3. ASSUME NEW q \in OnTopic \cup {r} PROVE q \in selected /\ q <= r
  BY <1>1, <1>2 DEF ReplayInv
<1>4. ASSUME NEW q \in selected, q <= r PROVE q \in OnTopic \cup {r}
  <2>1. CASE q \in todo
    BY <1>1, <1>2, <1>4, <2>1
  <2>2. CASE q \notin todo
    BY <2>2 DEF ReplayInv
  <2> QED BY <2>1, <2>2
<1> QED BY <1>3, <1>4 DEF Job!UpTo

LEMMA JobStep == ReplayInv /\ [Next]_vars => [Job!JobNext]_(Job!jobVars)
<1> SUFFICES ASSUME ReplayInv, [Next]_vars PROVE [Job!JobNext]_(Job!jobVars)
  OBVIOUS
<1>1. ASSUME NEW rows \in Selections, Execute(rows) PROVE Job!JobNext
  <2>1. OnTopic' = {}
    BY <1>1 DEF Execute, OnTopic
  <2> QED BY <1>1, <2>1 DEF Execute, Job!JobNext, Job!Start
<1>2. ASSUME NEW r \in Rows, AtRow(r), topic' = Append(topic, r),
             UNCHANGED selected, job' \in {"publishing", "failed"}
      PROVE  Job!JobNext
  <2>1. OnTopic' = OnTopic \cup {r}
    BY <1>2, AppendToTopic DEF ReplayInv, TypeOK
  <2>2. job = "publishing" /\ r \in selected
    BY <1>2 DEF AtRow, ReplayInv, TypeOK
  <2>3. Job!Send(r)
    BY <1>2, <2>1, <2>2, PrefixAtRow DEF Job!Send
  <2> QED BY <2>3 DEF Job!JobNext
<1>3. ASSUME NEW r \in Rows, PublishAnswered(r) PROVE Job!JobNext
  BY <1>2, <1>3 DEF PublishAnswered, AtRow
<1>4. ASSUME NEW r \in Rows, PublishRaises(r) PROVE [Job!JobNext]_(Job!jobVars)
  <2>1. /\ AtRow(r) /\ job = "publishing" /\ UNCHANGED selected
        /\ job' \in {"publishing", "failed"}
    BY <1>4 DEF PublishRaises, AtRow
  <2>2. CASE topic' = topic
    <3>1. OnTopic' = OnTopic
      BY <2>2 DEF OnTopic
    <3> QED BY <2>1, <3>1 DEF Job!JobNext, Job!Fail, Job!jobVars
  <2>3. CASE topic' = Append(topic, r)
    BY <1>2, <2>1, <2>3
  <2> QED BY <1>4, <2>2, <2>3 DEF PublishRaises
<1>5. ASSUME Finish PROVE Job!JobNext
  <2>1. OnTopic' = OnTopic /\ OnTopic = selected
    BY <1>5 DEF Finish, OnTopic, ReplayInv
  <2> QED BY <1>5, <2>1 DEF Finish, Job!JobNext, Job!Succeed
<1>6. ASSUME Killed PROVE Job!JobNext
  <2>1. OnTopic' = OnTopic
    BY <1>6 DEF Killed, OnTopic
  <2> QED BY <1>6, <2>1 DEF Killed, Job!JobNext, Job!Fail
<1>7. ASSUME UNCHANGED vars PROVE UNCHANGED Job!jobVars
  BY <1>7 DEF vars, Job!jobVars, OnTopic
<1> QED BY <1>1, <1>3, <1>4, <1>5, <1>6, <1>7 DEF Next, Loop

\* The replay, with its retries and its one stored-nowhere position, implements
\* the publisher job's promise, which the replay build relies on.
THEOREM Implementation == Spec => ImplementsPublishJob
<1>1. Init => Job!JobInit
  BY DEF Init, Job!JobInit, OnTopic
<1> QED BY <1>1, JobStep, ReplayInvariant, PTL
        DEF Spec, ImplementsPublishJob, Job!JobSpec

=============================================================================
