---------------------------- MODULE ReplayPublisher ----------------------------
(***************************************************************************)
(* The publisher's replay (publisher/replay.py): read the staged rows the  *)
(* filters select ORDER BY created_utc, id, and publish each under one     *)
(* ordering key, awaiting every future; a failed publish resumes the key   *)
(* and is tried again, up to MaxAttempts times, and then ends the run. No  *)
(* progress is stored: a rerun starts from the first row.                  *)
(*                                                                         *)
(* Pub/Sub is external. A failed attempt (an error, or no answer within    *)
(* the timeout) may have reached the topic or not. With one ordering key   *)
(* the client keeps one publish in flight, so the topic is a sequence.     *)
(***************************************************************************)
EXTENDS Naturals, Sequences, FiniteSets

CONSTANTS
  Rows,         \* the staged rows, numbered in (created_utc, id) order
  Selections,   \* the row sets that the runs' filters select
  MaxAttempts,  \* MAX_PUBLISH_ATTEMPTS
  MaxRuns       \* bound: how often the job is executed

ASSUME ReplayAssumption ==
  /\ Rows \subseteq Nat /\ IsFiniteSet(Rows)
  /\ Selections \subseteq SUBSET Rows
  /\ MaxAttempts \in Nat \ {0}
  /\ MaxRuns \in Nat

VARIABLES
  job,        \* "idle", "publishing", "succeeded" or "failed"
  selected,   \* the query result
  todo,       \* the rows the loop has not published yet
  attempt,    \* the attempt _publish_with_retry is at
  topic,      \* the messages this run's execution left in the topic, in order
  runs        \* executions so far

vars == <<job, selected, todo, attempt, topic, runs>>

Copies(r) == Cardinality({i \in DOMAIN topic : topic[i] = r})
OnTopic == {topic[i] : i \in DOMAIN topic}

TypeOK ==
  /\ job \in {"idle", "publishing", "succeeded", "failed"}
  /\ selected \subseteq Rows
  /\ todo \subseteq selected
  /\ attempt \in 1 .. MaxAttempts
  /\ topic \in Seq(Rows)
  /\ runs \in 0 .. MaxRuns

Init ==
  /\ job = "idle"
  /\ selected = {}
  /\ todo = {}
  /\ attempt = 1
  /\ topic = <<>>
  /\ runs = 0

\* The job is executed; what earlier runs published is not looked at.
Execute(rows) ==
  /\ job # "publishing"
  /\ runs < MaxRuns
  /\ runs' = runs + 1
  /\ job' = "publishing"
  /\ selected' = rows
  /\ todo' = rows
  /\ attempt' = 1
  /\ topic' = <<>>

\* Mutant: the query has no ORDER BY.
AtAnyRow(r) == job = "publishing" /\ r \in todo

\* r is the row the loop is at.
AtRow(r) == job = "publishing" /\ r \in todo /\ \A q \in todo : r <= q

PublishAnswered(r) ==
  /\ AtRow(r)
  /\ topic' = Append(topic, r)
  /\ todo' = todo \ {r}
  /\ attempt' = 1
  /\ UNCHANGED <<job, selected, runs>>

\* Mutants: one attempt too many; a row given up is skipped; retries without
\* an end.
RaisesOnceMore(r) ==
  /\ AtRow(r)
  /\ topic' \in {topic, Append(topic, r)}
  /\ IF attempt > MaxAttempts
       THEN job' = "failed" /\ UNCHANGED attempt
       ELSE attempt' = attempt + 1 /\ UNCHANGED job
  /\ UNCHANGED <<selected, todo, runs>>
RaisesAndSkips(r) ==
  /\ AtRow(r)
  /\ topic' \in {topic, Append(topic, r)}
  /\ IF attempt = MaxAttempts
       THEN attempt' = 1 /\ todo' = todo \ {r}
       ELSE attempt' = attempt + 1 /\ UNCHANGED todo
  /\ UNCHANGED <<job, selected, runs>>
RaisesForEver(r) ==
  /\ AtRow(r)
  /\ attempt' = (attempt % MaxAttempts) + 1
  /\ UNCHANGED <<job, selected, todo, topic, runs>>

\* future.result raised, with or without the message in the topic.
PublishRaises(r) ==
  /\ AtRow(r)
  /\ topic' \in {topic, Append(topic, r)}
  /\ IF attempt = MaxAttempts
       THEN job' = "failed" /\ UNCHANGED attempt
       ELSE attempt' = attempt + 1 /\ UNCHANGED job
  /\ UNCHANGED <<selected, todo, runs>>

Finish ==
  /\ job = "publishing"
  /\ todo = {}
  /\ job' = "succeeded"
  /\ UNCHANGED <<selected, todo, attempt, topic, runs>>

\* The task is killed; max_retries is 0, so nothing runs it again by itself.
Killed ==
  /\ job = "publishing"
  /\ job' = "failed"
  /\ UNCHANGED <<selected, todo, attempt, topic, runs>>

Loop == (\E r \in Rows : PublishAnswered(r) \/ PublishRaises(r)) \/ Finish

Next == (\E rows \in Selections : Execute(rows)) \/ Loop \/ Killed

Spec == Init /\ [][Next]_vars

\* A task that is not killed keeps going.
FairSpec == Spec /\ WF_vars(Loop)

-----------------------------------------------------------------------------
\* "The global chronological order survives" (replay.py:10-11): whatever
\* fails and is retried, a run's messages are in replay order.
ChronologicalTopic ==
  \A i, j \in DOMAIN topic : i <= j => topic[i] <= topic[j]

\* "A per-record await surfaces publish errors at the exact record that
\* failed" (replay.py:255-256): a run leaves no gap. What it has put on the
\* topic is a prefix of its rows, and when it succeeds it is all of them.
NoGap ==
  /\ selected \ todo \subseteq OnTopic
  /\ \A r \in OnTopic, q \in selected : q <= r => q \in OnTopic
  /\ job = "succeeded" => OnTopic = selected

\* A row is published at most MAX_PUBLISH_ATTEMPTS times per run.
BoundedCopies == \A r \in Rows : Copies(r) <= MaxAttempts

\* A run ends: the retries of one row are bounded.
RunEnds == job = "publishing" ~> job # "publishing"

\* The replay implements the publisher job's promise.
Job == INSTANCE PublishJob WITH sent <- OnTopic
ImplementsPublishJob == Job!JobSpec

=============================================================================
