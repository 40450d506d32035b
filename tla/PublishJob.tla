------------------------------ MODULE PublishJob ------------------------------
(* What a run of the publisher job promises its callers: it hands the rows   *)
(* it selected to the events topic, each at least once and none before every *)
(* earlier one; it succeeds only when all are there, and it may fail at any  *)
(* moment. Rows are numbered in replay order.                                *)
EXTENDS Naturals

CONSTANTS
  Rows,        \* the staged rows, numbered in replay order
  Selections   \* the row sets that the runs' filters select

VARIABLES
  job,         \* "idle", "publishing", "succeeded" or "failed"
  selected,    \* the rows this run replays
  sent         \* those handed to the topic by this run

jobVars == <<job, selected, sent>>

\* The rows of the run's prefix that r closes.
UpTo(r) == {q \in selected : q <= r}

JobInit == job = "idle" /\ selected = {} /\ sent = {}

Start(rows) ==
  /\ job # "publishing"
  /\ job' = "publishing"
  /\ selected' = rows
  /\ sent' = {}

\* The next row reaches the topic, perhaps not for the first time.
Send(r) ==
  /\ job = "publishing"
  /\ r \in selected
  /\ sent \cup {r} = UpTo(r)
  /\ sent' = sent \cup {r}
  /\ job' \in {"publishing", "failed"}
  /\ UNCHANGED selected

Succeed ==
  /\ job = "publishing"
  /\ sent = selected
  /\ job' = "succeeded"
  /\ UNCHANGED <<selected, sent>>

Fail ==
  /\ job = "publishing"
  /\ job' = "failed"
  /\ UNCHANGED <<selected, sent>>

JobNext ==
  \/ \E rows \in Selections : Start(rows)
  \/ \E r \in Rows : Send(r)
  \/ Succeed \/ Fail

JobSpec == JobInit /\ [][JobNext]_jobVars

=============================================================================
