------------------------------ MODULE ReplayBuild ------------------------------
(***************************************************************************)
(* One replay is one Cloud Build run (dataflow/replay.cloudbuild.yaml):    *)
(* launch the pipeline, execute the publisher job, wait until the records  *)
(* have landed, drain, promote. It composes the publisher job (PublishJob, *)
(* which ReplayPublisher implements), the streaming job                    *)
(* (SentimentPipeline) and the MERGE into events (FreshestMerge).          *)
(*                                                                         *)
(* The replay step runs its function as an if condition, so its set -e     *)
(* does nothing: what gcloud and bq return is not looked at, and the exit  *)
(* of a failed publisher job stops nothing. Builds are numbered, and the   *)
(* number stands for the time: run_start of build n and the processed_at   *)
(* of a row classified during it are both n.                               *)
(***************************************************************************)
EXTENDS SentimentPipeline, FreshestMerge, Integers

CONSTANTS
  Filters,        \* the replays: [rows, event, promote], rows being those that
                  \* EVENT_ID (if event) or WINDOW_FROM and WINDOW_TO select
  FirstStaged,    \* the ids in raw_staging before the first build
  MaxBuilds,      \* bound: builds started
  MaxPolls,       \* _WAIT_TIMEOUT_MINUTES
  StablePolls,    \* 3: unchanged counts that end a wait without expected count
  QueriesMayFail, \* whether bq may fail with nothing on its standard output
  Unknown         \* an empty expected or landed count

ASSUME BuildAssumption ==
  /\ Keys = Records
  /\ Records \subseteq Nat /\ IsFiniteSet(Records)
  /\ FirstStaged \subseteq Records
  /\ Filters \subseteq [rows : SUBSET Records, event : BOOLEAN, promote : BOOLEAN]
  /\ MaxBuilds \in Nat /\ MaxPolls \in Nat /\ StablePolls \in Nat \ {0}
  /\ QueriesMayFail \in BOOLEAN
  /\ Absent \notin Rows
  /\ Unknown \notin Nat

VARIABLES
  step,       \* the build step under way; "idle" between builds, "stranded" if
              \* the last build ended without its job being drained or failed
  build,      \* the number of the last build
  filter,     \* its substitutions
  staged,     \* the ids in raw_staging
  job,        \* the publisher job's state, as in PublishJob
  selected,
  sent,
  execution,  \* history: the build that executed the publisher last
  expected,   \* the count of staged ids, or Unknown
  prev,       \* the landed count of the previous poll
  stable,     \* how often it has not changed
  polls,      \* polls made by this build
  status,     \* replay_status: "ok" or "failed"
  owed,       \* history: the ids that expected counted
  events      \* the events table

publisherVars == <<job, selected, sent>>
waitVars == <<expected, prev, stable, polls, owed>>
vars == <<pipelineVars, publisherVars, waitVars, step, build, filter, staged,
          execution, status, events>>

Publisher == INSTANCE PublishJob WITH Rows <- Records, Selections <- SUBSET Records

Steps == {"idle", "start", "publish", "publishing", "count", "wait", "drain",
          "draining", "promote", "report", "stranded"}
Counts == 0 .. Cardinality(Records)

\* The ids that the filter selects from raw_staging.
Selected == staged \cap filter.rows

\* The ids of rows with processed_at >= the start of build n.
LandedSince(n) == Ids({row \in landing : row.at >= n})

TypeOK ==
  /\ PipelineTypeOK
  /\ step \in Steps
  /\ build \in 0 .. MaxBuilds
  /\ filter \in Filters
  /\ staged \subseteq Records
  /\ job \in {"idle", "publishing", "succeeded", "failed"}
  /\ selected \subseteq Records /\ sent \subseteq selected
  /\ execution \in 0 .. build
  /\ expected \in Counts \cup {Unknown}
  /\ prev \in Counts \cup {Unknown, -1}
  /\ stable \in 0 .. StablePolls - 1
  /\ polls \in 0 .. MaxPolls
  /\ status \in {"ok", "failed"}
  /\ owed \subseteq Records
  /\ events \in [Keys -> Rows \cup {Absent}]

Init ==
  /\ PipelineInit
  /\ Publisher!JobInit
  /\ step = "idle"
  /\ build = 0
  /\ filter \in Filters
  /\ staged = FirstStaged
  /\ execution = 0
  /\ expected = Unknown
  /\ prev = -1
  /\ stable = 0
  /\ polls = 0
  /\ status = "failed"
  /\ owed = {}
  /\ events = [k \in Keys |-> Absent]

-----------------------------------------------------------------------------
\* A load (StagingLoad) adds a record to raw_staging; it may come between any
\* two steps of a build.
Load(r) ==
  /\ r \notin staged
  /\ staged' = staged \cup {r}
  /\ UNCHANGED <<pipelineVars, publisherVars, waitVars, step, build, filter,
                 execution, status, events>>

\* The launch step submits a job and reads its id from the output. Without an
\* id the build ends, whether there is a job or not. One replay at a time: the
\* operator waits until the last job has ended.
Launch(f) ==
  /\ step = "idle"
  /\ jobState \in {"none", "drained", "failed"}
  /\ build < MaxBuilds
  /\ build' = build + 1
  /\ filter' = f
  /\ \/ LaunchJob /\ step' \in {"start", "stranded"}
     \/ UNCHANGED pipelineVars /\ step' = "idle"
  /\ status' = "failed"
  /\ expected' = Unknown /\ prev' = -1 /\ stable' = 0 /\ polls' = 0 /\ owed' = {}
  /\ UNCHANGED <<publisherVars, staged, execution, events>>

\* The job is seen Running, or failed, or the 20 minutes are over before.
AwaitStart ==
  /\ step = "start"
  /\ step' = IF jobState = "running" THEN "publish" ELSE "drain"
  /\ UNCHANGED <<pipelineVars, publisherVars, waitVars, build, filter, staged,
                 execution, status, events>>

Execute ==
  /\ step = "publish"
  /\ Publisher!Start(Selected)
  /\ execution' = build
  /\ step' = "publishing"
  /\ UNCHANGED <<pipelineVars, waitVars, build, filter, staged, status, events>>

\* The publisher job at work; what it sends reaches the subscription.
Publish ==
  /\ \/ \E r \in Records : Publisher!Send(r) /\ Deliver(r)
     \/ (Publisher!Succeed \/ Publisher!Fail) /\ UNCHANGED pipelineVars
  /\ UNCHANGED <<waitVars, step, build, filter, staged, execution, status, events>>

\* gcloud returns; how the job ended is not looked at.
PublisherReturns ==
  /\ step = "publishing"
  /\ job # "publishing"
  /\ step' = "count"
  /\ UNCHANGED <<pipelineVars, publisherVars, waitVars, build, filter, staged,
                 execution, status, events>>

Count ==
  /\ step = "count"
  /\ owed' = Selected
  /\ \/ ~filter.event /\ expected' = Cardinality(Selected)
     \/ filter.event /\ UNCHANGED expected
     \/ QueriesMayFail /\ UNCHANGED expected
  /\ step' = "wait"
  /\ UNCHANGED <<pipelineVars, publisherVars, prev, stable, polls, build, filter,
                 staged, execution, status, events>>

\* Mutant: the count of everything ever landed.
LandedEver == Cardinality(Ids(landing))

\* landed_sql
Landed == Cardinality(LandedSince(build))

StillThe(n) == n = prev /\ n # 0

\* Whether poll result n ends the wait.
Completes(n) ==
  IF expected # Unknown THEN n # Unknown /\ n >= expected
  ELSE StillThe(n) /\ stable + 1 >= StablePolls

PollResult(n) ==
  IF Completes(n)
    THEN step' = "drain" /\ status' = "ok" /\ UNCHANGED <<prev, stable>>
    ELSE /\ prev' = n
         /\ stable' = IF expected # Unknown THEN stable
                      ELSE IF StillThe(n) THEN stable + 1 ELSE 0
         /\ UNCHANGED <<step, status>>

Poll ==
  /\ step = "wait"
  /\ polls < MaxPolls
  /\ polls' = polls + 1
  /\ \/ PollResult(Landed)
     \/ QueriesMayFail /\ PollResult(Unknown)
  /\ UNCHANGED <<pipelineVars, publisherVars, expected, owed, build, filter, staged,
                 execution, events>>

WaitTimesOut ==
  /\ step = "wait"
  /\ polls = MaxPolls
  /\ step' = "drain"
  /\ UNCHANGED <<pipelineVars, publisherVars, waitVars, build, filter, staged,
                 execution, status, events>>

\* Mutant: a failed replay skips the drain.
DrainIfOk ==
  /\ step = "drain"
  /\ IF status = "ok" THEN RequestDrain ELSE UNCHANGED pipelineVars
  /\ step' = IF status = "ok" THEN "draining" ELSE "promote"
  /\ UNCHANGED <<publisherVars, waitVars, build, filter, staged, execution, status,
                 events>>

\* The drain step runs however the replay step ended. A job that failed needs
\* no drain.
Drain ==
  /\ step = "drain"
  /\ \/ RequestDrain
     \/ jobState = "failed" /\ UNCHANGED pipelineVars
  /\ step' = "draining"
  /\ UNCHANGED <<publisherVars, waitVars, build, filter, staged, execution, status,
                 events>>

\* The drain command fails, and with it the step and the build: the request was
\* refused, or accepted and the answer lost.
DrainFails ==
  /\ step = "drain"
  /\ \/ RequestDrain /\ step' = "idle"
     \/ /\ UNCHANGED pipelineVars
        /\ step' = IF jobState = "failed" THEN "idle" ELSE "stranded"
  /\ UNCHANGED <<publisherVars, waitVars, build, filter, staged, execution, status,
                 events>>

\* Mutant: the promotion does not wait for the drain.
AwaitNoDrain ==
  /\ step = "draining"
  /\ step' = "promote"
  /\ UNCHANGED <<pipelineVars, publisherVars, waitVars, build, filter, staged,
                 execution, status, events>>

\* The job is seen drained or failed, or the step gives up, because 30 minutes
\* are over or the state cannot be asked for, and with it the build.
AwaitDrain ==
  /\ step = "draining"
  /\ step' = IF jobState \in {"drained", "failed"} THEN "promote" ELSE "idle"
  /\ UNCHANGED <<pipelineVars, publisherVars, waitVars, build, filter, staged,
                 execution, status, events>>

\* The MERGE of promote.sql.
Promote ==
  /\ step = "promote"
  /\ status = "ok"
  /\ filter.promote
  /\ \E pick \in Picks(landing) : events' = Overlay(events, pick)
  /\ step' = "report"
  /\ UNCHANGED <<pipelineVars, publisherVars, waitVars, build, filter, staged,
                 execution, status>>

\* A failed replay is not promoted, nor is one with _PROMOTE=false; or the
\* promotion fails, and the build with it.
SkipPromotion ==
  /\ step = "promote"
  /\ step' = IF status = "ok" /\ filter.promote THEN "idle" ELSE "report"
  /\ UNCHANGED <<pipelineVars, publisherVars, waitVars, build, filter, staged,
                 execution, status, events>>

\* The report step turns a failed replay into a failed build.
Report ==
  /\ step = "report"
  /\ step' = "idle"
  /\ UNCHANGED <<pipelineVars, publisherVars, waitVars, build, filter, staged,
                 execution, status, events>>

\* An operator, whom an alert tells that a job is running for too long.
DrainByHand ==
  /\ step = "stranded"
  /\ \/ RequestDrain
     \/ jobState = "failed" /\ UNCHANGED pipelineVars
  /\ step' = "idle"
  /\ UNCHANGED <<publisherVars, waitVars, build, filter, staged, execution, status,
                 events>>

Pipeline ==
  /\ Process(build)
  /\ UNCHANGED <<publisherVars, waitVars, step, build, filter, staged, execution,
                 status, events>>

Build ==
  \/ AwaitStart \/ Execute \/ PublisherReturns
  \/ Count \/ Poll \/ WaitTimesOut
  \/ Drain \/ DrainFails \/ AwaitDrain
  \/ Promote \/ SkipPromotion \/ Report

Next ==
  \/ \E r \in Records : Load(r)
  \/ \E f \in Filters : Launch(f)
  \/ Build \/ Publish \/ Pipeline \/ DrainByHand

Spec == Init /\ [][Next]_vars

\* A build in progress goes on, and so does the pipeline; an execution of the
\* publisher comes to an end (ReplayPublisher's RunEnds).
PublisherEnds == Publish /\ job' # "publishing"
FairSpec == Spec /\ WF_vars(Build) /\ WF_vars(PublisherEnds) /\ WF_vars(Pipeline)

-----------------------------------------------------------------------------
\* Every message the last executed replay sent is somewhere: still in the
\* subscription, in flight, landed since, or dead-lettered; through failed
\* bundles, lost acknowledgements, drains and later builds.
NothingLost ==
  sent \subseteq Waiting \cup InFlight \cup LandedSince(execution) \cup dlq

\* "The drain waits for completeness, not for quiet" and "an incomplete
\* replay is never promoted" (ADR 0002): a MERGE leaves events with this
\* build's labels for every id its expected count was taken over.
PromotedComplete ==
  [][Promote /\ expected # Unknown =>
       \A r \in owed : events'[r] # Absent /\ events'[r].at >= build]_vars

\* The landed count has no window (replay.cloudbuild.yaml:216): messages that a
\* replay of another window left in the subscription count too. This is what
\* completeness is then worth: for every id that was counted and is not promoted,
\* an id that is not of this replay has landed in its place.
MissingReplaced ==
  [][Promote /\ expected # Unknown =>
       Cardinality({r \in owed : events'[r] = Absent \/ events'[r].at < build})
         <= Cardinality(LandedSince(build) \ filter.rows)]_vars

\* "The promotion cannot run too early" (dataflow/README.md:144): at the MERGE
\* nothing is in flight that would land behind it.
PromotedAfterDrain ==
  [][Promote => InFlight = {} /\ Covers(events', landing)]_vars

\* "An undrained streaming job bills until someone notices" (ADR 0002): a
\* running job is drained, whatever fails in the replay, unless the build could
\* not read its id or its drain command failed, in which case it is stranded.
JobDrained == jobState = "running" ~> jobState = "drained" \/ step = "stranded"

=============================================================================
