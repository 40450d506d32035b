# Formal models of pop-vibe-check

TLA+ models of the data path of pop-vibe-check: collectors write raw reviews
to Cloud Storage, a load step deduplicates them into `raw_staging`, a publisher
replays them to Pub/Sub in order, a streaming job classifies them into
`events_landing`, and a Cloud Build run holds the whole replay together and
promotes the result into `events`. Beside the data path stand the tools behind
its classifier: the gold set that people and an LLM label, the training corpus,
and the migration of training runs. Paths below are relative to the repository.

The code is Python, shell and SQL over managed services. Little of it is
concurrent inside one process; what is hard is between processes and steps:
who has stored what when something dies, what a retry or a re-run repeats, in
which order two tables are written, when a count means "complete", and whether
commands typed by hand over the same files may follow each other in any order.

## 1. Inventory

| Component (source) | State | Operations | Talks to | What makes it correct |
|---|---|---|---|---|
| Steam collector (`collectors/steam/main.py`) | archive objects and a checkpoint object in GCS; cursor, page, per-tag buffers in the process | start or resume, fetch page, keep/skip a review, flush, save, clear | appreviews endpoint, GCS | no in-window review lost behind a resumed cursor; the checkpoint goes away only when nothing is left to resume; repeated runs archive what Steam serves of the window |
| YouTube, Reddit collectors (`collectors/youtube`, `collectors/reddit`) | a buffer; nothing stored | one pass: ask, filter by window, buffer, flush; retries | their APIs, GCS | a pass that ends has archived all its API exposes of the window; a repeated pass does no harm |
| Collector helpers (`collectors/common`) | none | `write_batch`, records, hashing, event tagging | GCS | objects are never overwritten; a date has one tag |
| Publisher load (`publisher/load.py`) | `raw_landing`, `raw_staging` | truncate-load, MERGE | GCS, BigQuery | staging never regresses; a load covers the archive; a rerun is a no-op |
| Replay publisher (`publisher/replay.py`, `main.py`) | the query's rows, the attempt; nothing stored | publish, retry, finish, give up | BigQuery, Pub/Sub | the topic is in order, without a gap, with bounded copies; the run ends |
| Publisher configuration (`publisher/config.py`) | none | parse the environment | | filters mean what they say |
| Streaming pipeline (`dataflow/pipeline.py`) | bundles in flight, `events_landing`, dead-letter topic | pull, divert, classify, insert, dead-letter, drain | Pub/Sub, Vertex, BigQuery | every record accounted for; a drain leaves nothing in flight |
| Pipeline transforms (`dataflow/transforms.py`) | the language profiles, a lock | parse, validate, detect language | | cold workers do not use half-loaded profiles |
| Replay build (`dataflow/replay.cloudbuild.yaml`) | files in the build workspace: job id, start, status | launch, await start, publish, count, poll, drain, promote, report | all of the above | an incomplete replay is not promoted; the job is drained whatever fails in the replay |
| Promotion (`dataflow/promote.sql`, `promote.sh`) | `events` | MERGE | BigQuery | `events` only moves forward and covers what was drained |
| Coverage and fingerprint queries (`dataflow/*.sql`) | none | report | BigQuery | advisory |
| Vertex classifier (`nlp/endpoint`) | model version | predict with retries and truncation | Vertex | complete, ordered answers; both ladders end |
| MLflow migration (`nlp/tracking`) | experiments and runs on the server, a token and its timer | copy a run in batches, mark it, roll back, re-run; refresh the token | MLflow behind IAP, GCS | a marked run is whole, and marked once; partial copies have a cause; re-running finishes |
| Gold set tooling (`nlp/eval/merge_gold.py`, `prelabel_chunks.py`) | chunk files, the review file, two gold files | split, prelabel, merge, select, review, merge into gold | an LLM, a reviewer | the seats add up and agree between the two allocations; held-out rows were read by a human |
| Evaluation (`nlp/eval/predict.py`, `tune_threshold.py`) | the prediction file | predict, join, tune | gold files | nothing is tuned on holdout |
| Training (`nlp/training`) | the corpus in memory | load, sample, oversample, assemble, split | public data sets, gold files | samples keep proportions; classes on both sides; held-out rows stay out |
| Endpoint registration, registry (`nlp/endpoint/register.py`, `nlp/registry.py`) | artefacts | register | Vertex | operator commands |
| Reporting views, infrastructure, CI (`dataflow/views`, `terraform`, `*.yaml`) | | | | configuration |

`PROJECT.json` lists each of them with its status, and every hazard met while
reading, at its line.

Interaction, in the order data flows:

    Steam API       -> SteamWalk        -> GCS archive -+
    YouTube, Reddit -> WindowCollectors -> GCS archive -+-> StagingLoad -> raw_staging
                                                                               |
      ReplayBuild: launch, wait   -> ReplayPublisher <-------------------------+
                                          | Pub/Sub
                                     SentimentPipeline -> events_landing, dead letters
                   drain, promote -> FreshestMerge     -> events

    raw_staging export -> GoldSet -> gold_v3.jsonl -> TrainingCorpus -> classifier
    file store of training runs -> MlflowMigration -> tracking server

## 2. Modules

| Module | Models | Composes |
|---|---|---|
| `SteamWalk` | the Steam collector's walk with its checkpoint | |
| `SteamWalk_proofs` | theorems about it | extends `SteamWalk`, TLAPS |
| `FreshestMerge` | the "freshest copy wins" MERGE both tables are written with | |
| `StagingLoad` | the load step, overlapping runs, over an archive that only grows | extends `FreshestMerge` |
| `WindowCollectors` | the YouTube and Reddit collectors in front of the load step; implements `StagingLoad`'s specification | extends `StagingLoad` |
| `WindowCollectors_proofs` | theorems about the load step, the passes, and the two together | extends `WindowCollectors`, TLAPS |
| `ClassifyWorker` | a worker process: threads, langdetect warm-up, the Vertex client's two retry ladders | |
| `ClassifyWorker_proofs` | theorems about it | extends `ClassifyWorker`, TLAPS |
| `PublishJob` | abstract: what a run of the publisher promises | |
| `ReplayPublisher` | the publisher's loop and retries; implements `PublishJob` | instantiates `PublishJob` |
| `ReplayPublisher_proofs` | theorems about it, the refinement among them | extends `ReplayPublisher`, TLAPS |
| `SentimentPipeline` | the streaming job; runs on its own and inside the build | |
| `ReplayBuild` | the build, promotion included | extends `SentimentPipeline` and `FreshestMerge`, instantiates `PublishJob` |
| `ReplayBuild_proofs` | theorems about the job and about the build | extends `ReplayBuild`, TLAPS |
| `MlflowMigration` | the migration's passes, its server and its token | |
| `MlflowMigration_proofs` | theorems about it | extends `MlflowMigration`, TLAPS |
| `GoldSplits` | the stratified allocation of holdout, dev and train, as operators | |
| `GoldSet` | the gold set's files and the commands over them | extends `GoldSplits` |
| `GoldSet_proofs` | theorems about the allocation and the files | extends `GoldSet`, TLAPS |
| `TrainingCorpus` | one run of the training program up to the trainer | |
| `TrainingCorpus_proofs` | theorems about the reservoirs and the split | extends `TrainingCorpus`, TLAPS |
| `MC*` | small instances for TLC | |

Operators named as mutants in a comment ("Mutant: ...") are plausible bugs,
each used by no specification: substituted for the definition that follows
them, each makes a named property fail.

### How state and actions correspond to the code

**SteamWalk.** A review is its creation time; a stream is a set of reviews
with a rank, a cursor is a rank, so that "the page behind the cursor" is a set.
Steam serves only the front of a stream (`Served`, the first `Depth[s]` reviews:
`main.py:81`), and each new review pushes an older one out of reach, also while
a walk is under way. Past the front a page is empty as it is at the end of the
history, and the code takes the one for the other (`FetchEmpty`).
`checkpoint` and `archive` are GCS and survive; everything else belongs to one
call of `collect()` and `NoRun` throws it away. `FetchPage`, `Keep`, `Skip`,
`ReachWindowStart`, `StopOnStuckCursor`, `Advance`, `Flush`, `Save`, `EndRun`
follow the page loop line by line; a flush is one action per tag, because it is
one upload per tag and a run may die between two. `SaveFails`,
`EndRunClearFails` and `StartUnreadable` are the exceptions that
`Checkpoint.save`, `clear` and `read_cursor` swallow. `Crash` is any exception
that leaves `collect()` or the end of the task. `known` and `saved` are history:
which reviews the pass owes is fixed when it leaves the newest end, and a
resumed run inherits that from the run that stored the cursor.

**StagingLoad.** `StartLoad` reads the archive, `LoadLanding` replaces the
landing table in one commit, `MergeStaging` is the MERGE; `LoadFails` may come
at either point. Rows are `[id, at, ...]`, `at` being `collected_at` in seconds,
so that two different copies of one age exist. `Collect` is the environment: the
archive grows, by any rows at any time.

**WindowCollectors.** The environment made concrete. The nested loops of the two
`collect` functions are four sequences, each what one loop has still to run over:
`targets` (the videos of the configuration, or the subreddits), `requests` (the
pages of the video in hand, or a search for each slice), `feed` (the threads or
submissions of the last answer) and `item` (the records of the one in hand).
`Turn`, `Ask`, `Take` and `Keep` are an iteration of each. `Keep` takes one
record into the buffer if the window admits it, and writes the buffer where the
code checks it: at the end of a comment thread for YouTube, after each comment
and each submission for Reddit. `EndPass` writes the rest. `AskFails` is a failed
request, which YouTube repeats (`retry_transient`) and Reddit does not;
`UploadFails` is an upload that raises, with the object there or not; both and
`Crash` end the pass, which keeps no position. `Load` is the load step over
whatever is archived. The answers are functions of constants, so that what
the API returns of the window (`Reached`: of a subreddit the newest submissions up
to the search's ceiling) can be defined without pages, slices and buffers.

**ReplayPublisher.** Rows are numbered in the order of the query's ORDER BY.
`PublishRaises` is a failed or unanswered future; the message is on the topic or
not. With one ordering key and an awaited future the topic is a sequence.
`Killed` is the end of the task; the Cloud Run job has `max_retries = 0`.

**SentimentPipeline.** A bundle is the unit of commit. `CommitBundle` makes its
rows and dead letters appear together; a lost acknowledgement puts a message
back. `InsertRow` may leave the row to be inserted again. `RouteFailedRow` is
the `failed_rows` output, which the default write method has. A record of
`Unbuildable` makes `ClassifyBatch.process` raise (the endpoint refuses its text
however short, or its row cannot be built): only `BundleFails` is then enabled
for a bundle that holds it.

**ClassifyWorker.** What happens inside a bundle of `SentimentPipeline`, whose
`BundleFails` is this module's `failed`. The threads share langdetect's factory,
the lock and the flag of `transforms.py`; each has its own `ClassifyBatch` and
client, as Beam gives each bundle thread its own DoFn instance. One action per
step that another thread can interleave with: the unlocked test of the flag, the
lock, the two halves of langdetect's initialisation, a call of the endpoint, a
detection. `Fits[x]` is the largest token budget at which the endpoint accepts
text `x`; it stands for the estimate in `_fit_to_tokens` and the test in
`_is_too_long`.

**ReplayBuild.** One action per step of the build's script with its early
returns, one poll per iteration of the wait loop. The function of the replay
step runs as an `if` condition, where `set -e` has no effect, so the publisher's
failure leads to `Count` like its success. `Launch` has a job and its id, a job
whose id cannot be read, or no job; the first may fail before it runs
(`JobFails`) or be pending when `AwaitStart` gives up. The drain step runs with
`-e`: if its command fails (`DrainFails`) the build is over. A job that nobody
drains any more is `stranded`, until an operator does (`DrainByHand`). Builds
are numbered; the number
stands for both `run_start` and the `processed_at` of rows classified during it.

**MlflowMigration.** `server` is the sequence of runs on the server, each with
how many params, metrics and objects it holds, its status, marker and lifecycle
stage. The pass is a program counter, one action per server call, in the order
of `migrate` and `migrate_run`. `Call` is what a call may do: take effect and
answer, take effect and lose the answer, or fail; with an expired token it can
only fail. Inside the `try` an exception leads to `Cleanup`, elsewhere it ends
the pass. `RefreshFails` is the timer thread's exception, after which the timer
is not armed again and the token expires. `Start` is also the re-run.

**GoldSplits, GoldSet.** Files are functions from row ids. A command is one
action, because it reads its files, computes and writes one file; a person may
type the commands in any order, with either gold file as `--gold`. A seeded
random choice is the set of the outcomes it may have, so that a property holds
for every seed. `Prelabel` is the LLM that fills a chunk, `Fill` the reviewer.
`placed`, `replaced`, `trained`, `tuned` and `selected` are history.

**TrainingCorpus.** A corpus is the number of rows it has of each label; only
the clapAI reservoirs hold rows. One action per part of `load_v2_corpus`, one
per scanned row of the clapAI stream, then `Assemble` and `SplitTrainEval`. The
command line is chosen by `Init`.

## 3. Runs

| Run | Question | Instance |
|---|---|---|
| `steam_walk` | Can any order of crashes, failed saves, clears and reads, window changes and non-resumable runs lose an in-window review behind a cursor? Has an ended walk archived what it could? | 5 reviews of which Steam serves 4, two overlapping windows, page 2, batch 2, 3 pages, checkpoint every 2, 2 faults |
| `steam_walk_updated` | The same for an order that interleaves old and new; does re-running archive all that Steam goes on serving? Checks the proofs' inductive invariant | 5 reviews of which Steam serves 4, one window, 2 faults, weak fairness |
| `window_collectors` | Does a finished pass archive all it should, whatever failed before; do two overlapping loads over it keep staging monotone, covering and idempotent; is the composition a `StagingLoad`? | 10 records, 3 passes of either collector, 2 loads by 2 loaders (symmetric), 2 faults, batch 2 |
| `replay_publisher` | Order, gaps, copies, end, and the refinement to `PublishJob` | 4 rows, 3 filters, 3 attempts, 2 runs |
| `sentiment_pipeline` | Is each record accounted for, and in the end answered or held by the job's retries? | 4 records (one unparsable, one unbuildable, one refused), 2 workers, 2 mishaps |
| `classify_worker` | Are answers complete and each about its own record, does a batch fail for length only when the last budget does not help, do all threads detect with full profiles, do both ladders end? | 2 threads, 4 texts, 4 batches, budgets 240 down to 16, 4 truncations of 5 attempts |
| `replay_build` | What is a counted promotion worth when earlier replays of other records left messages behind; is it after the drain; which running job is not drained? | 3 records (one refused), replays of the table, a window and an event, two of which overlap, 2 builds, 2 polls |
| `mlflow_migration` | Is a marked copy whole and single, what may be left over, does re-running finish? | 3 runs of one experiment, one of them not listed, 2 faults, 1 lost answer |
| `gold_set` | Is any row held out on the LLM's word, do the seats add up, is a held-out row ever trained on? | 1 old gold row and 4 candidates, 2 holdout seats and 1 dev seat, chunks of 2, 2 splits, 2 merges |
| `training_corpus` | Do reservoirs, subsamples and the split do what they claim at every rounding? | 6 command lines, a stream of 5, every count of 0 to 5 per label for one corpus |
| `steam_walk_streams`, `replay_build_leftovers` | Counterexamples, see section 6 | |

Why the bounds are enough. *SteamWalk:* five reviews at two per page give three
pages: a page that straddles the window's start, one that straddles two tags,
a short last page; three pages with a checkpoint every second reach a page after
a save, the cap, and a resume. Two faults allow a failed save followed by a
crash, or a failed clear followed by an unreadable checkpoint. With a cap of four
the fifth review pushes another one out of the stream: the oldest of the window,
or, in the interleaved order, one of its middle, before, while or after a walk
gets there. `steam_walk_streams` needs no cap.
*WindowCollectors:* the window of three hours in slices of two has a short last
slice, records on both borders, a video of two pages, an empty page, a
placeholder and a foreign video, comments one level too deep, and a subreddit with
more matches than the search returns, one of them in the window. Three passes
are a failed one, its repetition, and one by the other collector; the first two
fall into one second, so that copies of one age differ. Two faults are two
failed requests of one (the last one ends the run) or a lost upload and a
crash. Two loads overlap, or one sees what the other left behind; what a third
one does is proved. *Pipeline:* two workers and two messages a bundle put good,
unparsable and refused records in one bundle or in concurrent ones; two mishaps
lose the acknowledgement of a record and repeat the insert of its second pass.
*ReplayBuild:* two builds are needed for anything an earlier build leaves
behind, a stranded job included; a record may be loaded between any two steps.
Each build may fail to launch, to read its id, to start and to drain. It has `MaxMishaps = 0`
because redelivery and repeated inserts are what `sentiment_pipeline` covers,
and `StablePolls = 1` (the code's 3 would only need more polls). Counts that
fail (`QueriesMayFail`) are off: with them the instance has three times the
states, and the same properties hold. *ClassifyWorker:* the budgets and
attempts are the code's own numbers; two threads are one that loads the profiles
and one that comes in between. *MlflowMigration:* one run has two slices of
params and two objects, the second two metrics and was deleted while open, the third
is never listed; two
faults are a failed call and its failed rollback, or a failed refresh and a
crash, and with the lost answer they leave three copies of one run. *GoldSet:*
the export repeats a gold row and a text; the LLM is unsure of one candidate,
wrong about it, and calls another one negative; there are more candidates than
seats, in more strata than one, and two merges are a merge and a re-merge.
*TrainingCorpus:* six of up to fifteen rows with halves to round in every order
of the labels; reservoirs of one and two rows in a stream of five overflow.
`sentiment_pipeline` and the `ReplayBuild` models keep one copy of a message
waiting (`MaxCopies = 1`): a second one repeats what a redelivery does.

Deadlock is checked except where a bound ends the model (`MaxLoads`,
`MaxPasses`, `MaxBuilds`, the publisher's `MaxRuns`) or the program ends
(`TrainingCorpus`): there it really stops. In `GoldSet` and `MlflowMigration` a
command can always be typed again.

Fairness. `SteamWalk`: a running job goes on and the operator runs it again
(`WF(Start)`, `WF(Run)`); faults are finite by `MaxFaults`. `ReplayPublisher`: a
task that is not killed goes on. `SentimentPipeline`: Dataflow schedules every
worker and the row writer. `ReplayBuild`: the build's script, the pipeline and
the end of the publisher (which `ReplayPublisher` shows as `RunEnds`) go on;
nothing forces a build to be started, a record to be loaded, a publish or a
drain command to succeed, or an operator to drain a stranded job.
`ClassifyWorker`: a thread inside `setup` or `process` goes on, and one that
waits for the lock gets it once it is free for good. `MlflowMigration`: a
running pass goes on and the operator, who is told to re-run it
(`migrate.py:15`), does (`WF(Start)`, `WF(Pass)`); faults are finite, an expiry
is not forced. The other modules have no fairness: nothing runs a collector, a
load, a gold set command again by itself. No run uses strong fairness.

## 4. Proofs

`SteamWalk_proofs` proves, for every number of reviews, every set of windows,
tags, streams, page and batch size, cap and number of faults:

| Theorem | States | Hypothesis |
|---|---|---|
| `TypeCorrect` | `[]TypeOK` | |
| `WalkInvariant` | `[]WalkInv` | `OneStream` |
| `CheckpointSafe` | `[]CheckpointBacked` | `OneStream` |
| `EndedWalkSafe` | `[]EndedWalkComplete` | `OneStream` |
| `ClearSafe` | `ClearedOnlyWhenComplete` | `OneStream` |

These follow from `SteamAssumption` (types of the constants; a rank orders a stream; in a
chronological stream rank is age). `OneStream` says that all runs walk one
stream. It is needed: without it the property fails, which is the finding of
`steam_walk_streams`.

`CheckpointBacked` is not inductive: it says nothing of a run under way. The
strengthening `WalkInv` states at each point of the loop where the reviews owed
are. Between pages all behind the cursor are archived or buffered
(`NothingSkipped`); while a page is looked at, those up to the page's end are
kept or pending, and all that Steam still serves if the cursor did not move
(`PageCovered`); after the loop, those the walk's end stands for are kept
(`LoopEnd`); and the cursors seen never lie below the present one
(`CursorsDescend`), so that a repeated cursor means the end of the stream. A
save then happens with empty buffers, and `NothingSkipped` with empty buffers is
`CheckpointBacked`. What a walk owes at its end (`DueAtEnd`) depends on how it
ended, and for an empty page on what Steam serves at that moment; that this only
shrinks for reviews already there (`ServedShrinks`: more of them come in front)
is what keeps the invariant when reviews are posted during a walk. Nothing is
assumed of `Depth`. There is one lemma per action. TLC checks `WalkInv` in
`steam_walk_updated`.

`ReplayPublisher_proofs` proves, for every set of rows, all filters, attempts
and runs, from `ReplayAssumption` (types of the constants, and that rows are a
finite set of naturals, so that their order is total):

| Theorem | States |
|---|---|
| `ReplayInvariant` | `[]ReplayInv` |
| `TopicInOrder` | `[]ChronologicalTopic` |
| `TopicWithoutGap` | `[]NoGap` |
| `Implementation` | `ImplementsPublishJob`: the replay implements `PublishJob` |
| `CopiesBounded` | `[]BoundedCopies` |

`ReplayInv` adds to the order of the topic what the loop keeps: everything on
the topic lies at or before every row still to be published, and every other
row of the run is on the topic. The row at hand may be on the topic too, when
its future failed but the message had arrived, which is why "at or before"
and why a retry keeps the order. `PublishJob` starts from the same states, and
each action of the loop is a step of it or leaves its variables alone. For the
copies, `CopiesInv` adds that of the rows to come only the first may be on the
topic, fewer times than the attempt it is at: each copy has had its attempt.

`WindowCollectors_proofs` has two parts. The first is about `LoadSpec`, for every
set of rows, loaders and loads, and every archive that grows, from
`LoadAssumption` (rows have a key and a natural age, `Absent` is no row); the
second about the collectors in front of it, for every content of the APIs, every
window, slice length, batch size, retry budget and number of passes and faults,
from `CollectorAssumption` (types of the constants, finitely many keys):

| Theorem | States | Hypothesis |
|---|---|---|
| `LoadInvariant`, `LoadTypeCorrect` | `LoadSpec => []LoadInv`, `[]TypeOK` | |
| `StagingMonotone` | `StagingNeverRegresses` | |
| `RerunChangesNothing` | `RerunIsNoOp` | |
| `LoadsCover` | `[]LoadCovers` | |
| `CollectorsAreArchive` | `CollectSpec => LoadSpec` | |
| `PassesComplete` | `CollectSpec => []PassComplete` | `AnswersOnce` |
| `RecordsStaged` | `CollectSpec => []StagedWhole` | |
| `WindowsComplete` | `CollectSpec => []WindowComplete` | `AnswersOnce`, `WithinReach` |
| `SlicesComplete` | `CollectSpec => []SliceComplete` | `WithinReach` |

The load step: for each id of the landing table a pick holds a row of that id
than which no other is younger, so that the table `Overlay` makes is as fresh
as the old one and covers the source. `LoadCovers` is not inductive: it
speaks of finished loads only. `LoadInv` adds that of two loads under way
neither is alone, that a load that was alone so far is about to merge what it
listed, and that staging covers everything merged so far.

The collectors: `PassComplete` speaks of ended passes only. `PassCovers` says it
of a pass under way: what is stored and in the buffer, together with what is
still ahead at the four levels of the loops, is `Reached`: what the API returns
of the window. A step moves records from one level to the next, or from the last
one to the buffer and the archive; a lemma for each level (`NextTarget`,
`NextRequest`, `NextItem`, `NextRecord`) says so for any sequences. That it
holds when a pass begins is the lemma about the walk: the slices cover the
window and no time is in two of them (`SlicesCover`), so that the filtered
searches of a subreddit give what the newest submissions, up to the ceiling,
have in the window. `PassCounts` adds, for the total, that nothing ahead is done
or comes twice. Every step of a pass then leaves the load step's variables alone
but for an archive that grows by rows of that pass (`StepIsLoadStep`), hence the
refinement; and `RecordsStaged` combines `LoadCovers`, `PassCovers` and
`WholeListed` (a load that began after a pass had ended has listed its rows).

The hypotheses are about the APIs, not the code. `WithinReach`: no submission of
the window is behind as many newer ones as a search returns. It is what turns
`Reached` into all the API has of the window (`Exposed`), so these two theorems say
how large a window may be: the ceiling bounds it, not the slice. The instance of
`window_collectors` does not satisfy it, and a pass there misses a submission.
`AnswersOnce`: a walk meets no record twice; a record that moves from one
page to the next between two requests would be counted twice, and only the total
would be wrong. `MCWindowCollectors` assumes it of its instance, and TLC
evaluates it.

`MlflowMigration_proofs` proves, for every file store, batch sizes and numbers
of faults and lost answers, from `MigrationAssumption` (types of the constants):

| Theorem | States |
|---|---|
| `MigrationInvariant`, `MigrationTypeCorrect` | the inductive invariant, `[]TypeOK` |
| `MarkedRunsWhole` | `[]MarkedIsWhole` |
| `MarkedOnce` | `[]OneMarkedCopy` |
| `LeftoversPaid`, `NoUnexplainedLeftovers` | `[]FaultsPay`, `[]LeftoversExplained` |

`MarkedIsWhole` is not inductive: the marker is set on the copy in hand, about
which it says nothing before. `InHand` says that the copy in hand is the last
run created, that it is of the source run in hand and made in the pass's mode,
and that from the search on no other copy of that run is marked, so that there
is one afterwards; `Progress` says how far it is filled at each step, so that it
is whole when it is marked.

`LeftoversExplained` bounds what is left over by the faults so far. A partial copy
may cost a crash, a lost answer or a failed fetch alone, but two failed calls: one
that spoils the copy and one that spoils its deletion. So `FaultsPay` counts in
halves, `2 * Cardinality(Left) + Owed <= Paid`, where `Owed` is what has been paid
for a leftover that has not come yet: two when the token's timer has died, since
all later calls of the pass will fail, one while a deletion is tried.

`ReplayBuild_proofs` proves, from `PipelineAssumption` and `BuildAssumption` (types
of the constants), for every set of records, workers, bundle sizes and bounds,
every staging table, set of replays and number of builds and polls:

| Theorem | States | Hypothesis |
|---|---|---|
| `PipelineInvariant` | `PipelineSpec => []PipelineInv` | |
| `RecordsAccounted` | `[]NothingUnaccounted` | |
| `DeadLettersApart` | `[]DeadLettersDidNotLand` | |
| `RecordsKnown`, `DrainedHoldsNothing` | nothing is anywhere that was not published; a job that is drained, failed or not started is empty | |
| `BuildInvariant`, `BuildTypeCorrect` | `Spec => []BuildInv`, `[]TypeOK` | |
| `SentNotLost` | `[]NothingLost` | |
| `PromotionAfterDrain` | `PromotedAfterDrain` | |
| `PromotionMissing` | `MissingReplaced` | |
| `PromotionComplete` | `PromotedComplete` | `CountedSelectAll` |
| `BuildRunsPublishJob` | the replay step implements `PublishJob` | |

The job's invariant says where a record may be (`Sorted`: no row of an unparsable
one, no dead letter of a good one) and that a job that is not running has nothing
in flight; its lemmas hold for any clock, so that the build can cite them. The
build's argument for completeness is one of cardinality. When a wait ends by the
count, as many ids have landed since the build began as staging had, so for each
id owed that has not landed another one has, and what lands later does not change
that (`Seen`); whatever was published for the window is owed (`CountTaken`), so the
other one is of another window; and the MERGE covers what has landed. That is
`MissingReplaced`, for any set of replays. `CountedSelectAll` says that a counted
replay selects what every replay of the subscription selects: then there is no
other id to land, and the promotion is complete. It holds where only replays of the
whole table are counted; on the instance of `replay_build`, where it does not,
`replay_build_leftovers` shows an incomplete promotion: the landed count has no
window (section 6).

`ClassifyWorker_proofs` proves, from `WorkerAssumption` (types of the constants),
for every number of threads, batches, budgets and deployments:

| Theorem | States |
|---|---|
| `WorkerInvariant`, `WorkerTypeCorrect` | `[]WorkerInv`, `[]TypeOK` |
| `RowsOfTheirBatch` | `[]RowsMatchBatch` |
| `OneVersionPerBatch` | `[]OneVersion` |
| `ProfilesComplete` | `[]FullProfiles` |
| `LadderInvariant` | `[]LadderInv`: each thread is at the budget of its try |
| `BudgetsDecide` | `LadderDecides` |

`WarmUpInv` is the double-checked lock: the lock is held by the thread that
initialises, the factory is half loaded only under it, the flag is set only over a
loaded one, and a thread past the test has seen the flag. `RowsOf` says of each
thread that its rows are those of one answer, by position: what the code collects
from the texts that are not blank, put back between the blank ones
(`AlignedIsBatch`). `LadderInv` ties the budget of a thread to the number of its
try (`Budgets`, the code's halving with its floor) whatever errors of the moment
came between, and keeps that an answered batch was accepted; since the last budget
is the least (`LastBudget`), only a text that even that one leaves too long fails a
batch for its length, and a batch with such a text is never answered. Such texts
are what `SentimentPipeline` calls `Unbuildable`, for as far as length goes.

`GoldSet_proofs` proves, from `GoldAssumption` (types and finiteness of the files),
for all candidates, labels, chunk sizes and numbers of seats:

| Theorem | States |
|---|---|
| `GoldInvariant`, `GoldTypeCorrect` | `[]GoldInv`, `[]TypeOK` |
| `HeldOutKeptOut` | `[]HeldOutUntouched` |
| `SeatsAddUp` | `SeatCounts` |
| `SeatsRead` | `SeatsReviewed` |

The allocation works in two rounds, people's rows first. A round takes exactly as
many rows as it has seats, or all (`PickSize`, from what each stratum gets and the
fill-up after it), so the second round fills what the first left. The invariant
keeps that flagging took at least as many rows as the seats it was done for
(`EnoughFlagged`), hence a review that is complete fills both splits without the
LLM's rows; and that no command changes a row of the old gold file (`KeepsGold`).

`TrainingCorpus_proofs` proves, from `CorpusAssumption`, for all labels, languages,
caps, streams and corpora:

| Theorem | States |
|---|---|
| `CorpusInvariant` | `[]CorpusInv` |
| `ReservoirsFull` | `[]ReservoirsFilled` |
| `SharesKept` | `[]ShareKept` |
| `ClassesSplit` | `[]ClassesOnBothSides` |

`ReservoirsFull` is Algorithm R: a reservoir that has seen `n` rows holds the lesser of
`n` and its cap, all different, whatever was drawn, and a row of the stream goes to
one reservoir only. `SharesKept` bounds what `subsample_rows` does to the
proportions of any number of labels, in any order: each label but the last is
rounded to within half a row, the rounding of one is seen by no other but through
the rows that remain, and the last label and the rows that fill up take what the
others left (`Apportioned`); so no label is further from its share than half a row
for every other label. `ClassesSplit` is arithmetic of `Tenth` and of the step that
keeps a row of each class on both sides.

`SharesKept` and `BudgetsDecide` are about loops over data, a sum over the labels
and a budget over the tries. The library's induction theorems take an operator and
cannot be used, but `WFMin` takes a set: a set of counterexamples that is not empty
has a least element (`LeastNumber`, `LeastSubset`), which the step rules out. The
recursive functions `Allocated` and `Budgets` are `CHOOSE`s, and are shown to
satisfy their equations by building a function that does, likewise.

Only model-checked: liveness (`EveryReviewArchived`, `RunEnds`,
`EveryRecordAnswered`, `JobDrained`, `BatchEnds`, `EveryRunMigrated`), which the
prover does not do under fairness. `NothingSkipped` is a conjunct of `WalkInv`. Every
other invariant and action property that a passing run checks is a theorem.

## 5. Assumptions and what is left out

- *SteamWalk:* the order of a stream does not change during a walk (the real
  `updated` order may, when a review is edited); the retry and wait ladder of
  `fetch_page` is its outcome: a page, or an exception (`Crash`); two runs of
  the collector do not overlap; event tags are a function of the review. Steam's
  cap on a stream is a number of reviews from its newest end: measured are 124,187
  of 280,699 for `recent` and 400 for `updated` (`collectors/steam/README.md:46-69`).
  A walk that meets it ends like a finished one and clears its checkpoint, so
  nothing here says that repeated runs of one stream archive the history: what
  they archive is what the stream serves. That needs several narrower streams,
  whose choice (`collect_history.sh`) and union are not modelled.
- *Archive objects* are never overwritten: a name carries a time and a hash
  (`collectors/common/gcs_writer.py`), so an archive only grows.
- *StagingLoad:* a load job and a MERGE are atomic, and a load job sees the
  archive as of one moment, as BigQuery documents them.
- *WindowCollectors:* what an API answers does not change while it is collected;
  one pass runs at a time; comments a Reddit page hides (`replace_more(limit=0)`) and replies
  a thread answer leaves out are not exposed; an event without videos is a pass
  without requests. An object is a set of rows, each with the pass that wrote it.
- *MlflowMigration:* one pass at a time; calls are atomic, a batch included; the
  file store does not change; the client's own HTTP retries are inside a call. A
  pass copies the runs that the client lists (`Listed`, section 6).
- *GoldSet:* ids and texts are clean (the code strips them); what the reviewer
  writes is a label. `Tune` uses the splits that `--tune-split` and
  `--eval-split` default to (`tune_threshold.py:230`); an operator who names
  `holdout` there tunes on it, which `HeldOutUntouched` is not about.
  *TrainingCorpus:* mapping and normalising of a row is its outcome, a label or
  none; a config has the same number of rows of each label.
- *Pipeline:* Beam's batching inside a bundle and the classifier's answer are
  one step; autoscaling is left out. Rows refused by BigQuery are known as such
  only with the default write method, the one modelled. Messages carry an id
  and a time by `raw_staging`'s schema, so `Unparsable` is empty inside
  `ReplayBuild`. `Unbuildable` is empty there too: with such a record the drain
  never completes (section 6), and `JobDrained` is about all others.
- *ClassifyWorker:* loading the language profiles does not fail (they are files
  of the package); parsing of an answer is its outcome.
- *ReplayBuild:* `gcloud run jobs execute --wait` returns when the execution has
  ended; a new build starts only when the old job is drained or has failed, so
  after a drain that failed or timed out someone waits for that job (and drains
  it by hand). A job fails, or is cancelled, only before it runs: a running one is
  not cancelled by hand, which would lose what is in flight. The build is not
  cancelled and does not time out as a whole. So `JobDrained` says: a job that runs
  is drained unless it is stranded, and a job is stranded only by an id that
  cannot be read or a drain command that fails. A bq query that fails with an
  error message on its standard output makes the count non-numeric and the wait
  times out, which `WaitTimesOut` covers.
- *Not modelled:* pure I/O, configuration parsing, floating-point evaluation and
  training, stateless SQL views, Terraform and CI; the planned parts are below.

## 6. Where code and documents disagree

With a run:

1. `steam_walk_streams`: the checkpoint's key is appid and window. A run with
   another filter, language, review type or purchase type resumes the other
   stream's cursor and skips its own newer reviews (`main.py:547`, `:760`).
2. `replay_build_leftovers`: the expected count is of the replay's window, the
   landed count (`dataflow/replay.cloudbuild.yaml:216`) of everything since the
   build's start. Messages that an abandoned replay of another window left in the
   subscription count for this one, which may then be promoted without its own,
   contrary to ADR 0002. `MissingReplaced` says what is left of the promise.

Without a run, from reading and modelling:

- `dataflow/pipeline.py:168`: only `ParseAndValidate` diverts to the dead-letter
  topic. An exception in `ClassifyBatch.process` fails the bundle, which Dataflow
  tries again for ever together with the valid records in it, contrary to
  `dataflow/README.md:43`. The model has such records (`Unbuildable`);
  `EveryRecordAnswered` excepts exactly what they hold.
- `collectors/reddit/main.py:252`: every slice repeats one search for the newest
  submissions of all time; the slice is not part of the query and only filters the
  answer. So slices do not keep a walk below the ceiling, contrary to the comment
  at `:36`: a submission behind as many newer ones is missed, and a window of long
  ago comes back empty. The model has this (`Newest`, `Reached`), and `SlicesComplete`
  the condition under which the comment is right.
- `collectors/steam/main.py:796`: the checkpoint is cleared if the window's start
  was reached or fewer pages than the cap were read. A walk that ends by an empty
  page or a repeated cursor on exactly its last allowed page is finished and keeps
  its checkpoint; the next run resumes at the far end instead of starting at the
  newest review, contrary to the comment at `:794`.
- `dataflow/replay.cloudbuild.yaml:209`: if the count of staged ids fails with
  nothing on standard output, a whole-table replay waits for quiet instead of
  completeness and may be promoted incomplete, contrary to ADR 0002. The model
  has this failure (`QueriesMayFail`); `PromotedComplete` is about replays with a
  count.
- `dataflow/replay.cloudbuild.yaml:19`, `:330`, `dataflow/README.md:158` and ADR
  0002 call a build that times out or is cancelled the one case the drain step
  cannot cover. There are more: the drain command may fail (`:272`, under `-e`;
  of a job still pending when the wait of `:169` is over in particular), and the
  step is not reached if the launch created a job whose id cannot be read
  (`:131`; the comment at `:120` says that no job exists then). In both the job
  goes on billing. The model has them (`stranded`), and `JobDrained` excepts
  exactly them. The report step's "The job was drained." (`:324`) is true of
  every build that gets there, unless the job failed before it ran.
- `collectors/steam/main.py:794`: "the walk finished" also when Steam stops serving
  the stream (`:81`): the run ends normally and deletes its checkpoint, with the
  older part of the window missing and nothing in the log that says so but the
  oldest date. `EndedWalkComplete` promises the whole window only of a walk that
  met the window's start.
- `nlp/tracking/migrate.py:271` asks for one page of an experiment's runs, which
  the client limits to 1000, while its docstring (`:5`) promises every run.
  `EveryRunMigrated` is about the runs that are listed.
- `nlp/endpoint/classifier.py:483` speaks of four halvings, but four attempts make
  three (240, 120, 60, 30).
- `nlp/tracking/migrate.py:206`: "a copy that fails halfway is deleted and has no
  marker". If `set_tag` takes effect and its answer is lost, a whole copy is
  deleted that has the marker, and every later pass skips it. `EveryRunMigrated`
  exempts exactly that.
- `nlp/training/loaders.py:266`: dev and holdout rows "never leak into training".
  That is so while a row is split once. `merge_gold` onto the old `gold.jsonl` (its
  default) a second time, or after `--human-only` dropped rows, splits rows again:
  a row trained on before may then be held out. `HeldOutUntouched` is about
  histories without such a merge.
- `nlp/training/train.py:254` says that `ValueError` is raised "if either split
  would be empty"; the tenth that is taken without `--dev-from-gold` never raises.
- `nlp/eval/prelabel_chunks.py`: `merge` rewrites the review file and loses the
  labels a human has filled in; `merge_gold` before `select` takes every LLM label
  unread, since no row is flagged; candidates that repeat the *text* of a gold
  row are not left out, only those that repeat its id; chunk names sort wrongly
  from 100 chunks on.
- `nlp/eval/merge_gold.py:464` orders the new rows by iterating over a set, so the
  file's order differs from run to run; `dev_n` is not reduced by the dev rows the
  gold file already has, unlike the holdout seats.
- `nlp/training/train.py:265`: the gold rows are repeated before the tenth is
  taken for evaluation, so copies of one row are on both sides.
- `nlp/training/loaders.py:536`: a config of the tweet corpus that cannot be loaded
  shrinks the corpus with a warning only.

## 7. Plan

Order: the part that loses data first, then the part that decides what readers
see, then the parts inside a step, then the tools beside the data path.

1. *Done:* Steam walk and checkpoint; YouTube and Reddit passes composed with
   load and MERGE; publisher with its abstract job; streaming job; build with
   promotion; classifying worker; migration; gold set; training corpus. Proofs of
   every safety property of each of them.
2. *Next proofs:* that the worker's threads implement the bundle of
   `SentimentPipeline` (a refinement that maps `failed` to `BundleFails` and the
   texts without a budget to `Unbuildable`); the walks under an order that changes
   between two requests.
3. *Next models:* endpoint registration; two jobs on one subscription after a
   drain that timed out; the passes of `collect_history.sh` over several Steam
   streams, one after the other, and what their union reaches.
