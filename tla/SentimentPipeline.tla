--------------------------- MODULE SentimentPipeline ---------------------------
(***************************************************************************)
(* The streaming job (dataflow/pipeline.py): read the subscription, parse  *)
(* and validate, batch, classify, append a row per record to               *)
(* events_landing; what cannot be parsed, and what BigQuery refuses, goes  *)
(* to the dead-letter topic. The job is at-least-once on purpose.          *)
(*                                                                         *)
(* Pub/Sub and Beam are external. A message waits in the subscription      *)
(* until a worker pulls it; a bundle is the unit of commit: its outputs    *)
(* appear all together, or an exception discards them and the bundle is    *)
(* tried again. The messages of a committed bundle are acknowledged, but   *)
(* an acknowledgement may get lost, and then the message comes back. A row *)
(* committed for writing is inserted once or, after a failure between the  *)
(* insert and its commit, again. Draining stops the pulling and lets what  *)
(* is in flight finish; what waits stays in the subscription. A job may    *)
(* end before its workers come up; a running one goes on until drained.    *)
(***************************************************************************)
EXTENDS Naturals, FiniteSets

CONSTANTS
  Records,      \* ids of the records that get published
  Unparsable,   \* those without a usable id or created_utc, or not JSON
  Refused,      \* those whose row BigQuery refuses
  Unbuildable,  \* those for which ClassifyBatch raises each time: a text the
                \* model rejects at the last length, a malformed collected_at
  Workers,      \* bundle threads
  MaxBundle,    \* bound: messages in a bundle
  MaxCopies,    \* bound: copies of one message waiting in the subscription
  MaxMishaps    \* bound: failed bundles, lost acknowledgements, repeated inserts

ASSUME PipelineAssumption ==
  /\ {Unparsable, Refused, Unbuildable} \subseteq SUBSET Records
  /\ Unparsable \cap Unbuildable = {}
  /\ MaxBundle \in Nat \ {0} /\ MaxCopies \in Nat \ {0}
  /\ MaxMishaps \in Nat

VARIABLES
  jobState,   \* "none", "pending", "running", "draining" or "drained"; "failed"
              \* when it failed or was cancelled before it ran
  waiting,    \* waiting[r]: copies of r's message in the subscription
  bundle,     \* bundle[w]: the messages worker w has pulled
  rows,       \* classified rows [id, at] committed, not yet in the table
  landing,    \* events_landing: rows [id, at], at being processed_at
  dlq,        \* records on the dead-letter topic
  mishaps,    \* counted against MaxMishaps
  published   \* history: the records whose messages reached the subscription

pipelineVars == <<jobState, waiting, bundle, rows, landing, dlq, mishaps, published>>

Rows == [id : Records, at : Nat]
Ids(table) == {row.id : row \in table}
Waiting == {r \in Records : waiting[r] > 0}
Pulled == UNION {bundle[w] : w \in Workers}
InFlight == Pulled \cup Ids(rows)

\* Worker w has a bundle that fails each time.
Held(w) == bundle[w] \cap Unbuildable # {}

PipelineTypeOK ==
  /\ jobState \in {"none", "pending", "running", "draining", "drained", "failed"}
  /\ waiting \in [Records -> 0 .. MaxCopies]
  /\ bundle \in [Workers -> SUBSET Records]
  /\ rows \subseteq Rows
  /\ landing \subseteq Rows
  /\ dlq \subseteq Records
  /\ mishaps \in 0 .. MaxMishaps
  /\ published \subseteq Records

PipelineInit ==
  /\ jobState = "none"
  /\ waiting = [r \in Records |-> 0]
  /\ bundle = [w \in Workers |-> {}]
  /\ rows = {}
  /\ landing = {}
  /\ dlq = {}
  /\ mishaps = 0
  /\ published = {}

-----------------------------------------------------------------------------
\* A message reaches the subscription.
Deliver(r) ==
  /\ waiting[r] < MaxCopies
  /\ waiting' = [waiting EXCEPT ![r] = @ + 1]
  /\ published' = published \cup {r}
  /\ UNCHANGED <<jobState, bundle, rows, landing, dlq, mishaps>>

LaunchJob ==
  /\ jobState \in {"none", "drained", "failed"}
  /\ jobState' = "pending"
  /\ UNCHANGED <<waiting, bundle, rows, landing, dlq, mishaps, published>>

JobStarts ==
  /\ jobState = "pending"
  /\ jobState' = "running"
  /\ UNCHANGED <<waiting, bundle, rows, landing, dlq, mishaps, published>>

\* The workers do not come up.
JobFails ==
  /\ jobState = "pending"
  /\ jobState' = "failed"
  /\ UNCHANGED <<waiting, bundle, rows, landing, dlq, mishaps, published>>

Pull(w) ==
  /\ jobState = "running"
  /\ bundle[w] = {}
  /\ \E pulled \in (SUBSET Waiting) \ {{}} :
       /\ Cardinality(pulled) <= MaxBundle
       /\ bundle' = [bundle EXCEPT ![w] = pulled]
       /\ waiting' = [r \in Records |-> IF r \in pulled THEN waiting[r] - 1
                                        ELSE waiting[r]]
  /\ UNCHANGED <<jobState, rows, landing, dlq, mishaps, published>>

\* ClassifyBatch.process raised: the bundle's outputs are discarded, dead
\* letters included, and the bundle is tried again, without an end if a record
\* in it is unbuildable.
BundleFails(w) ==
  /\ bundle[w] # {}
  /\ \/ Held(w) /\ UNCHANGED mishaps
     \/ mishaps < MaxMishaps /\ mishaps' = mishaps + 1
  /\ UNCHANGED <<jobState, waiting, bundle, rows, landing, dlq, published>>

\* Mutants: an unparsable record is dropped; it is classified all the same.
DivertedNowhere(b) == {}
ClassifiedAll(b, now) == {[id |-> r, at |-> now] : r \in b}

\* What ParseAndValidate diverts, and what becomes of the rest: one row per
\* record, stamped with the time of the pass.
Diverted(b) == b \cap Unparsable
Classified(b, now) == {[id |-> r, at |-> now] : r \in b \ Unparsable}

\* Mutant: an unparsable record fails its bundle.
CommitUnlessUnparsable(w, now) ==
  /\ bundle[w] # {} /\ ~Held(w)
  /\ Diverted(bundle[w]) = {}
  /\ rows' = rows \cup Classified(bundle[w], now)
  /\ bundle' = [bundle EXCEPT ![w] = {}]
  /\ UNCHANGED <<jobState, waiting, landing, dlq, mishaps, published>>

\* The bundle is done, which one with an unbuildable record never is. A lost
\* acknowledgement brings messages back.
CommitBundle(w, now) ==
  /\ bundle[w] # {} /\ ~Held(w)
  /\ rows' = rows \cup Classified(bundle[w], now)
  /\ dlq' = dlq \cup Diverted(bundle[w])
  /\ bundle' = [bundle EXCEPT ![w] = {}]
  /\ \/ UNCHANGED <<waiting, mishaps>>
     \/ \E r \in bundle[w] :
          /\ mishaps < MaxMishaps /\ waiting[r] < MaxCopies
          /\ mishaps' = mishaps + 1
          /\ waiting' = [waiting EXCEPT ![r] = @ + 1]
  /\ UNCHANGED <<jobState, landing, published>>

InsertRow(row) ==
  /\ row \in rows
  /\ row.id \notin Refused
  /\ landing' = landing \cup {row}
  /\ \/ rows' = rows \ {row} /\ UNCHANGED mishaps
     \/ mishaps < MaxMishaps /\ mishaps' = mishaps + 1 /\ UNCHANGED rows
  /\ UNCHANGED <<jobState, waiting, bundle, dlq, published>>

\* Mutant: what BigQuery refuses is only counted.
DropFailedRow(row) ==
  /\ row \in rows
  /\ row.id \in Refused
  /\ rows' = rows \ {row}
  /\ UNCHANGED <<jobState, waiting, bundle, landing, dlq, mishaps, published>>

\* _route_failed_rows: the row joins the parse failures.
RouteFailedRow(row) ==
  /\ row \in rows
  /\ row.id \in Refused
  /\ rows' = rows \ {row}
  /\ dlq' = dlq \cup {row.id}
  /\ UNCHANGED <<jobState, waiting, bundle, landing, mishaps, published>>

\* A drain request that Dataflow accepts; a request may as well be refused,
\* of a job that is still pending in particular.
RequestDrain ==
  /\ jobState \in {"pending", "running"}
  /\ jobState' = "draining"
  /\ UNCHANGED <<waiting, bundle, rows, landing, dlq, mishaps, published>>

DrainCompletes ==
  /\ jobState = "draining"
  /\ InFlight = {}
  /\ jobState' = "drained"
  /\ UNCHANGED <<waiting, bundle, rows, landing, dlq, mishaps, published>>

\* What the job does by itself, now being the time of processed_at.
Process(now) ==
  \/ JobStarts \/ JobFails
  \/ \E w \in Workers : Pull(w) \/ BundleFails(w) \/ CommitBundle(w, now)
  \/ \E row \in rows : InsertRow(row) \/ RouteFailedRow(row)
  \/ DrainCompletes

\* The job on its own: a publisher that sends each record at any moment, an
\* operator who launches and drains.
PipelineNext ==
  \/ \E r \in Records \ published : Deliver(r)
  \/ LaunchJob \/ RequestDrain \/ Process(1)

PipelineSpec == PipelineInit /\ [][PipelineNext]_pipelineVars

\* Dataflow goes on working: no worker is left out for ever.
FairPipelineSpec ==
  /\ PipelineSpec
  /\ WF_pipelineVars(JobStarts \/ JobFails \/ DrainCompletes)
  /\ \A w \in Workers :
       WF_pipelineVars(Pull(w)) /\ WF_pipelineVars(CommitBundle(w, 1))
  /\ WF_pipelineVars(\E row \in rows : InsertRow(row) \/ RouteFailedRow(row))

-----------------------------------------------------------------------------
\* No published record disappears: it waits, is in flight, has landed or is
\* dead-lettered, through failed bundles, lost acknowledgements and drains.
NothingUnaccounted ==
  published \subseteq Waiting \cup InFlight \cup Ids(landing) \cup dlq

\* The dead-letter topic is where an operator finds what did not make it: a
\* record is never both there and in the table, however often it is tried.
DeadLettersDidNotLand == dlq \cap Ids(landing) = {}

\* "One events_landing row per input record" (pipeline.py:162), sooner or
\* later: a record waiting at a job that is not drained lands or is
\* dead-lettered, whatever it shares its bundle with, except an unbuildable
\* record, which holds its own bundle and no other worker. The exception is
\* what "a comment the language detector or the model cannot make sense of still
\* reaches BigQuery" (dataflow/README.md:43) does not come true for.
EveryRecordAnswered ==
  \A r \in Records :
    (jobState = "running" /\ waiting[r] > 0)
      ~> \/ jobState # "running"
         \/ r \in dlq \cup Ids(landing)
         \/ \E w \in Workers : Held(w) /\ r \in bundle[w]
         \/ \A w \in Workers : Held(w)

=============================================================================
