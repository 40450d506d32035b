----------------------------- MODULE ClassifyWorker -----------------------------
(***************************************************************************)
(* A worker process of the streaming job: bundle threads, each with its    *)
(* own ClassifyBatch (dataflow/pipeline.py), share langdetect's profiles.  *)
(* setup() warms the profiles up under a lock (dataflow/transforms.py);    *)
(* process() has the Vertex client (nlp/endpoint/classifier.py) answer for *)
(* a batch, then detects languages and builds the rows. The client meets a *)
(* text that is too long by shortening the batch, and inside every such    *)
(* try repeats what fails for the moment.                                  *)
(*                                                                         *)
(* The endpoint and langdetect are external: the endpoint accepts a batch  *)
(* when each text, cut to the token budget, fits the model, and may fail   *)
(* or change its deployment at any call. A text that fails in the end      *)
(* raises out of process(), and the bundle is tried again                  *)
(* (SentimentPipeline's BundleFails).                                      *)
(***************************************************************************)
EXTENDS Naturals, Sequences, FiniteSets

CONSTANTS
  Threads,             \* bundle threads of the process
  Texts,               \* record texts
  Blank,               \* those that normalize_text makes empty
  Fits,                \* Fits[x]: the largest token budget at which x fits
  Batches,             \* the batches that BatchElements makes
  Deployments,         \* model ids the endpoint may answer with
  Endpoint,            \* the version before an answer named a model
  MaxTokens,           \* _MAX_TOKENS
  MinTokens,           \* 16
  TruncationAttempts,  \* _TRUNCATION_ATTEMPTS
  MaxAttempts,         \* _MAX_ATTEMPTS
  None                 \* no model id, no thread, no language

ASSUME WorkerAssumption ==
  /\ Blank \subseteq Texts
  /\ Fits \in [Texts -> Nat]
  /\ Batches \subseteq Seq(Texts) \ {<<>>}
  /\ None \notin Deployments \cup Threads \cup Texts
  /\ {MaxTokens, MinTokens, TruncationAttempts, MaxAttempts} \subseteq Nat \ {0}
  /\ MinTokens <= MaxTokens

VARIABLES
  at,        \* at[t]: where thread t is
  factory,   \* langdetect's factory: "none", "loading" or "loaded"
  lock,      \* the thread that holds _LANGDETECT_LOCK, or None
  ready,     \* _langdetect_ready
  batch,     \* batch[t]: the texts of t's batch
  tokens,    \* tokens[t]: max_tokens
  attempt,   \* attempt[t]: the loop variable of _predict_with_truncation, from 1
  try,       \* try[t]: the attempt of tenacity inside it, from 1
  deployed,  \* deployed[t]: the client's _deployed_model_id, or None
  rows       \* rows[t]: per record, the text its label is about, the version,
             \* and the language profiles it was detected with

profiles == <<factory, lock, ready>>
ladder == <<tokens, attempt, try>>
vars == <<at, profiles, batch, ladder, deployed, rows>>

TypeOK ==
  /\ at \in [Threads -> {"setup", "lock", "init", "load", "idle", "predict",
                         "detect", "done", "failed"}]
  /\ factory \in {"none", "loading", "loaded"}
  /\ lock \in Threads \cup {None}
  /\ ready \in BOOLEAN
  /\ batch \in [Threads -> Batches \cup {<<>>}]
  /\ tokens \in [Threads -> MinTokens .. MaxTokens]
  /\ attempt \in [Threads -> 1 .. TruncationAttempts]
  /\ try \in [Threads -> 1 .. MaxAttempts]
  /\ deployed \in [Threads -> Deployments \cup {None}]
  /\ rows \in [Threads -> Seq([about : Texts \cup {None},
                               version : Deployments \cup {Endpoint},
                               profiles : {"none", "loading", "loaded", None}])]

Init ==
  /\ at = [t \in Threads |-> "setup"]
  /\ factory = "none" /\ lock = None /\ ready = FALSE
  /\ batch = [t \in Threads |-> <<>>]
  /\ tokens = [t \in Threads |-> MaxTokens]
  /\ attempt = [t \in Threads |-> 1]
  /\ try = [t \in Threads |-> 1]
  /\ deployed = [t \in Threads |-> None]
  /\ rows = [t \in Threads |-> <<>>]

-----------------------------------------------------------------------------
(* warm_up_language_detection *)

Goes(t, from, to) == at[t] = from /\ at' = [at EXCEPT ![t] = to]

\* The flag is read without the lock.
CheckReady(t) ==
  /\ Goes(t, "setup", IF ready THEN "idle" ELSE "lock")
  /\ UNCHANGED <<profiles, batch, ladder, deployed, rows>>

\* Mutant: the profiles are loaded without the lock.
InitUnlocked(t) ==
  /\ Goes(t, "lock", "init")
  /\ UNCHANGED <<profiles, batch, ladder, deployed, rows>>

AcquireLock(t) ==
  /\ lock = None
  /\ Goes(t, "lock", "init")
  /\ lock' = t
  /\ UNCHANGED <<factory, ready, batch, ladder, deployed, rows>>

\* langdetect's init_factory publishes the factory and then loads it; it does
\* neither when there is one.
InitFactory(t) ==
  /\ ~ready /\ factory = "none"
  /\ Goes(t, "init", "load")
  /\ factory' = "loading"
  /\ UNCHANGED <<lock, ready, batch, ladder, deployed, rows>>

LoadProfiles(t) ==
  /\ Goes(t, "load", "init")
  /\ factory' = "loaded"
  /\ UNCHANGED <<lock, ready, batch, ladder, deployed, rows>>

ReleaseLock(t) ==
  /\ ready \/ factory # "none"
  /\ Goes(t, "init", "idle")
  /\ ready' = TRUE
  /\ lock' = None
  /\ UNCHANGED <<factory, batch, ladder, deployed, rows>>

WarmUp(t) ==
  \/ CheckReady(t) \/ AcquireLock(t)
  \/ InitFactory(t) \/ LoadProfiles(t) \/ ReleaseLock(t)

-----------------------------------------------------------------------------
(* classify_batch *)

Classifiable(b) == {i \in DOMAIN b : b[i] \notin Blank}

\* The place of index i in the list classifiable.
Position(b, i) == Cardinality({j \in Classifiable(b) : j <= i})

\* What is sent: the classifiable texts, in order. The endpoint's predictions
\* are about them in that order.
Sent(b) ==
  [k \in 1 .. Cardinality(Classifiable(b)) |->
     b[CHOOSE i \in Classifiable(b) : Position(b, i) = k]]

\* Mutant: the predictions fill the batch from its beginning.
AlignedFromStart(b) ==
  [i \in DOMAIN b |-> IF i \in DOMAIN Sent(b) THEN Sent(b)[i] ELSE None]

\* The batch in input order again, with the gaps filled.
Aligned(b) ==
  [i \in DOMAIN b |-> IF i \in Classifiable(b) THEN Sent(b)[Position(b, i)] ELSE None]

Version(d) == IF d = None THEN Endpoint ELSE d

Results(b, d) ==
  [i \in DOMAIN b |-> [about |-> Aligned(b)[i], version |-> Version(d), profiles |-> None]]

StartBatch(t, b) ==
  /\ at[t] \in {"idle", "done", "failed"}
  /\ batch' = [batch EXCEPT ![t] = b]
  /\ tokens' = [tokens EXCEPT ![t] = MaxTokens]
  /\ attempt' = [attempt EXCEPT ![t] = 1]
  /\ try' = [try EXCEPT ![t] = 1]
  /\ IF Classifiable(b) = {}
       THEN /\ at' = [at EXCEPT ![t] = "detect"]
            /\ rows' = [rows EXCEPT ![t] = Results(b, deployed[t])]
       ELSE /\ at' = [at EXCEPT ![t] = "predict"]
            /\ rows' = [rows EXCEPT ![t] = <<>>]
  /\ UNCHANGED <<profiles, deployed>>

Accepted(t) == \A i \in Classifiable(batch[t]) : tokens[t] <= Fits[batch[t][i]]

\* Mutant: the gaps are filled before the answer is read.
AnsweredWithOldGaps(t) ==
  /\ Accepted(t)
  /\ Goes(t, "predict", "detect")
  /\ \E d \in Deployments \cup {None} :
       /\ deployed' = [deployed EXCEPT ![t] = IF d = None THEN @ ELSE d]
       /\ rows' = [rows EXCEPT ![t] =
            [i \in DOMAIN batch[t] |->
               Results(batch[t], IF i \in Classifiable(batch[t]) THEN deployed'[t]
                                 ELSE deployed[t])[i]]]
  /\ UNCHANGED <<profiles, batch, ladder>>

\* The endpoint answers, and may name the model that did.
Answered(t) ==
  /\ Accepted(t)
  /\ Goes(t, "predict", "detect")
  /\ \E d \in Deployments \cup {None} :
       deployed' = [deployed EXCEPT ![t] = IF d = None THEN @ ELSE d]
  /\ rows' = [rows EXCEPT ![t] = Results(batch[t], deployed'[t])]
  /\ UNCHANGED <<profiles, batch, ladder>>

\* An answer of another length, or one that names no pipeline label; or an
\* error that neither ladder knows.
AnsweredWrongly(t) ==
  /\ Goes(t, "predict", "failed")
  /\ \/ Accepted(t) /\ \E d \in Deployments : deployed' = [deployed EXCEPT ![t] = d]
     \/ UNCHANGED deployed
  /\ UNCHANGED <<profiles, batch, ladder, rows>>

\* Mutant: one attempt too many.
FailsOnceMore(t) ==
  /\ IF try[t] > MaxAttempts
       THEN Goes(t, "predict", "failed") /\ UNCHANGED try
       ELSE Goes(t, "predict", "predict") /\ try' = [try EXCEPT ![t] = @ + 1]
  /\ UNCHANGED <<profiles, batch, tokens, attempt, deployed, rows>>

\* An error of the moment (429, 5xx, a deadline), repeated by tenacity.
FailsForNow(t) ==
  /\ IF try[t] = MaxAttempts
       THEN Goes(t, "predict", "failed") /\ UNCHANGED try
       ELSE Goes(t, "predict", "predict") /\ try' = [try EXCEPT ![t] = @ + 1]
  /\ UNCHANGED <<profiles, batch, tokens, attempt, deployed, rows>>

Halved(n) == IF n \div 2 < MinTokens THEN MinTokens ELSE n \div 2

\* Mutant: the batch is shortened without an end.
ShortenedForEver(t) ==
  /\ ~Accepted(t)
  /\ Goes(t, "predict", "predict")
  /\ try' = [try EXCEPT ![t] = 1]
  /\ tokens' = [tokens EXCEPT ![t] = Halved(@)]
  /\ UNCHANGED <<profiles, batch, attempt, deployed, rows>>

\* Mutant: the last try is not made.
GivesUpEarly(t) ==
  /\ ~Accepted(t)
  /\ IF attempt[t] + 1 >= TruncationAttempts
       THEN Goes(t, "predict", "failed") /\ UNCHANGED ladder
       ELSE /\ Goes(t, "predict", "predict")
            /\ attempt' = [attempt EXCEPT ![t] = @ + 1]
            /\ try' = [try EXCEPT ![t] = 1]
            /\ tokens' = [tokens EXCEPT ![t] = Halved(@)]
  /\ UNCHANGED <<profiles, batch, deployed, rows>>

\* A text of the batch is too long: all are cut shorter and sent again.
TooLong(t) ==
  /\ ~Accepted(t)
  /\ IF attempt[t] = TruncationAttempts
       THEN Goes(t, "predict", "failed") /\ UNCHANGED ladder
       ELSE /\ Goes(t, "predict", "predict")
            /\ attempt' = [attempt EXCEPT ![t] = @ + 1]
            /\ try' = [try EXCEPT ![t] = 1]
            /\ tokens' = [tokens EXCEPT ![t] = Halved(@)]
  /\ UNCHANGED <<profiles, batch, deployed, rows>>

Predict(t) == Answered(t) \/ AnsweredWrongly(t) \/ FailsForNow(t) \/ TooLong(t)

\* detect_language and build_event_row for every record; no language is looked
\* for in a blank text. Setup has left the profiles ready.
Detect(t) ==
  /\ Goes(t, "detect", "done")
  /\ rows' = [rows EXCEPT ![t] =
       [i \in DOMAIN batch[t] |->
          [rows[t][i] EXCEPT !.profiles = IF batch[t][i] \in Blank THEN None ELSE factory]]]
  /\ UNCHANGED <<profiles, batch, ladder, deployed>>

Step(t) == WarmUp(t) \/ Predict(t) \/ Detect(t)

Next == \E t \in Threads : Step(t) \/ \E b \in Batches : StartBatch(t, b)

Spec == Init /\ [][Next]_vars

\* Every thread goes on.
FairSpec == Spec /\ \A t \in Threads : WF_vars(Step(t))

-----------------------------------------------------------------------------
\* "One result per input, in the same order" (classifier.py:426), and never an
\* invented "neu": each row's label is about its own record's text, and none
\* was asked for exactly when there was nothing to classify.
RowsMatchBatch ==
  \A t \in Threads : at[t] = "done" =>
    /\ DOMAIN rows[t] = DOMAIN batch[t]
    /\ \A i \in DOMAIN batch[t] :
         rows[t][i].about = IF batch[t][i] \in Blank THEN None ELSE batch[t][i]

\* The rows of a batch name one model version, even when the endpoint changes
\* its deployment and blank texts are among them.
OneVersion ==
  \A t \in Threads : \A i, j \in DOMAIN rows[t] :
    rows[t][i].version = rows[t][j].version

\* "Serialising the first initialisation removes the race" (transforms.py:205):
\* on a cold worker no language is detected against half-loaded profiles.
FullProfiles ==
  \A t \in Threads : \A i \in DOMAIN rows[t] : rows[t][i].profiles \in {None, "loaded"}

\* The budgets of the tries, and a text that is too long even at the last.
Budgets[k \in 1 .. TruncationAttempts] ==
  IF k = 1 THEN MaxTokens ELSE Halved(Budgets[k - 1])
Hopeless(x) == x \notin Blank /\ Fits[x] < Budgets[TruncationAttempts]

\* "a rejection is met by halving it and trying again rather than by failing the
\* bundle" (classifier.py:482): a batch fails for its length only when it has a
\* text that the last budget does not help, and is never answered when it has one,
\* whatever errors of the moment come between the tries. Such a text is what
\* SentimentPipeline calls unbuildable.
LadderDecides ==
  /\ [](\A t \in Threads : at[t] \in {"detect", "done"} =>
          \A i \in DOMAIN batch[t] : ~Hopeless(batch[t][i]))
  /\ [][\A t \in Threads : TooLong(t) /\ at'[t] = "failed" =>
          \E i \in DOMAIN batch[t] : Hopeless(batch[t][i])]_vars

\* Both ladders end: a batch sent to the endpoint is answered or fails.
BatchEnds ==
  \A t \in Threads : at[t] = "predict" ~> at[t] # "predict"

=============================================================================
