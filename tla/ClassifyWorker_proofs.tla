------------------------- MODULE ClassifyWorker_proofs -------------------------
(* Theorems about the classifying worker, for every number of threads, every  *)
(* batch and every budget: each row is about its own record, a batch's rows   *)
(* name one version, no thread detects with half-loaded profiles, and a batch *)
(* fails for its length exactly when the last budget does not help.           *)
EXTENDS ClassifyWorker, FiniteSetTheorems, SequenceTheorems, WellFoundedInduction, TLAPS

-----------------------------------------------------------------------------
(* The order of predictions *)

\* A function on 1 .. n is a sequence.
LEMMA ToSeq == ASSUME NEW S, NEW n \in Nat, NEW s \in [1 .. n -> S] PROVE s \in Seq(S)
<1>1. Seq(S) = UNION {[1 .. m -> S] : m \in Nat}
  BY SeqDef
<1> QED BY <1>1

\* A batch is a finite list, so that its classifiable indices can be counted.
LEMMA BatchFacts ==
  ASSUME WorkerAssumption, NEW b \in Batches
  PROVE  /\ Len(b) \in Nat /\ DOMAIN b = 1 .. Len(b)
         /\ \A i \in DOMAIN b : b[i] \in Texts
         /\ Classifiable(b) \subseteq DOMAIN b
         /\ IsFiniteSet(Classifiable(b)) /\ Cardinality(Classifiable(b)) \in Nat
<1>1. b \in Seq(Texts)
  BY DEF WorkerAssumption
<1>2. Len(b) \in Nat /\ DOMAIN b = 1 .. Len(b) /\ \A i \in DOMAIN b : b[i] \in Texts
  BY <1>1
<1>3. Classifiable(b) \subseteq DOMAIN b
  BY DEF Classifiable
<1>4. IsFiniteSet(DOMAIN b)
  BY <1>2, FS_Interval
<1>5. IsFiniteSet(Classifiable(b)) /\ Cardinality(Classifiable(b)) \in Nat
  BY <1>3, <1>4, FS_Subset, FS_CardinalityType
<1> QED BY <1>2, <1>3, <1>5

\* Two classifiable indices have two places, each in the list.
LEMMA PositionInjective ==
  ASSUME WorkerAssumption, NEW b \in Batches, NEW i \in Classifiable(b),
         NEW j \in Classifiable(b)
  PROVE  /\ Position(b, i) \in 1 .. Cardinality(Classifiable(b))
         /\ Position(b, i) = Position(b, j) => i = j
<1> DEFINE upTo(n) == {m \in Classifiable(b) : m <= n}
<1>. HIDE DEF upTo
<1>0. \A n \in Classifiable(b) : n \in Nat
  BY BatchFacts
<1>1. ASSUME NEW n \in Classifiable(b)
      PROVE  /\ IsFiniteSet(upTo(n)) /\ Cardinality(upTo(n)) \in Nat
             /\ Cardinality(upTo(n)) <= Cardinality(Classifiable(b))
             /\ n \in upTo(n)
  <2>1. n \in upTo(n)
    BY <1>0 DEF upTo
  <2>2. upTo(n) \in SUBSET Classifiable(b) /\ IsFiniteSet(Classifiable(b))
    BY BatchFacts DEF upTo
  <2>3. IsFiniteSet(upTo(n)) /\ Cardinality(upTo(n)) <= Cardinality(Classifiable(b))
    BY <2>2, FS_Subset
  <2> QED BY <2>1, <2>3, FS_CardinalityType
<1>2. Cardinality(upTo(i)) # 0
  BY <1>1, FS_EmptySet
<1>3. Position(b, i) \in 1 .. Cardinality(Classifiable(b))
  <2>1. Position(b, i) = Cardinality(upTo(i))
    BY DEF Position, upTo
  <2>2. Cardinality(Classifiable(b)) \in Nat
    BY BatchFacts
  <2> QED BY <1>1, <1>2, <2>1, <2>2
<1>4. ASSUME NEW k \in Classifiable(b), NEW n \in Classifiable(b), k < n,
             Cardinality(upTo(k)) = Cardinality(upTo(n))
      PROVE  FALSE
  <2>1. upTo(k) \in SUBSET upTo(n)
    BY <1>0, <1>4 DEF upTo
  <2>2. upTo(k) = upTo(n)
    BY <1>1, <1>4, <2>1, FS_Subset
  <2>3. n \notin upTo(k)
    BY <1>0, <1>4 DEF upTo
  <2> QED BY <1>1, <2>2, <2>3
<1>5. i < j \/ j < i \/ i = j
  BY <1>0
<1>6. Position(b, i) = Position(b, j) => i = j
  BY <1>4, <1>5 DEF Position, upTo
<1> QED BY <1>3, <1>6

\* What the client makes of a batch: each text at its own place, the gaps where
\* there was nothing to classify.
LEMMA AlignedIsBatch ==
  ASSUME WorkerAssumption, NEW b \in Batches
  PROVE  Aligned(b) = [i \in DOMAIN b |-> IF b[i] \in Blank THEN None ELSE b[i]]
<1> SUFFICES ASSUME NEW i \in DOMAIN b
             PROVE  (IF i \in Classifiable(b) THEN Sent(b)[Position(b, i)] ELSE None)
                      = (IF b[i] \in Blank THEN None ELSE b[i])
  BY DEF Aligned
<1>1. CASE i \notin Classifiable(b)
  BY <1>1 DEF Classifiable
<1>2. CASE i \in Classifiable(b)
  <2> DEFINE k == Position(b, i)
             there == CHOOSE j \in Classifiable(b) : Position(b, j) = k
  <2>1. there \in Classifiable(b) /\ Position(b, there) = k
    BY <1>2
  <2>2. there = i /\ k \in 1 .. Cardinality(Classifiable(b))
    BY <1>2, <2>1, PositionInjective
  <2>3. Sent(b)[k] = b[there]
    BY <2>2 DEF Sent
  <2> QED BY <1>2, <2>2, <2>3 DEF Classifiable
<1> QED BY <1>1, <1>2

\* The rows of a batch, answered by deployment d.
RowOf(b, d, i) ==
  [about |-> IF b[i] \in Blank THEN None ELSE b[i], version |-> Version(d), profiles |-> None]

LEMMA ResultsAre ==
  ASSUME WorkerAssumption, NEW b \in Batches, NEW d
  PROVE  Results(b, d) = [i \in DOMAIN b |-> RowOf(b, d, i)]
BY AlignedIsBatch DEF Results, RowOf

-----------------------------------------------------------------------------
(* The lock *)

Holding(t) == at[t] \in {"init", "load"}
WarmedUp(t) == at[t] \notin {"setup", "lock", "init", "load"}

\* The lock is held by the thread that initialises; the factory is half loaded
\* only under it; and a thread that went on, or read the flag, left it loaded.
WarmUpInv ==
  /\ \A t \in Threads : Holding(t) <=> lock = t
  /\ factory = "loading" => \E t \in Threads : at[t] = "load"
  /\ \A t \in Threads : at[t] = "load" => factory = "loading"
  /\ ready => factory = "loaded"
  /\ \A t \in Threads : WarmedUp(t) => ready

\* The types of what a thread has for itself.
ThreadTypes ==
  /\ at \in [Threads -> {"setup", "lock", "init", "load", "idle", "predict",
                         "detect", "done", "failed"}]
  /\ batch \in [Threads -> Batches \cup {<<>>}]
  /\ tokens \in [Threads -> MinTokens .. MaxTokens]
  /\ attempt \in [Threads -> 1 .. TruncationAttempts]
  /\ try \in [Threads -> 1 .. MaxAttempts]
  /\ deployed \in [Threads -> Deployments \cup {None}]

ProfileTypes ==
  /\ factory \in {"none", "loading", "loaded"}
  /\ lock \in Threads \cup {None}
  /\ ready \in BOOLEAN

\* A thread's rows: none before an answer, those of one answer before and after
\* the languages are detected.
Unfilled(b, d) == [i \in DOMAIN b |-> RowOf(b, d, i)]
Filled(b, d) ==
  [i \in DOMAIN b |->
     [RowOf(b, d, i) EXCEPT !.profiles = IF b[i] \in Blank THEN None ELSE "loaded"]]

RowsOf(t) ==
  /\ at[t] \in {"predict", "detect", "done"} => batch[t] \in Batches
  /\ at[t] = "detect" => \E d \in Deployments \cup {None} : rows[t] = Unfilled(batch[t], d)
  /\ at[t] = "done" => \E d \in Deployments \cup {None} : rows[t] = Filled(batch[t], d)
  /\ at[t] \notin {"detect", "done"} => rows[t] = <<>>

\* The inductive invariant of the worker.
WorkerInv ==
  /\ ThreadTypes
  /\ ProfileTypes
  /\ WarmUpInv
  /\ rows = [t \in Threads |-> rows[t]]
  /\ \A t \in Threads : RowsOf(t)

LEMMA WorkerInvInit == ASSUME WorkerAssumption, Init PROVE WorkerInv
<1>1. ThreadTypes /\ ProfileTypes
  <2>1. /\ MaxTokens \in MinTokens .. MaxTokens /\ 1 \in 1 .. TruncationAttempts
        /\ 1 \in 1 .. MaxAttempts
    BY DEF WorkerAssumption
  <2> QED BY <2>1 DEF Init, ThreadTypes, ProfileTypes
<1>2. WarmUpInv
  BY DEF WorkerAssumption, Init, WarmUpInv, Holding, WarmedUp
<1> QED BY <1>1, <1>2 DEF Init, WorkerInv, RowsOf

\* Moving one thread.
LEMMA GoesTo ==
  ASSUME ThreadTypes, NEW t \in Threads, NEW from, NEW to, Goes(t, from, to)
  PROVE  /\ at[t] = from /\ at'[t] = to
         /\ \A u \in Threads : u # t => at'[u] = at[u]
         /\ DOMAIN at' = Threads
BY DEF Goes, ThreadTypes

\* Another thread's rows are as they were.
LEMMA OthersRows ==
  ASSUME NEW t \in Threads, NEW u \in Threads, RowsOf(u),
         at'[u] = at[u], batch'[u] = batch[u], rows'[u] = rows[u]
  PROVE  RowsOf(u)'
BY DEF RowsOf

-----------------------------------------------------------------------------
(* One lemma per action *)

LEMMA WarmUpStep ==
  ASSUME WorkerAssumption, WorkerInv, NEW t \in Threads, WarmUp(t)
  PROVE  WorkerInv'
<1>1. PICK from \in {"setup", "lock", "init", "load"},
           to \in {"lock", "init", "load", "idle"} : Goes(t, from, to)
  BY DEF WarmUp, CheckReady, AcquireLock, InitFactory, LoadProfiles, ReleaseLock
<1>2. /\ at[t] = from /\ at'[t] = to /\ DOMAIN at' = Threads
      /\ \A u \in Threads : u # t => at'[u] = at[u]
  BY <1>1, GoesTo DEF WorkerInv
<1>3. UNCHANGED <<batch, tokens, attempt, try, deployed, rows>>
  BY DEF WarmUp, CheckReady, AcquireLock, InitFactory, LoadProfiles, ReleaseLock, ladder
<1>4. ThreadTypes'
  BY <1>1, <1>3 DEF Goes, WorkerInv, ThreadTypes
<1>5. ProfileTypes'
  BY DEF WarmUp, CheckReady, AcquireLock, InitFactory, LoadProfiles, ReleaseLock, profiles,
         WorkerInv, ProfileTypes
<1>6. WarmUpInv'
  <2>1. None \notin Threads
    BY DEF WorkerAssumption
  <2>2. CASE CheckReady(t)
    <3>1. at[t] = "setup" /\ at'[t] = (IF ready THEN "idle" ELSE "lock")
          /\ UNCHANGED <<factory, lock, ready>>
      BY <2>2, GoesTo DEF CheckReady, WorkerInv, profiles
    <3> QED BY <1>2, <2>1, <3>1 DEF WorkerInv, WarmUpInv, Holding, WarmedUp
  <2>3. CASE AcquireLock(t)
    <3>1. at[t] = "lock" /\ at'[t] = "init" /\ lock = None /\ lock' = t
          /\ UNCHANGED <<factory, ready>>
      BY <2>3, GoesTo DEF AcquireLock, WorkerInv
    <3> QED BY <1>2, <2>1, <3>1 DEF WorkerInv, WarmUpInv, Holding, WarmedUp
  <2>4. CASE InitFactory(t)
    <3>1. at[t] = "init" /\ at'[t] = "load" /\ ~ready /\ factory' = "loading"
          /\ UNCHANGED <<lock, ready>>
      BY <2>4, GoesTo DEF InitFactory, WorkerInv
    <3> QED BY <1>2, <2>1, <3>1 DEF WorkerInv, WarmUpInv, Holding, WarmedUp
  <2>5. CASE LoadProfiles(t)
    <3>1. at[t] = "load" /\ at'[t] = "init" /\ factory' = "loaded" /\ UNCHANGED <<lock, ready>>
      BY <2>5, GoesTo DEF LoadProfiles, WorkerInv
    <3> QED BY <1>2, <2>1, <3>1 DEF WorkerInv, WarmUpInv, Holding, WarmedUp
  <2>6. CASE ReleaseLock(t)
    <3>1. at[t] = "init" /\ at'[t] = "idle" /\ (ready \/ factory # "none")
          /\ ready' = TRUE /\ lock' = None /\ UNCHANGED factory
      BY <2>6, GoesTo DEF ReleaseLock, WorkerInv
    <3>2. factory = "loaded"
      BY <3>1 DEF WorkerInv, WarmUpInv, Holding, ProfileTypes
    <3> QED BY <1>2, <2>1, <3>1, <3>2 DEF WorkerInv, WarmUpInv, Holding, WarmedUp
  <2> QED BY <2>2, <2>3, <2>4, <2>5, <2>6 DEF WarmUp
<1>7. ASSUME NEW u \in Threads PROVE RowsOf(u)'
  BY <1>2, <1>3 DEF WorkerInv, RowsOf
<1> QED BY <1>3, <1>4, <1>5, <1>6, <1>7 DEF WorkerInv

\* A thread that stays beyond the warm-up leaves the profiles alone.
LEMMA Beyond ==
  ASSUME WorkerInv, NEW t \in Threads, WarmedUp(t), UNCHANGED profiles,
         at'[t] \in {"idle", "predict", "detect", "done", "failed"},
         \A u \in Threads : u # t => at'[u] = at[u]
  PROVE  ProfileTypes' /\ WarmUpInv'
<1>1. UNCHANGED <<factory, lock, ready>>
  BY DEF profiles
<1> QED BY <1>1 DEF WorkerInv, ProfileTypes, WarmUpInv, Holding, WarmedUp

LEMMA StartStep ==
  ASSUME WorkerAssumption, WorkerInv, NEW t \in Threads, NEW b \in Batches, StartBatch(t, b)
  PROVE  WorkerInv'
<1>1. /\ at[t] \in {"idle", "done", "failed"}
      /\ batch' = [batch EXCEPT ![t] = b]
      /\ tokens' = [tokens EXCEPT ![t] = MaxTokens]
      /\ attempt' = [attempt EXCEPT ![t] = 1]
      /\ try' = [try EXCEPT ![t] = 1]
      /\ UNCHANGED profiles /\ UNCHANGED deployed
  BY DEF StartBatch
<1>2. \/ /\ at' = [at EXCEPT ![t] = "detect"]
         /\ rows' = [rows EXCEPT ![t] = Results(b, deployed[t])]
      \/ at' = [at EXCEPT ![t] = "predict"] /\ rows' = [rows EXCEPT ![t] = <<>>]
  BY DEF StartBatch
<1>3. ThreadTypes'
  <2>1. /\ MaxTokens \in MinTokens .. MaxTokens /\ 1 \in 1 .. TruncationAttempts
        /\ 1 \in 1 .. MaxAttempts
    BY DEF WorkerAssumption
  <2>2. batch' \in [Threads -> Batches \cup {<<>>}] /\ tokens' \in [Threads -> MinTokens .. MaxTokens]
    BY <1>1, <2>1 DEF WorkerInv, ThreadTypes
  <2>3. attempt' \in [Threads -> 1 .. TruncationAttempts] /\ try' \in [Threads -> 1 .. MaxAttempts]
    BY <1>1, <2>1 DEF WorkerInv, ThreadTypes
  <2> QED BY <1>1, <1>2, <2>2, <2>3 DEF WorkerInv, ThreadTypes
<1>4. /\ at'[t] \in {"detect", "predict"}
      /\ \A u \in Threads : u # t => at'[u] = at[u] /\ batch'[u] = batch[u] /\ rows'[u] = rows[u]
      /\ batch'[t] = b /\ rows' = [u \in Threads |-> rows'[u]]
  BY <1>1, <1>2 DEF WorkerInv, ThreadTypes
<1>5. ProfileTypes' /\ WarmUpInv'
  BY <1>1, <1>4, Beyond DEF WarmedUp
<1>6. RowsOf(t)'
  <2>1. deployed[t] \in Deployments \cup {None}
    BY DEF WorkerInv, ThreadTypes
  <2>2. Results(b, deployed[t]) = Unfilled(b, deployed[t])
    BY ResultsAre DEF Unfilled
  <2>3. \/ at'[t] = "detect" /\ rows'[t] = Unfilled(b, deployed[t])
        \/ at'[t] = "predict" /\ rows'[t] = <<>>
    BY <1>2, <2>2 DEF WorkerInv, ThreadTypes
  <2> QED BY <1>4, <2>1, <2>3 DEF RowsOf, Unfilled, RowOf, Version
<1>7. ASSUME NEW u \in Threads PROVE RowsOf(u)'
  BY <1>4, <1>6, OthersRows DEF WorkerInv
<1> QED BY <1>3, <1>4, <1>5, <1>7 DEF WorkerInv

\* Shortening a budget keeps it between the least and the first.
LEMMA HalvedType ==
  ASSUME WorkerAssumption, NEW n \in MinTokens .. MaxTokens
  PROVE  Halved(n) \in MinTokens .. MaxTokens
BY DEF Halved, WorkerAssumption

\* A call that brings no rows: the ladders and the deployment may change.
LEMMA CallStep ==
  ASSUME WorkerAssumption, WorkerInv, NEW t \in Threads,
         AnsweredWrongly(t) \/ FailsForNow(t) \/ TooLong(t)
  PROVE  WorkerInv'
<1>1. PICK to \in {"predict", "failed"} : Goes(t, "predict", to)
  BY DEF AnsweredWrongly, FailsForNow, TooLong
<1>2. /\ at[t] = "predict" /\ at'[t] = to /\ at' = [at EXCEPT ![t] = to]
      /\ \A u \in Threads : u # t => at'[u] = at[u]
  BY <1>1, GoesTo DEF WorkerInv, Goes
<1>3. UNCHANGED <<factory, lock, ready, batch, rows>> /\ UNCHANGED profiles
  BY DEF AnsweredWrongly, FailsForNow, TooLong, profiles
<1>4. tokens' \in [Threads -> MinTokens .. MaxTokens]
  <2>1. tokens[t] \in MinTokens .. MaxTokens
    BY DEF WorkerInv, ThreadTypes
  <2>2. Halved(tokens[t]) \in MinTokens .. MaxTokens
    BY <2>1, HalvedType
  <2>3. tokens' = tokens \/ tokens' = [tokens EXCEPT ![t] = Halved(tokens[t])]
    BY DEF AnsweredWrongly, FailsForNow, TooLong, ladder
  <2>4. tokens \in [Threads -> MinTokens .. MaxTokens]
    BY DEF WorkerInv, ThreadTypes
  <2> QED BY <2>2, <2>3, <2>4
<1>5. attempt' \in [Threads -> 1 .. TruncationAttempts]
  <2>1. attempt[t] \in 1 .. TruncationAttempts /\ TruncationAttempts \in Nat
    BY DEF WorkerInv, ThreadTypes, WorkerAssumption
  <2>2. \/ attempt' = attempt
        \/ attempt[t] # TruncationAttempts /\ attempt' = [attempt EXCEPT ![t] = attempt[t] + 1]
    BY DEF AnsweredWrongly, FailsForNow, TooLong, ladder
  <2>3. attempt \in [Threads -> 1 .. TruncationAttempts]
    BY DEF WorkerInv, ThreadTypes
  <2> QED BY <2>1, <2>2, <2>3
<1>6. try' \in [Threads -> 1 .. MaxAttempts]
  <2>1. try[t] \in 1 .. MaxAttempts /\ MaxAttempts \in Nat \ {0}
    BY DEF WorkerInv, ThreadTypes, WorkerAssumption
  <2>2. \/ try' = try \/ try' = [try EXCEPT ![t] = 1]
        \/ try[t] # MaxAttempts /\ try' = [try EXCEPT ![t] = try[t] + 1]
    BY DEF AnsweredWrongly, FailsForNow, TooLong, ladder
  <2>3. try \in [Threads -> 1 .. MaxAttempts]
    BY DEF WorkerInv, ThreadTypes
  <2> QED BY <2>1, <2>2, <2>3
<1>7. deployed' \in [Threads -> Deployments \cup {None}]
  BY DEF AnsweredWrongly, FailsForNow, TooLong, WorkerInv, ThreadTypes
<1>8. ThreadTypes'
  BY <1>2, <1>3, <1>4, <1>5, <1>6, <1>7 DEF WorkerInv, ThreadTypes
<1>9. ProfileTypes' /\ WarmUpInv'
  BY <1>2, <1>3, Beyond DEF WarmedUp
<1>10. ASSUME NEW u \in Threads PROVE RowsOf(u)'
  BY <1>2, <1>3 DEF WorkerInv, RowsOf
<1> QED BY <1>3, <1>8, <1>9, <1>10 DEF WorkerInv

LEMMA AnsweredStep ==
  ASSUME WorkerAssumption, WorkerInv, NEW t \in Threads, Answered(t)
  PROVE  WorkerInv'
<1>1. Goes(t, "predict", "detect")
  BY DEF Answered
<1>2. /\ at[t] = "predict" /\ at'[t] = "detect" /\ at' = [at EXCEPT ![t] = "detect"]
      /\ \A u \in Threads : u # t => at'[u] = at[u]
  BY <1>1, GoesTo DEF WorkerInv, Goes
<1>3. UNCHANGED profiles /\ UNCHANGED <<batch, tokens, attempt, try>>
  BY DEF Answered, ladder
<1>4. deployed' \in [Threads -> Deployments \cup {None}]
  BY DEF Answered, WorkerInv, ThreadTypes
<1>5. batch[t] \in Batches
  BY <1>2 DEF WorkerInv, RowsOf
<1>6. rows' = [rows EXCEPT ![t] = Unfilled(batch[t], deployed'[t])]
  BY <1>5, ResultsAre DEF Answered, Unfilled
<1>7. ThreadTypes'
  BY <1>2, <1>3, <1>4 DEF WorkerInv, ThreadTypes
<1>8. ProfileTypes' /\ WarmUpInv'
  BY <1>2, <1>3, Beyond DEF WarmedUp
<1>9. RowsOf(t)'
  <2>1. rows'[t] = Unfilled(batch[t], deployed'[t]) /\ deployed'[t] \in Deployments \cup {None}
    BY <1>4, <1>6 DEF WorkerInv
  <2> QED BY <1>2, <1>3, <1>5, <2>1 DEF RowsOf, Unfilled, RowOf, Version
<1>10. ASSUME NEW u \in Threads PROVE RowsOf(u)'
  <2>1. u # t => rows'[u] = rows[u]
    BY <1>6 DEF WorkerInv
  <2> QED BY <1>2, <1>3, <1>9, <2>1, OthersRows DEF WorkerInv
<1> QED BY <1>6, <1>7, <1>8, <1>10 DEF WorkerInv

LEMMA DetectStep ==
  ASSUME WorkerAssumption, WorkerInv, NEW t \in Threads, Detect(t)
  PROVE  WorkerInv'
<1>1. Goes(t, "detect", "done")
  BY DEF Detect
<1>2. /\ at[t] = "detect" /\ at'[t] = "done" /\ at' = [at EXCEPT ![t] = "done"]
      /\ \A u \in Threads : u # t => at'[u] = at[u]
  BY <1>1, GoesTo DEF WorkerInv, Goes
<1>3. UNCHANGED profiles /\ UNCHANGED <<batch, tokens, attempt, try, deployed>>
  BY DEF Detect, ladder
<1>4. factory = "loaded"
  BY <1>2 DEF WorkerInv, WarmUpInv, WarmedUp
<1>5. PICK d \in Deployments \cup {None} : rows[t] = Unfilled(batch[t], d)
  BY <1>2 DEF WorkerInv, RowsOf
<1>6. rows' = [rows EXCEPT ![t] = Filled(batch[t], d)]
  BY <1>4, <1>5 DEF Detect, Unfilled, Filled
<1>7. ThreadTypes'
  BY <1>2, <1>3 DEF WorkerInv, ThreadTypes
<1>8. ProfileTypes' /\ WarmUpInv'
  BY <1>2, <1>3, Beyond DEF WarmedUp
<1>9. RowsOf(t)'
  <2>1. rows'[t] = Filled(batch[t], d)
    BY <1>6 DEF WorkerInv
  <2>2. batch[t] \in Batches
    BY <1>2 DEF WorkerInv, RowsOf
  <2>3. rows'[t] = Filled(batch'[t], d)
    BY <1>3, <2>1
  <2>4. Filled(batch'[t], d) = Filled(batch[t], d)'
    BY DEF Filled, RowOf, Version
  <2> QED BY <1>2, <1>3, <2>2, <2>3, <2>4 DEF RowsOf
<1>10. ASSUME NEW u \in Threads PROVE RowsOf(u)'
  <2>1. u # t => rows'[u] = rows[u]
    BY <1>6 DEF WorkerInv
  <2> QED BY <1>2, <1>3, <1>9, <2>1, OthersRows DEF WorkerInv
<1> QED BY <1>6, <1>7, <1>8, <1>10 DEF WorkerInv

LEMMA WorkerInvStep ==
  ASSUME WorkerAssumption, WorkerInv, [Next]_vars PROVE WorkerInv'
<1>1. CASE UNCHANGED vars
  BY <1>1 DEF vars, profiles, ladder, WorkerInv, ThreadTypes, ProfileTypes, WarmUpInv,
              Holding, WarmedUp, RowsOf
<1> QED BY <1>1, WarmUpStep, StartStep, CallStep, AnsweredStep, DetectStep
        DEF Next, Step, Predict

-----------------------------------------------------------------------------
(* The budgets *)

\* A set of numbers has a least one, so that a least counterexample can be taken.
LEMMA LeastNumber ==
  ASSUME NEW T, T \subseteq Nat, T # {}
  PROVE  \E x \in T : \A y \in T : x <= y
<1>1. PICK x \in T : \A y \in T : ~ (<<y, x>> \in OpToRel(<, Nat))
  BY NatLessThanWellFounded, WFMin
<1>2. \A y \in T : ~ (y < x)
  BY <1>1 DEF OpToRel
<1> QED BY <1>2

\* Induction along a range.
LEMMA Along ==
  ASSUME NEW n \in Nat, NEW good, 1 \in good, \A k \in 1 .. n - 1 : k \in good => k + 1 \in good
  PROVE  1 .. n \subseteq good
<1> DEFINE bad == {k \in 1 .. n : k \notin good}
<1> SUFFICES ASSUME bad # {} PROVE FALSE
  OBVIOUS
<1>1. PICK k \in bad : \A j \in bad : k <= j
  <2>1. bad \subseteq Nat
    OBVIOUS
  <2> HIDE DEF bad
  <2> QED BY <2>1, LeastNumber
<1>2. k \in 2 .. n /\ k \notin good
  BY <1>1
<1>3. k - 1 \in 1 .. n - 1 /\ k - 1 \notin bad
  BY <1>1, <1>2
<1>4. k - 1 \in good /\ k - 1 + 1 = k
  BY <1>2, <1>3
<1> QED BY <1>2, <1>3, <1>4

\* A budget is the one before it, halved; its equation at k.
IsBudget(f, k) == f[k] = IF k = 1 THEN MaxTokens ELSE Halved(f[k - 1])

LEMMA BudgetsAre ==
  ASSUME WorkerAssumption
  PROVE  /\ Budgets \in [1 .. TruncationAttempts -> MinTokens .. MaxTokens]
         /\ \A k \in 1 .. TruncationAttempts : IsBudget(Budgets, k)
<1> DEFINE n == TruncationAttempts
           lengths == MinTokens .. MaxTokens
           Ladder(f) == f = [k \in 1 .. n |-> IF k = 1 THEN MaxTokens ELSE Halved(f[k - 1])]
           good == {m \in Nat : \E f \in [1 .. n -> lengths] :
                                  \A k \in 1 .. n : k <= m => IsBudget(f, k)}
<1>1. n \in Nat \ {0} /\ MaxTokens \in lengths
  BY DEF WorkerAssumption
<1>2. \A x \in lengths : Halved(x) \in lengths
  BY HalvedType
<1> HIDE DEF n, lengths
<1>3. 1 \in good
  <2> DEFINE f == [k \in 1 .. n |-> MaxTokens]
  <2>1. f \in [1 .. n -> lengths]
    BY <1>1
  <2>2. \A k \in 1 .. n : k <= 1 => IsBudget(f, k)
    BY <1>1 DEF IsBudget
  <2> HIDE DEF f
  <2> QED BY <2>1, <2>2
<1>4. ASSUME NEW m \in 1 .. n - 1, m \in good PROVE m + 1 \in good
  <2>1. PICK f \in [1 .. n -> lengths] : \A k \in 1 .. n : k <= m => IsBudget(f, k)
    BY <1>4
  <2> DEFINE g == [f EXCEPT ![m + 1] = Halved(f[m])]
  <2>2. m \in 1 .. n /\ m + 1 \in 1 .. n /\ m + 1 # 1 /\ m + 1 - 1 = m /\ m \in Nat
    BY <1>1
  <2>3. g \in [1 .. n -> lengths]
    BY <1>2, <2>2
  <2>4. ASSUME NEW k \in 1 .. n, k <= m + 1 PROVE IsBudget(g, k)
    <3>1. CASE k = m + 1
      <4>1. g[k] = Halved(f[m]) /\ g[k - 1] = f[m]
        BY <2>2, <3>1
      <4> HIDE DEF g
      <4> QED BY <2>2, <3>1, <4>1 DEF IsBudget
    <3>2. CASE k # m + 1
      <4>1. k <= m
        BY <1>1, <2>2, <2>4, <3>2
      <4>2. IsBudget(f, k)
        BY <2>1, <4>1
      <4>3. g[k] = f[k] /\ (k # 1 => g[k - 1] = f[k - 1])
        BY <1>1, <2>2, <4>1
      <4> HIDE DEF g
      <4> QED BY <4>2, <4>3 DEF IsBudget
    <3> QED BY <3>1, <3>2
  <2> HIDE DEF g
  <2> QED BY <2>2, <2>3, <2>4
<1>5. PICK f \in [1 .. n -> lengths] : \A k \in 1 .. n : IsBudget(f, k)
  <2> HIDE DEF good
  <2>1. 1 .. n \subseteq good
    BY <1>1, <1>3, <1>4, Along
  <2>2. n \in good
    BY <1>1, <2>1
  <2> QED BY <1>1, <2>2 DEF good
<1>6. Ladder(f)
  BY <1>5 DEF IsBudget
<1>7. Budgets = CHOOSE h : Ladder(h)
  BY DEF Budgets, n
<1>8. Ladder(Budgets)
  BY <1>6, <1>7
<1> HIDE DEF good
<1>9. \A k \in 1 .. n : IsBudget(Budgets, k)
  BY <1>8 DEF IsBudget
<1>10. 1 .. n \subseteq {k \in 1 .. n : Budgets[k] \in lengths}
  <2> DEFINE typed == {k \in 1 .. n : Budgets[k] \in lengths}
  <2>1. 1 \in typed
    BY <1>1, <1>9 DEF IsBudget
  <2>2. ASSUME NEW k \in 1 .. n - 1, k \in typed PROVE k + 1 \in typed
    <3>1. k + 1 \in 1 .. n /\ k + 1 # 1 /\ k + 1 - 1 = k
      BY <1>1
    <3>2. Budgets[k + 1] = Halved(Budgets[k]) /\ Budgets[k] \in lengths
      BY <1>9, <2>2, <3>1 DEF IsBudget
    <3> QED BY <1>2, <3>1, <3>2
  <2> HIDE DEF typed
  <2>3. 1 .. n \subseteq typed
    BY <1>1, <2>1, <2>2, Along
  <2> QED BY <2>3 DEF typed
<1>11. Budgets \in [1 .. n -> lengths]
  <2>1. Budgets = [k \in 1 .. n |-> Budgets[k]]
    BY <1>8
  <2> QED BY <1>10, <2>1
<1> QED BY <1>9, <1>11 DEF n, lengths

\* The last budget is the least.
LEMMA LastBudget ==
  ASSUME WorkerAssumption, NEW k \in 1 .. TruncationAttempts
  PROVE  Budgets[TruncationAttempts] <= Budgets[k]
<1> DEFINE n == TruncationAttempts
           good == {d \in 1 .. n : Budgets[n] <= Budgets[n + 1 - d]}
<1>1. n \in Nat \ {0}
  BY DEF WorkerAssumption
<1>2. \A j \in 1 .. n : Budgets[j] \in MinTokens .. MaxTokens /\ Budgets[j] \in Nat
  BY BudgetsAre DEF WorkerAssumption
<1>3. 1 \in good
  BY <1>1, <1>2
<1>4. ASSUME NEW d \in 1 .. n - 1, d \in good PROVE d + 1 \in good
  <2> DEFINE j == n + 1 - d
  <2>1. j \in 2 .. n /\ j - 1 \in 1 .. n /\ n + 1 - (d + 1) = j - 1 /\ d + 1 \in 1 .. n
        /\ j \in 1 .. n /\ j # 1
    BY <1>1
  <2>2. Budgets[j] = Halved(Budgets[j - 1])
    BY <2>1, BudgetsAre DEF IsBudget
  <2>3. Halved(Budgets[j - 1]) <= Budgets[j - 1]
    <3>1. Budgets[j - 1] \in MinTokens .. MaxTokens
      BY <1>2, <2>1
    <3> QED BY <3>1 DEF Halved, WorkerAssumption
  <2>4. Budgets[n] <= Budgets[j]
    BY <1>4
  <2>5. Budgets[n] \in Nat /\ Budgets[j] \in Nat /\ Budgets[j - 1] \in Nat
    BY <1>1, <1>2, <2>1
  <2> HIDE DEF j
  <2>6. Budgets[n] <= Budgets[j - 1]
    BY <2>2, <2>3, <2>4, <2>5
  <2> QED BY <2>1, <2>6
<1> HIDE DEF good
<1>5. 1 .. n \subseteq good
  BY <1>1, <1>3, <1>4, Along
<1>6. n + 1 - k \in good
  BY <1>1, <1>5
<1>7. n + 1 - (n + 1 - k) = k
  BY <1>1
<1> QED BY <1>6, <1>7 DEF good

LEMMA FirstBudget == ASSUME WorkerAssumption PROVE Budgets[1] = MaxTokens
<1>1. 1 \in 1 .. TruncationAttempts
  BY DEF WorkerAssumption
<1>2. IsBudget(Budgets, 1)
  BY <1>1, BudgetsAre
<1> QED BY <1>2 DEF IsBudget

\* A thread is at the budget of its try, and what was answered was accepted.
LadderInv ==
  \A t \in Threads :
    /\ tokens[t] = Budgets[attempt[t]]
    /\ at[t] \in {"detect", "done"} => Accepted(t)

LEMMA LadderInit == ASSUME WorkerAssumption, Init PROVE LadderInv
BY FirstBudget DEF Init, LadderInv

\* What another thread does, and what this one does that leaves its ladder alone.
LEMMA LadderKept ==
  ASSUME LadderInv, NEW u \in Threads,
         tokens'[u] = tokens[u], attempt'[u] = attempt[u], batch'[u] = batch[u],
         at'[u] \in {"detect", "done"} => at[u] \in {"detect", "done"}
  PROVE  /\ tokens'[u] = Budgets[attempt'[u]]
         /\ at'[u] \in {"detect", "done"} => Accepted(u)'
BY DEF LadderInv, Accepted

LEMMA LadderStep ==
  ASSUME WorkerAssumption, WorkerInv, LadderInv, [Next]_vars PROVE LadderInv'
<1> SUFFICES ASSUME NEW u \in Threads
             PROVE  /\ tokens'[u] = Budgets[attempt'[u]]
                    /\ at'[u] \in {"detect", "done"} => Accepted(u)'
  BY DEF LadderInv
<1>1. CASE UNCHANGED vars
  BY <1>1, LadderKept DEF vars, ladder
<1>2. ASSUME NEW t \in Threads, WarmUp(t) \/ AnsweredWrongly(t) \/ FailsForNow(t) \/ Detect(t)
      PROVE  /\ tokens'[u] = Budgets[attempt'[u]]
             /\ at'[u] \in {"detect", "done"} => Accepted(u)'
  <2>1. UNCHANGED <<tokens, attempt, batch>>
    BY <1>2 DEF WarmUp, CheckReady, AcquireLock, InitFactory, LoadProfiles, ReleaseLock,
                AnsweredWrongly, FailsForNow, Detect, ladder
  <2>2. at'[u] \in {"detect", "done"} => at[u] \in {"detect", "done"}
    BY <1>2 DEF WarmUp, CheckReady, AcquireLock, InitFactory, LoadProfiles, ReleaseLock,
                AnsweredWrongly, FailsForNow, Detect, Goes, WorkerInv, ThreadTypes
  <2> QED BY <2>1, <2>2, LadderKept
<1>3. ASSUME NEW t \in Threads, Answered(t)
      PROVE  /\ tokens'[u] = Budgets[attempt'[u]]
             /\ at'[u] \in {"detect", "done"} => Accepted(u)'
  <2>1. UNCHANGED <<tokens, attempt, batch>> /\ Accepted(t)
        /\ at' = [at EXCEPT ![t] = "detect"]
    BY <1>3 DEF Answered, ladder, Goes
  <2>2. CASE u = t
    BY <2>1, <2>2 DEF LadderInv, Accepted
  <2>3. CASE u # t
    BY <2>1, <2>3, LadderKept DEF WorkerInv, ThreadTypes
  <2> QED BY <2>2, <2>3
<1>4. ASSUME NEW t \in Threads, TooLong(t)
      PROVE  /\ tokens'[u] = Budgets[attempt'[u]]
             /\ at'[u] \in {"detect", "done"} => Accepted(u)'
  <2>1. /\ UNCHANGED batch
        /\ \E to \in {"predict", "failed"} : at' = [at EXCEPT ![t] = to]
        /\ \/ UNCHANGED <<tokens, attempt>>
           \/ /\ attempt[t] # TruncationAttempts
              /\ attempt' = [attempt EXCEPT ![t] = attempt[t] + 1]
              /\ tokens' = [tokens EXCEPT ![t] = Halved(tokens[t])]
    BY <1>4 DEF TooLong, Goes, ladder
  <2>2. at'[u] \in {"detect", "done"} => u # t /\ at[u] \in {"detect", "done"}
    BY <2>1 DEF WorkerInv, ThreadTypes
  <2>3. CASE u # t \/ UNCHANGED <<tokens, attempt>>
    BY <2>1, <2>2, <2>3, LadderKept DEF WorkerInv, ThreadTypes
  <2>4. CASE u = t /\ ~ UNCHANGED <<tokens, attempt>>
    <3>1. /\ attempt[t] \in 1 .. TruncationAttempts /\ attempt[t] # TruncationAttempts
          /\ attempt'[t] = attempt[t] + 1 /\ tokens'[t] = Halved(tokens[t])
      BY <2>1, <2>4 DEF WorkerInv, ThreadTypes
    <3>2. attempt'[t] \in 1 .. TruncationAttempts /\ attempt'[t] # 1
          /\ attempt'[t] - 1 = attempt[t]
      BY <3>1 DEF WorkerAssumption
    <3>3. Budgets[attempt'[t]] = Halved(Budgets[attempt[t]])
      BY <3>2, BudgetsAre DEF IsBudget
    <3> QED BY <2>2, <2>4, <3>1, <3>3 DEF LadderInv
  <2> QED BY <2>3, <2>4
<1>5. ASSUME NEW t \in Threads, NEW b \in Batches, StartBatch(t, b)
      PROVE  /\ tokens'[u] = Budgets[attempt'[u]]
             /\ at'[u] \in {"detect", "done"} => Accepted(u)'
  <2>1. /\ batch' = [batch EXCEPT ![t] = b]
        /\ tokens' = [tokens EXCEPT ![t] = MaxTokens]
        /\ attempt' = [attempt EXCEPT ![t] = 1]
        /\ at' = [at EXCEPT ![t] = IF Classifiable(b) = {} THEN "detect" ELSE "predict"]
    BY <1>5 DEF StartBatch
  <2>2. CASE u = t
    <3>1. batch'[t] = b /\ tokens'[t] = MaxTokens /\ attempt'[t] = 1
          /\ (at'[t] \in {"detect", "done"} => Classifiable(b) = {})
      BY <2>1 DEF WorkerInv, ThreadTypes
    <3> QED BY <2>2, <3>1, FirstBudget DEF Accepted, Classifiable
  <2>3. CASE u # t
    BY <2>1, <2>3, LadderKept DEF WorkerInv, ThreadTypes
  <2> QED BY <2>2, <2>3
<1> QED BY <1>1, <1>2, <1>3, <1>4, <1>5 DEF Next, Step, Predict

-----------------------------------------------------------------------------
(* Theorems *)

\* Every state of the worker satisfies the invariant.
THEOREM WorkerInvariant == Spec => []WorkerInv
<1>1. Init => WorkerInv
  BY WorkerInvInit, WorkerAssumption
<1>2. WorkerInv /\ [Next]_vars => WorkerInv'
  BY WorkerInvStep, WorkerAssumption
<1> QED BY <1>1, <1>2, PTL DEF Spec

\* Every state of the worker is well typed; in particular neither ladder goes
\* beyond its attempts and no budget below the least.
THEOREM WorkerTypeCorrect == Spec => []TypeOK
<1>1. WorkerInv => TypeOK
  <2> SUFFICES ASSUME WorkerInv PROVE TypeOK
    OBVIOUS
  <2> DEFINE Row == [about : Texts \cup {None}, version : Deployments \cup {Endpoint},
                     profiles : {"none", "loading", "loaded", None}]
  <2>1. ASSUME NEW t \in Threads PROVE rows[t] \in Seq(Row)
    <3>1. CASE at[t] \notin {"detect", "done"}
      <4>1. rows[t] = <<>>
        BY <3>1 DEF WorkerInv, RowsOf
      <4> QED BY <4>1
    <3>2. CASE at[t] \in {"detect", "done"}
      <4>1. batch[t] \in Batches
        BY <3>2 DEF WorkerInv, RowsOf
      <4>2. PICK d \in Deployments \cup {None} :
              rows[t] = Unfilled(batch[t], d) \/ rows[t] = Filled(batch[t], d)
        BY <3>2 DEF WorkerInv, RowsOf
      <4>3. /\ Len(batch[t]) \in Nat /\ DOMAIN batch[t] = 1 .. Len(batch[t])
            /\ \A i \in DOMAIN batch[t] : batch[t][i] \in Texts
        BY <4>1, BatchFacts, WorkerAssumption
      <4>4. Version(d) \in Deployments \cup {Endpoint}
        BY DEF Version
      <4>5. \A i \in DOMAIN batch[t] : rows[t][i] \in Row
        BY <4>2, <4>3, <4>4 DEF Unfilled, Filled, RowOf
      <4>6. rows[t] = [i \in 1 .. Len(batch[t]) |-> rows[t][i]]
        BY <4>2, <4>3 DEF Unfilled, Filled
      <4>7. rows[t] \in [1 .. Len(batch[t]) -> Row]
        BY <4>3, <4>5, <4>6
      <4> QED BY <4>3, <4>7, ToSeq
    <3> QED BY <3>1, <3>2
  <2>2. rows \in [Threads -> Seq(Row)]
    <3>1. rows = [t \in Threads |-> rows[t]]
      BY DEF WorkerInv
    <3> QED BY <2>1, <3>1, Zenon
  <2> QED BY <2>2 DEF WorkerInv, ThreadTypes, ProfileTypes, TypeOK
<1> QED BY <1>1, WorkerInvariant, PTL

\* What a thread's rows are, whenever it has some.
LEMMA RowsAre ==
  ASSUME WorkerInv, NEW t \in Threads
  PROVE  \/ rows[t] = <<>> /\ at[t] \notin {"detect", "done"}
         \/ \E d : rows[t] = Unfilled(batch[t], d) /\ at[t] = "detect"
         \/ \E d : rows[t] = Filled(batch[t], d) /\ at[t] = "done"
BY DEF WorkerInv, RowsOf

\* The fields of a row, before and after its language is detected.
LEMMA RowFields ==
  ASSUME NEW b, NEW d, NEW i \in DOMAIN b
  PROVE  /\ DOMAIN Unfilled(b, d) = DOMAIN b /\ DOMAIN Filled(b, d) = DOMAIN b
         /\ Unfilled(b, d)[i].version = Version(d) /\ Filled(b, d)[i].version = Version(d)
         /\ Filled(b, d)[i].about = IF b[i] \in Blank THEN None ELSE b[i]
         /\ Unfilled(b, d)[i].profiles = None
         /\ Filled(b, d)[i].profiles \in {None, "loaded"}
BY DEF Unfilled, Filled, RowOf

\* "One result per input, in the same order" (classifier.py:426).
THEOREM RowsOfTheirBatch == Spec => []RowsMatchBatch
<1>1. WorkerInv => RowsMatchBatch
  <2> SUFFICES ASSUME WorkerInv, NEW t \in Threads, at[t] = "done"
               PROVE  /\ DOMAIN rows[t] = DOMAIN batch[t]
                      /\ \A i \in DOMAIN batch[t] :
                           rows[t][i].about = IF batch[t][i] \in Blank THEN None
                                              ELSE batch[t][i]
    BY DEF RowsMatchBatch
  <2>1. PICK d : rows[t] = Filled(batch[t], d)
    BY RowsAre
  <2>2. DOMAIN rows[t] = DOMAIN batch[t]
    BY <2>1 DEF Filled
  <2> QED BY <2>1, <2>2, RowFields
<1> QED BY <1>1, WorkerInvariant, PTL

\* The rows of a batch name one version.
THEOREM OneVersionPerBatch == Spec => []OneVersion
<1>1. WorkerInv => OneVersion
  <2> SUFFICES ASSUME WorkerInv, NEW t \in Threads,
                      NEW i \in DOMAIN rows[t], NEW j \in DOMAIN rows[t]
               PROVE  rows[t][i].version = rows[t][j].version
    BY DEF OneVersion
  <2>1. CASE rows[t] = <<>>
    BY <2>1
  <2>2. ASSUME NEW d, rows[t] = Unfilled(batch[t], d) \/ rows[t] = Filled(batch[t], d)
        PROVE  rows[t][i].version = rows[t][j].version
    <3>1. i \in DOMAIN batch[t] /\ j \in DOMAIN batch[t]
      BY <2>2 DEF Unfilled, Filled
    <3> QED BY <2>2, <3>1, RowFields
  <2> QED BY <2>1, <2>2, RowsAre
<1> QED BY <1>1, WorkerInvariant, PTL

\* "Serialising the first initialisation removes the race" (transforms.py:205).
THEOREM ProfilesComplete == Spec => []FullProfiles
<1>1. WorkerInv => FullProfiles
  <2> SUFFICES ASSUME WorkerInv, NEW t \in Threads, NEW i \in DOMAIN rows[t]
               PROVE  rows[t][i].profiles \in {None, "loaded"}
    BY DEF FullProfiles
  <2>1. CASE rows[t] = <<>>
    BY <2>1
  <2>2. ASSUME NEW d, rows[t] = Unfilled(batch[t], d) \/ rows[t] = Filled(batch[t], d)
        PROVE  rows[t][i].profiles \in {None, "loaded"}
    <3>1. i \in DOMAIN batch[t]
      BY <2>2 DEF Unfilled, Filled
    <3> QED BY <2>2, <3>1, RowFields
  <2> QED BY <2>1, <2>2, RowsAre
<1> QED BY <1>1, WorkerInvariant, PTL

\* Every thread is at the budget of its try.
THEOREM LadderInvariant == Spec => []LadderInv
<1>1. Init => LadderInv
  BY LadderInit, WorkerAssumption
<1>2. WorkerInv /\ LadderInv /\ [Next]_vars => LadderInv'
  BY LadderStep, WorkerAssumption
<1> QED BY <1>1, <1>2, WorkerInvariant, PTL DEF Spec

\* "a rejection is met by halving it and trying again rather than by failing the
\* bundle" (classifier.py:482): a batch fails for its length only with a text that
\* the last budget does not help, and with such a text it is never answered.
THEOREM BudgetsDecide == Spec => LadderDecides
<1>1. ASSUME WorkerInv, LadderInv, NEW t \in Threads
      PROVE  /\ at[t] \in {"detect", "done"} =>
                  \A i \in DOMAIN batch[t] : ~Hopeless(batch[t][i])
             /\ TooLong(t) /\ at'[t] = "failed" =>
                  \E i \in DOMAIN batch[t] : Hopeless(batch[t][i])
  <2> DEFINE last == Budgets[TruncationAttempts]
  <2>1. attempt[t] \in 1 .. TruncationAttempts /\ tokens[t] = Budgets[attempt[t]]
    BY <1>1 DEF WorkerInv, ThreadTypes, LadderInv
  <2>2. last <= tokens[t]
    BY <2>1, LastBudget, WorkerAssumption
  <2>3. last \in Nat /\ tokens[t] \in Nat
    BY <2>1, BudgetsAre, WorkerAssumption DEF WorkerAssumption
  <2>4. \A i \in DOMAIN batch[t] : batch[t][i] \in Texts
    BY <1>1, WorkerAssumption DEF WorkerInv, ThreadTypes, WorkerAssumption
  <2>5. \A i \in DOMAIN batch[t] : Fits[batch[t][i]] \in Nat
    BY <2>4, WorkerAssumption DEF WorkerAssumption
  <2>6. ASSUME at[t] \in {"detect", "done"}, NEW i \in DOMAIN batch[t]
        PROVE  ~Hopeless(batch[t][i])
    <3>1. i \in Classifiable(batch[t]) => tokens[t] <= Fits[batch[t][i]]
      BY <1>1, <2>6 DEF LadderInv, Accepted
    <3> QED BY <2>2, <2>3, <2>5, <3>1 DEF Hopeless, Classifiable
  <2>7. ASSUME TooLong(t), at'[t] = "failed"
        PROVE  \E i \in DOMAIN batch[t] : Hopeless(batch[t][i])
    <3>1. attempt[t] = TruncationAttempts /\ ~Accepted(t)
      BY <1>1, <2>7 DEF TooLong, Goes, WorkerInv, ThreadTypes
    <3>2. PICK i \in Classifiable(batch[t]) : ~(tokens[t] <= Fits[batch[t][i]])
      BY <3>1 DEF Accepted
    <3>3. i \in DOMAIN batch[t] /\ batch[t][i] \notin Blank
      BY DEF Classifiable
    <3> QED BY <2>1, <2>3, <2>5, <3>1, <3>2, <3>3 DEF Hopeless
  <2> QED BY <2>6, <2>7
<1>2. WorkerInv /\ LadderInv =>
        \A t \in Threads : at[t] \in {"detect", "done"} =>
          \A i \in DOMAIN batch[t] : ~Hopeless(batch[t][i])
  BY <1>1
<1>3. WorkerInv /\ LadderInv /\ [Next]_vars =>
        [\A t \in Threads : TooLong(t) /\ at'[t] = "failed" =>
          \E i \in DOMAIN batch[t] : Hopeless(batch[t][i])]_vars
  BY <1>1
<1> QED BY <1>2, <1>3, WorkerInvariant, LadderInvariant, PTL DEF Spec, LadderDecides
=============================================================================
