---------------------------- MODULE TrainingCorpus ----------------------------
(***************************************************************************)
(* How one run of the fine-tuning program puts its examples together       *)
(* (nlp/training/loaders.py and train.py up to the trainer): the public    *)
(* corpora are scanned, sampled down and concatenated, the own-domain rows *)
(* repeated, and the pool divided into training and evaluation.            *)
(*                                                                         *)
(* A corpus is what the properties need of it: how many rows of each label *)
(* it has. Only the clapAI reservoirs hold rows, by their position in the  *)
(* scanned stream. The public data sets are external and may hold          *)
(* anything; what a seeded generator draws is any draw it could make.      *)
(***************************************************************************)
EXTENDS Integers, FiniteSets, FiniteSetsExt, Sequences, SequencesExt

CONSTANTS
  Labels,          \* the classes
  Languages,       \* the languages clapAI rows come in
  Cap,             \* Cap[l]: rows kept per class of language l; 0 for the others
  MaxStream,       \* bound: rows of the clapAI stream
  Configs,         \* TWEET_SENTIMENT_ML_CONFIGS
  ConfigRows,      \* rows a config has of each label
  Corpora,         \* Corpora[p]: what the public data set behind part p may hold
  TwitterTarget,   \* TWITTER_TARGET
  Arguments        \* the command lines

Zero == [l \in Labels |-> 0]
Plus(a, b) == [l \in Labels |-> a[l] + b[l]]
Times(k, a) == [l \in Labels |-> k * a[l]]
Total(a) == MapThenSumSet(LAMBDA l : a[l], Labels)
Least(S) == CHOOSE x \in S : \A y \in S : x <= y

Part == {"clapai", "tweet_ml", "tweet_eval", "sentiment140", "goemotions", "sst2", "own"}

ASSUME CorpusAssumption ==
  /\ IsFiniteSet(Labels) /\ Labels # {} /\ IsFiniteSet(Configs)
  /\ Cap \in [Languages -> Nat]
  /\ {MaxStream, ConfigRows, TwitterTarget} \subseteq Nat
  /\ \A p \in {"tweet_eval", "sentiment140", "goemotions", "sst2"} :
       Corpora[p] \subseteq [Labels -> Nat]
  /\ \A a \in Arguments :
       /\ a.parts \subseteq Part
       /\ {a.initFrom, a.devFromGold} \subseteq BOOLEAN
       /\ a.gold \in [Labels -> Nat] /\ a.dev \in [Labels -> Nat]
       /\ {a.factor, a.replayN, a.tweetTarget, a.goTarget} \subseteq Nat

VARIABLES
  args,     \* the command line, with what the gold file holds
  todo,     \* the parts of the mix not yet loaded
  scanned,  \* rows of the clapAI stream read so far
  seen,     \* rows offered to each reservoir, by language and label
  buckets,  \* the reservoirs
  sample,   \* the subsample drawn in the last step: from what, how many, which
  mix,      \* the corpus loaded so far
  pool,     \* the training pool
  split,    \* the examples to train on and to evaluate on
  pc        \* "load", "split", "done" or "failed"

reservoirs == <<scanned, seen, buckets>>
vars == <<args, todo, reservoirs, sample, mix, pool, split, pc>>

Keys == {l \in Languages : Cap[l] > 0} \X Labels
NoReservoirs ==
  /\ scanned' = 0
  /\ seen' = [k \in Keys |-> 0]
  /\ buckets' = [k \in Keys |-> <<>>]
NoSample == [from |-> Zero, n |-> 0, drawn |-> Zero]

-----------------------------------------------------------------------------
\* int(round(a / b)): halves go to the even neighbour.
Rounded(a, b) ==
  LET q == a \div b
      r == 2 * (a % b)
  IN IF r > b \/ (r = b /\ q % 2 = 1) THEN q + 1 ELSE q

\* Mutant: shares are cut off instead of rounded.
AllocatedTruncated(from, n, order) ==
  LET allocated[i \in 0 .. Len(order)] ==
        IF i = 0 THEN 0
        ELSE allocated[i - 1] +
               Least({from[order[i]], n - allocated[i - 1]} \cup
                       IF i = Len(order) THEN {} ELSE {(n * from[order[i]]) \div Total(from)})
  IN allocated

\* subsample_rows, the loop: the rows taken of the first i labels together, in
\* the order in which the labels first occur.
Allocated(from, n, order) ==
  LET allocated[i \in 0 .. Len(order)] ==
        IF i = 0 THEN 0
        ELSE allocated[i - 1] +
               Least({from[order[i]], n - allocated[i - 1]} \cup
                       IF i = Len(order) THEN {} ELSE {Rounded(n * from[order[i]], Total(from))})
  IN allocated

\* The loop's sample and the random leftovers that fill it up to n rows.
Proportional(from, n, order) ==
  LET allocated == Allocated(from, n, order)
  IN {c \in [Labels -> 0 .. n] :
        /\ Total(c) = n
        /\ \A l \in Labels : c[l] <= from[l]
        /\ \A i \in DOMAIN order : allocated[i] - allocated[i - 1] <= c[order[i]]}

\* subsample_rows: n rows in the proportions of the labels.
Subsample(from, n) ==
  IF n >= Total(from) THEN {from}
  ELSE IF n = 0 THEN {Zero}
  ELSE UNION {Proportional(from, n, order) : order \in SetToSeqs({l \in Labels : from[l] > 0})}

\* A plain random sample of n rows, as load_sentiment140_sample draws it.
PlainSample(from, n) ==
  IF n >= Total(from) THEN {from}
  ELSE {c \in [Labels -> 0 .. n] : Total(c) = n /\ \A l \in Labels : c[l] <= from[l]}

\* oversample_rows.
Oversample(rows, factor) == IF factor <= 1 THEN rows ELSE Times(factor, rows)

\* Mutant: a class with few rows gives none to evaluation.
TestRowsRounded(size) == Rounded(size, 10)

\* stratified_indices: how many of size rows of a class are held out.
TestRows(size) ==
  LET tenth == Rounded(size, 10)
      some == IF tenth = 0 /\ size > 1 THEN 1 ELSE tenth
  IN IF some >= size THEN size - 1 ELSE some

-----------------------------------------------------------------------------
Enabled(part) == todo # <<>> /\ Head(todo) = part

Loaded(rows) ==
  /\ mix' = Plus(mix, rows)
  /\ todo' = Tail(todo)
  /\ UNCHANGED <<args, pool, split, pc>>

\* Mutant: a row that draws the slot behind the last one is added.
ReservoirGrows(bucket, cap, count, row) ==
  IF Len(bucket) < cap THEN {Append(bucket, row)}
  ELSE {bucket} \cup {[bucket EXCEPT ![k] = row] : k \in 1 .. cap} \cup {Append(bucket, row)}

\* _reservoir_add: the bucket fills up to its cap; then row number count
\* takes the place it draws out of count, if there is one.
ReservoirAdd(bucket, cap, count, row) ==
  IF Len(bucket) < cap THEN {Append(bucket, row)}
  ELSE {bucket} \cup {[bucket EXCEPT ![k] = row] : k \in 1 .. Least({cap, count})}

\* load_clapai_sample, one row: rows of other languages, too long, empty or
\* without a label the mapping knows are passed over.
ScanClapai ==
  /\ Enabled("clapai") /\ scanned < MaxStream
  /\ scanned' = scanned + 1
  /\ \/ UNCHANGED <<seen, buckets>>
     \/ \E key \in Keys :
          /\ seen' = [seen EXCEPT ![key] = @ + 1]
          /\ \E b \in ReservoirAdd(buckets[key], Cap[key[1]], seen[key] + 1, scanned + 1) :
               buckets' = [buckets EXCEPT ![key] = b]
  /\ UNCHANGED <<args, todo, sample, mix, pool, split, pc>>

\* load_clapai_sample, the end of the stream: the reservoirs are the part.
LoadClapai ==
  /\ Enabled("clapai")
  /\ Loaded([l \in Labels |->
       Cardinality(UNION {ToSet(buckets[k]) : k \in {x \in Keys : x[2] = l}})])
  /\ NoReservoirs
  /\ UNCHANGED sample

\* load_tweet_sentiment_multilingual: configs that fail to load are skipped.
LoadTweetMl ==
  /\ Enabled("tweet_ml")
  /\ \E loaded \in SUBSET Configs :
       Loaded([l \in Labels |-> ConfigRows * Cardinality(loaded)])
  /\ sample' = NoSample
  /\ UNCHANGED reservoirs

\* load_v2_corpus, a part that is sampled down to its target.
LoadSubsampled(part, target) ==
  /\ Enabled(part)
  /\ \E from \in Corpora[part] : \E drawn \in Subsample(from, target) :
       /\ sample' = [from |-> from, n |-> target, drawn |-> drawn]
       /\ Loaded(drawn)
  /\ UNCHANGED reservoirs

\* load_v2_corpus: Sentiment140 fills up what tweet_eval is taken to leave.
LoadSentiment140 ==
  /\ Enabled("sentiment140")
  /\ LET tweets == IF "tweet_eval" \in args.parts THEN args.tweetTarget ELSE 0
         remaining == IF TwitterTarget > tweets THEN TwitterTarget - tweets ELSE 0
     IN \E from \in Corpora["sentiment140"] : \E drawn \in PlainSample(from, remaining) : Loaded(drawn)
  /\ sample' = NoSample
  /\ UNCHANGED reservoirs

\* load_sst2: all of it.
LoadSst2 ==
  /\ Enabled("sst2")
  /\ \E from \in Corpora["sst2"] : Loaded(from)
  /\ sample' = NoSample
  /\ UNCHANGED reservoirs

\* load_v2_corpus, last part: the own-domain rows.
LoadOwn ==
  /\ Enabled("own")
  /\ Loaded(Oversample(args.gold, args.factor))
  /\ sample' = NoSample
  /\ UNCHANGED reservoirs

\* build_stage2_train_rows: repeated gold, and a subsample of the mix.
Stage2(drawn) == Plus(Oversample(args.gold, args.factor), drawn)

\* assemble_train_rows: the mix itself, or with --init-from the gold rows and
\* a replay of the mix, or the replay alone when there is no gold.
Assemble ==
  /\ pc = "load" /\ todo = <<>>
  /\ IF ~args.initFrom \/ (Total(args.gold) = 0 /\ args.replayN = 0)
     THEN pool' = mix /\ sample' = NoSample
     ELSE \E drawn \in Subsample(mix, args.replayN) :
            /\ pool' = Stage2(drawn)
            /\ sample' = [from |-> mix, n |-> args.replayN, drawn |-> drawn]
  /\ pc' = "split"
  /\ UNCHANGED <<args, todo, reservoirs, mix, split>>

\* split_train_eval: evaluate on the dev rows of the gold file, which raises
\* when there are none or nothing to train on, or on a tenth of the pool.
SplitTrainEval ==
  /\ pc = "split"
  /\ IF args.devFromGold
     THEN IF Total(args.dev) = 0 \/ Total(pool) = 0
          THEN pc' = "failed" /\ UNCHANGED split
          ELSE pc' = "done" /\ split' = [train |-> pool, eval |-> args.dev]
     ELSE LET eval == [l \in Labels |-> IF pool[l] = 0 THEN 0 ELSE TestRows(pool[l])]
          IN /\ pc' = "done"
             /\ split' = [train |-> [l \in Labels |-> pool[l] - eval[l]], eval |-> eval]
  /\ sample' = NoSample
  /\ UNCHANGED <<args, todo, reservoirs, mix, pool>>

-----------------------------------------------------------------------------
\* _v2_corpus_kwargs, need_mix: the parts a command line loads, in order. A
\* continued run mixes no gold in, and loads nothing when gold is enough.
PartsOf(a) ==
  IF a.initFrom /\ a.replayN = 0 /\ Total(a.gold) > 0 THEN <<>>
  ELSE SelectSeq(<<"clapai", "tweet_ml", "tweet_eval", "sentiment140", "goemotions", "sst2", "own">>,
                 LAMBDA p : p \in a.parts /\ ~(p = "own" /\ a.initFrom))

Init ==
  /\ args \in Arguments
  /\ todo = PartsOf(args)
  /\ scanned = 0
  /\ seen = [k \in Keys |-> 0]
  /\ buckets = [k \in Keys |-> <<>>]
  /\ sample = NoSample
  /\ mix = Zero /\ pool = Zero
  /\ split = [train |-> Zero, eval |-> Zero]
  /\ pc = "load"

Next ==
  \/ ScanClapai
  \/ LoadClapai
  \/ LoadTweetMl
  \/ LoadSubsampled("tweet_eval", args.tweetTarget)
  \/ LoadSentiment140
  \/ LoadSubsampled("goemotions", args.goTarget)
  \/ LoadSst2
  \/ LoadOwn
  \/ Assemble
  \/ SplitTrainEval

Spec == Init /\ [][Next]_vars

-----------------------------------------------------------------------------
\* One pass leaves in every reservoir exactly as many rows as it could hold,
\* all different and all read so far, whatever was replaced on the way
\* (loaders.py:616-642, Algorithm R).
ReservoirsFilled ==
  \A k \in Keys :
    /\ Len(buckets[k]) = Least({seen[k], Cap[k[1]]})
    /\ IsInjective(buckets[k])
    /\ ToSet(buckets[k]) \subseteq 1 .. scanned
    /\ \A other \in Keys \ {k} : ToSet(buckets[k]) \cap ToSet(buckets[other]) = {}

\* A subsample has exactly the rows asked for, and no label is further from its
\* share of the corpus than half a row for every other label, one row for the
\* three labels there are: the rounding of the others does not pile up on the
\* last one beyond that, and the random leftovers do not upset the proportions
\* (loaders.py:376-429).
ShareKept ==
  LET n == Least({sample.n, Total(sample.from)})
      Off(l) == n * sample.from[l] - Total(sample.from) * sample.drawn[l]
      most == (Cardinality(Labels) - 1) * Total(sample.from)
  IN /\ Total(sample.drawn) = n
     /\ \A l \in Labels : 2 * Off(l) <= most /\ -most <= 2 * Off(l)

\* Without a dev split the evaluation set takes about a tenth and misses no
\* class that has two rows, of a pool that may be tiny or lopsided, and every
\* row is on one side only (train.py:95-129).
ClassesOnBothSides ==
  pc = "done" /\ ~args.devFromGold =>
    \A l \in Labels :
      /\ split.train[l] + split.eval[l] = pool[l]
      /\ pool[l] >= 2 => split.train[l] >= 1 /\ split.eval[l] >= 1
      /\ pool[l] = 1 => split.train[l] = 1
      /\ 10 * split.eval[l] <= pool[l] + 9
===============================================================================
