------------------------- MODULE TrainingCorpus_proofs -------------------------
(* The training corpus, for all labels, languages, caps and corpora: the     *)
(* reservoirs hold what one pass over the stream may leave in them, every    *)
(* subsample keeps the proportions of its corpus, and the tenth that is      *)
(* taken for evaluation leaves no class on one side only.                    *)
EXTENDS TrainingCorpus, FiniteSetTheorems, WellFoundedInduction, TLAPS

-----------------------------------------------------------------------------
(* Counting *)

LEMMA LeastOfTwo ==
  ASSUME NEW a \in Nat, NEW b \in Nat
  PROVE  Least({a, b}) = IF a <= b THEN a ELSE b
<1>1. \A x \in {a, b} : (\A y \in {a, b} : x <= y) <=> x = IF a <= b THEN a ELSE b
  OBVIOUS
<1>2. (IF a <= b THEN a ELSE b) \in {a, b}
  OBVIOUS
<1> QED BY <1>1, <1>2 DEF Least

\* stratified_indices takes about a tenth of a class and leaves both sides a
\* row, if it has two.
LEMMA Tenth ==
  ASSUME NEW size \in Nat, size > 0
  PROVE  /\ TestRows(size) \in 0 .. size - 1
         /\ size >= 2 => TestRows(size) >= 1
         /\ 10 * TestRows(size) <= size + 9
<1>1. PICK q \in Nat, m \in 0 .. 9 : q = size \div 10 /\ m = size % 10 /\ size = 10 * q + m
  <2>1. size \div 10 \in Nat
    OBVIOUS
  <2>2. size % 10 \in 0 .. 9
    OBVIOUS
  <2>3. size = 10 * (size \div 10) + (size % 10)
    OBVIOUS
  <2> QED BY <2>1, <2>2, <2>3
<1> DEFINE tenth == Rounded(size, 10)
<1>2. \/ tenth = q /\ 2 * m <= 10
      \/ tenth = q + 1 /\ 2 * m >= 10
  BY <1>1 DEF Rounded
<1>3. tenth \in Nat /\ 10 * tenth <= size + 5
  BY <1>1, <1>2
<1>4. TestRows(size) = LET some == IF tenth = 0 /\ size > 1 THEN 1 ELSE tenth
                       IN IF some >= size THEN size - 1 ELSE some
  BY DEF TestRows
<1> HIDE DEF tenth
<1>5. tenth < size
  BY <1>1, <1>2, <1>3
<1> QED BY <1>3, <1>4, <1>5

\* What a sample draws is a corpus.
LEMMA SampleType ==
  ASSUME CorpusAssumption, NEW from \in [Labels -> Nat], NEW n \in Nat
  PROVE  /\ Subsample(from, n) \subseteq [Labels -> Nat]
         /\ PlainSample(from, n) \subseteq [Labels -> Nat]
<1>1. Zero \in [Labels -> Nat]
  BY DEF Zero
<1>2. [Labels -> 0 .. n] \subseteq [Labels -> Nat]
  OBVIOUS
<1>3. PlainSample(from, n) \subseteq [Labels -> Nat]
  BY <1>2 DEF PlainSample
<1>4. \A order : Proportional(from, n, order) \subseteq [Labels -> Nat]
  BY <1>2 DEF Proportional
<1>5. Subsample(from, n) \subseteq [Labels -> Nat]
  BY <1>1, <1>4 DEF Subsample
<1> QED BY <1>3, <1>5

LEMMA SumType ==
  ASSUME NEW a \in [Labels -> Nat], NEW b \in [Labels -> Nat], NEW k \in Nat
  PROVE  Plus(a, b) \in [Labels -> Nat] /\ Times(k, a) \in [Labels -> Nat]
           /\ Oversample(a, k) \in [Labels -> Nat]
BY DEF Plus, Times, Oversample

-----------------------------------------------------------------------------
(* The reservoirs *)

\* One reservoir after seen rows, none of them behind row number last.
Filled(bucket, cap, count, last) ==
  /\ bucket \in Seq(1 .. last)
  /\ Len(bucket) = Least({count, cap})
  /\ \A a, b \in DOMAIN bucket : bucket[a] = bucket[b] => a = b

LEMMA FilledRange ==
  ASSUME NEW bucket, NEW cap, NEW count, NEW last \in Nat, Filled(bucket, cap, count, last)
  PROVE  ToSet(bucket) \subseteq 1 .. last
<1>1. bucket \in Seq(1 .. last)
  BY DEF Filled
<1>2. \A i \in DOMAIN bucket : bucket[i] \in 1 .. last
  BY <1>1
<1> QED BY <1>2 DEF ToSet

\* Algorithm R keeps a reservoir full, of different rows.
LEMMA AddFills ==
  ASSUME NEW last \in Nat, NEW cap \in Nat \ {0}, NEW count \in Nat, NEW bucket,
         Filled(bucket, cap, count, last),
         NEW new \in ReservoirAdd(bucket, cap, count + 1, last + 1)
  PROVE  /\ Filled(new, cap, count + 1, last + 1)
         /\ ToSet(new) \subseteq ToSet(bucket) \cup {last + 1}
<1>1. /\ Least({count, cap}) = IF count <= cap THEN count ELSE cap
      /\ Least({count + 1, cap}) = IF count + 1 <= cap THEN count + 1 ELSE cap
      /\ Least({cap, count + 1}) = IF cap <= count + 1 THEN cap ELSE count + 1
  BY LeastOfTwo
<1>2. /\ bucket \in Seq(1 .. last) /\ Len(bucket) \in Nat /\ DOMAIN bucket = 1 .. Len(bucket)
      /\ Len(bucket) = IF count <= cap THEN count ELSE cap
      /\ \A a, b \in DOMAIN bucket : bucket[a] = bucket[b] => a = b
      /\ \A a \in DOMAIN bucket : bucket[a] \in 1 .. last
  <2>1. /\ bucket \in Seq(1 .. last) /\ Len(bucket) = Least({count, cap})
        /\ \A a, b \in DOMAIN bucket : bucket[a] = bucket[b] => a = b
    BY DEF Filled
  <2>2. Len(bucket) \in Nat /\ DOMAIN bucket = 1 .. Len(bucket)
    BY <2>1
  <2>3. \A a \in DOMAIN bucket : bucket[a] \in 1 .. last
    BY <2>1
  <2> QED BY <1>1, <2>1, <2>2, <2>3
<1>3. CASE Len(bucket) < cap
  <2>1. new = Append(bucket, last + 1)
    BY <1>3 DEF ReservoirAdd
  <2>2. /\ new \in Seq(1 .. last + 1) /\ Len(new) = Len(bucket) + 1
        /\ DOMAIN new = 1 .. Len(bucket) + 1
        /\ \A a \in 1 .. Len(bucket) : new[a] = bucket[a]
        /\ new[Len(bucket) + 1] = last + 1
    BY <1>2, <2>1
  <2>3. Len(new) = Least({count + 1, cap})
    BY <1>1, <1>2, <1>3, <2>2
  <2>4. \A a, b \in DOMAIN new : new[a] = new[b] => a = b
    <3>1. \A a \in 1 .. Len(bucket) : new[a] # last + 1
      BY <1>2, <2>2
    <3>2. \A a \in DOMAIN new : a \in 1 .. Len(bucket) \/ a = Len(bucket) + 1
      BY <1>2, <2>2
    <3> QED BY <1>2, <2>2, <3>1, <3>2
  <2>5. ToSet(new) \subseteq ToSet(bucket) \cup {last + 1}
    BY <1>2, <2>2 DEF ToSet
  <2> QED BY <2>2, <2>3, <2>4, <2>5 DEF Filled
<1>4. CASE ~(Len(bucket) < cap)
  <2>1. Len(bucket) = cap /\ Len(bucket) = Least({count + 1, cap}) /\ Least({cap, count + 1}) = cap
    BY <1>1, <1>2, <1>4
  <2>2. CASE new = bucket
    <3>1. bucket \in Seq(1 .. last + 1)
      BY <1>2
    <3> QED BY <1>2, <2>1, <2>2, <3>1 DEF Filled
  <2>3. ASSUME NEW k \in 1 .. cap, new = [bucket EXCEPT ![k] = last + 1]
        PROVE  /\ Filled(new, cap, count + 1, last + 1)
               /\ ToSet(new) \subseteq ToSet(bucket) \cup {last + 1}
    <3>1. /\ new \in Seq(1 .. last + 1) /\ Len(new) = Len(bucket)
          /\ DOMAIN new = DOMAIN bucket
          /\ \A a \in DOMAIN bucket : new[a] = IF a = k THEN last + 1 ELSE bucket[a]
      BY <1>2, <2>1, <2>3
    <3>2. \A a, b \in DOMAIN new : new[a] = new[b] => a = b
      BY <1>2, <3>1
    <3>3. ToSet(new) \subseteq ToSet(bucket) \cup {last + 1}
      BY <3>1 DEF ToSet
    <3> QED BY <2>1, <3>1, <3>2, <3>3 DEF Filled
  <2>4. new \in {bucket} \cup {[bucket EXCEPT ![k] = last + 1] : k \in 1 .. cap}
    BY <1>4, <2>1 DEF ReservoirAdd
  <2> QED BY <2>2, <2>3, <2>4
<1> QED BY <1>3, <1>4

-----------------------------------------------------------------------------
(* The invariant *)

\* Every reservoir is full for what it was offered, with rows of the stream
\* that no other one has.
ReservoirsInv ==
  /\ scanned \in Nat /\ seen \in [Keys -> Nat] /\ DOMAIN buckets = Keys
  /\ \A k \in Keys : Filled(buckets[k], Cap[k[1]], seen[k], scanned)
  /\ \A k, other \in Keys : k # other => ToSet(buckets[k]) \cap ToSet(buckets[other]) = {}

\* With it, counts are counts, and a split is one of the pool.
CorpusInv ==
  /\ args \in Arguments
  /\ ReservoirsInv
  /\ mix \in [Labels -> Nat] /\ pool \in [Labels -> Nat]
  /\ ClassesOnBothSides

LEMMA KeyCaps == ASSUME CorpusAssumption, NEW k \in Keys PROVE Cap[k[1]] \in Nat \ {0}
BY DEF CorpusAssumption, Keys

LEMMA EmptyReservoirs ==
  ASSUME CorpusAssumption
  PROVE  \A k \in Keys : Filled(<<>>, Cap[k[1]], 0, 0)
<1> SUFFICES ASSUME NEW k \in Keys PROVE Filled(<<>>, Cap[k[1]], 0, 0)
  OBVIOUS
<1>1. Least({0, Cap[k[1]]}) = 0
  BY KeyCaps, LeastOfTwo
<1> QED BY <1>1 DEF Filled

LEMMA ReservoirsKept ==
  ASSUME ReservoirsInv, UNCHANGED reservoirs PROVE ReservoirsInv'
BY DEF ReservoirsInv, reservoirs

LEMMA ReservoirsReset ==
  ASSUME CorpusAssumption, NoReservoirs PROVE ReservoirsInv'
<1>1. /\ scanned' = 0 /\ seen' = [k \in Keys |-> 0]
      /\ buckets' = [k \in Keys |-> <<>>]
  BY DEF NoReservoirs
<1>2. ToSet(<<>>) = {}
  BY DEF ToSet
<1> QED BY <1>1, <1>2, EmptyReservoirs DEF ReservoirsInv

LEMMA ScanReservoirs ==
  ASSUME CorpusAssumption, ReservoirsInv, ScanClapai PROVE ReservoirsInv'
<1>1. scanned \in Nat /\ scanned' = scanned + 1 /\ scanned' \in Nat
  BY DEF ReservoirsInv, ScanClapai
<1>2. \A k \in Keys : /\ Filled(buckets[k], Cap[k[1]], seen[k], scanned + 1)
                      /\ ToSet(buckets[k]) \subseteq 1 .. scanned
  <2> SUFFICES ASSUME NEW k \in Keys
               PROVE  /\ Filled(buckets[k], Cap[k[1]], seen[k], scanned + 1)
                      /\ ToSet(buckets[k]) \subseteq 1 .. scanned
    OBVIOUS
  <2>1. Filled(buckets[k], Cap[k[1]], seen[k], scanned)
    BY DEF ReservoirsInv
  <2>2. buckets[k] \in Seq(1 .. scanned)
    BY <2>1 DEF Filled
  <2>3. buckets[k] \in Seq(1 .. scanned + 1)
    BY <1>1, <2>2
  <2>4. ToSet(buckets[k]) \subseteq 1 .. scanned
    BY <1>1, <2>1, FilledRange
  <2> QED BY <2>1, <2>3, <2>4 DEF Filled
<1>3. CASE UNCHANGED <<seen, buckets>>
  BY <1>1, <1>2, <1>3 DEF ReservoirsInv
<1>4. ASSUME NEW key \in Keys,
             seen' = [seen EXCEPT ![key] = @ + 1],
             NEW b \in ReservoirAdd(buckets[key], Cap[key[1]], seen[key] + 1, scanned + 1),
             buckets' = [buckets EXCEPT ![key] = b]
      PROVE  ReservoirsInv'
  <2>1. /\ Cap[key[1]] \in Nat \ {0} /\ seen[key] \in Nat
        /\ Filled(buckets[key], Cap[key[1]], seen[key], scanned)
    BY KeyCaps DEF ReservoirsInv
  <2>2. /\ Filled(b, Cap[key[1]], seen[key] + 1, scanned + 1)
        /\ ToSet(b) \subseteq ToSet(buckets[key]) \cup {scanned + 1}
    BY <1>1, <1>4, <2>1, AddFills
  <2>3. /\ seen' \in [Keys -> Nat] /\ DOMAIN buckets' = Keys
        /\ seen'[key] = seen[key] + 1 /\ buckets'[key] = b
        /\ \A k \in Keys \ {key} : seen'[k] = seen[k] /\ buckets'[k] = buckets[k]
    BY <1>4, <2>1 DEF ReservoirsInv
  <2>4. \A k \in Keys : Filled(buckets'[k], Cap[k[1]], seen'[k], scanned')
    BY <1>1, <1>2, <2>2, <2>3
  <2>5. ASSUME NEW k \in Keys \ {key} PROVE ToSet(b) \cap ToSet(buckets[k]) = {}
    <3>1. ToSet(buckets[key]) \cap ToSet(buckets[k]) = {}
      BY DEF ReservoirsInv
    <3>2. scanned + 1 \notin ToSet(buckets[k])
      BY <1>1, <1>2
    <3> QED BY <2>2, <3>1, <3>2
  <2>6. \A k, other \in Keys : k # other => ToSet(buckets'[k]) \cap ToSet(buckets'[other]) = {}
    <3> SUFFICES ASSUME NEW k \in Keys, NEW other \in Keys, k # other
                 PROVE  ToSet(buckets'[k]) \cap ToSet(buckets'[other]) = {}
      OBVIOUS
    <3>1. CASE k = key
      BY <2>3, <2>5, <3>1
    <3>2. CASE other = key
      BY <2>3, <2>5, <3>2
    <3>3. CASE k # key /\ other # key
      <4>1. buckets'[k] = buckets[k] /\ buckets'[other] = buckets[other]
        BY <2>3, <3>3
      <4> QED BY <4>1 DEF ReservoirsInv
    <3> QED BY <3>1, <3>2, <3>3
  <2> QED BY <1>1, <2>3, <2>4, <2>6 DEF ReservoirsInv
<1> QED BY <1>3, <1>4 DEF ScanClapai

-----------------------------------------------------------------------------
(* The parts *)

\* A part that is loaded leaves the invariant if what it loads is a corpus.
LEMMA LoadedKeeps ==
  ASSUME CorpusInv, NEW rows \in [Labels -> Nat], Loaded(rows), ReservoirsInv'
  PROVE  CorpusInv'
<1>1. mix' \in [Labels -> Nat]
  <2>1. mix' = Plus(mix, rows) /\ mix \in [Labels -> Nat]
    BY DEF Loaded, CorpusInv
  <2> QED BY <2>1 DEF Plus
<1>2. args' = args /\ pool' = pool /\ split' = split /\ pc' = pc
  BY DEF Loaded
<1> QED BY <1>1, <1>2 DEF CorpusInv, ClassesOnBothSides

LEMMA ClapaiRows ==
  ASSUME ReservoirsInv
  PROVE  [l \in Labels |-> Cardinality(UNION {ToSet(buckets[k]) : k \in {x \in Keys : x[2] = l}})]
           \in [Labels -> Nat]
<1> SUFFICES ASSUME NEW l \in Labels
             PROVE  Cardinality(UNION {ToSet(buckets[k]) : k \in {x \in Keys : x[2] = l}}) \in Nat
  OBVIOUS
<1> DEFINE rows(k) == ToSet(buckets[k])
           all == UNION {rows(k) : k \in {x \in Keys : x[2] = l}}
<1>1. \A k \in Keys : rows(k) \subseteq 1 .. scanned
  BY FilledRange DEF ReservoirsInv
<1> HIDE DEF rows
<1>2. all \subseteq 1 .. scanned
  BY <1>1
<1>3. IsFiniteSet(1 .. scanned)
  <2>1. 1 \in Int /\ scanned \in Int
    BY DEF ReservoirsInv
  <2> QED BY <2>1, FS_Interval
<1>4. Cardinality(all) \in Nat
  BY <1>2, <1>3, FS_Subset, FS_CardinalityType
<1> QED BY <1>4 DEF rows

LEMMA PartsKeep ==
  ASSUME CorpusAssumption, CorpusInv,
         \/ LoadClapai \/ LoadTweetMl
         \/ LoadSubsampled("tweet_eval", args.tweetTarget) \/ LoadSentiment140
         \/ LoadSubsampled("goemotions", args.goTarget) \/ LoadSst2 \/ LoadOwn
  PROVE  CorpusInv'
<1>1. /\ args.gold \in [Labels -> Nat]
      /\ {args.factor, args.replayN, args.tweetTarget, args.goTarget} \subseteq Nat
      /\ TwitterTarget \in Nat /\ ConfigRows \in Nat
      /\ ReservoirsInv
  BY DEF CorpusInv, CorpusAssumption
<1>2. CASE LoadClapai
  BY <1>1, <1>2, ClapaiRows, ReservoirsReset, LoadedKeeps DEF LoadClapai
<1>3. CASE LoadTweetMl
  <2>1. PICK loaded \in SUBSET Configs :
          Loaded([l \in Labels |-> ConfigRows * Cardinality(loaded)])
    BY <1>3 DEF LoadTweetMl
  <2>2. Cardinality(loaded) \in Nat
    BY FS_Subset, FS_CardinalityType DEF CorpusAssumption
  <2>3. ReservoirsInv'
    BY <1>1, <1>3, ReservoirsKept DEF LoadTweetMl
  <2>4. ConfigRows * Cardinality(loaded) \in Nat
    BY <1>1, <2>2
  <2>5. [l \in Labels |-> ConfigRows * Cardinality(loaded)] \in [Labels -> Nat]
    BY <2>4
  <2> QED BY <2>1, <2>3, <2>5, LoadedKeeps
<1>4. ASSUME NEW part \in {"tweet_eval", "goemotions"}, NEW target \in Nat,
             LoadSubsampled(part, target)
      PROVE  CorpusInv'
  <2>1. PICK from \in Corpora[part] : \E drawn \in Subsample(from, target) : Loaded(drawn)
    BY <1>4 DEF LoadSubsampled
  <2>2. from \in [Labels -> Nat]
    BY DEF CorpusAssumption
  <2>3. PICK drawn \in [Labels -> Nat] : Loaded(drawn)
    BY <2>1, <2>2, SampleType
  <2>4. ReservoirsInv'
    BY <1>1, <1>4, ReservoirsKept DEF LoadSubsampled
  <2> QED BY <2>3, <2>4, LoadedKeeps
<1>5. CASE LoadSentiment140
  <2> DEFINE tweets == IF "tweet_eval" \in args.parts THEN args.tweetTarget ELSE 0
             remaining == IF TwitterTarget > tweets THEN TwitterTarget - tweets ELSE 0
  <2>1. remaining \in Nat
    BY <1>1
  <2>2. PICK from \in Corpora["sentiment140"] : \E drawn \in PlainSample(from, remaining) : Loaded(drawn)
    BY <1>5 DEF LoadSentiment140
  <2> HIDE DEF remaining
  <2>3. from \in [Labels -> Nat]
    BY DEF CorpusAssumption
  <2>4. PICK drawn \in [Labels -> Nat] : Loaded(drawn)
    BY <2>1, <2>2, <2>3, SampleType
  <2>5. ReservoirsInv'
    BY <1>1, <1>5, ReservoirsKept DEF LoadSentiment140
  <2> QED BY <2>4, <2>5, LoadedKeeps
<1>6. CASE LoadSst2
  <2>1. PICK from \in Corpora["sst2"] : Loaded(from)
    BY <1>6 DEF LoadSst2
  <2>2. from \in [Labels -> Nat]
    BY DEF CorpusAssumption
  <2>3. ReservoirsInv'
    BY <1>1, <1>6, ReservoirsKept DEF LoadSst2
  <2> QED BY <2>1, <2>2, <2>3, LoadedKeeps
<1>7. CASE LoadOwn
  <2>1. Oversample(args.gold, args.factor) \in [Labels -> Nat]
    BY <1>1, SumType
  <2>2. ReservoirsInv'
    BY <1>1, <1>7, ReservoirsKept DEF LoadOwn
  <2> QED BY <1>7, <2>1, <2>2, LoadedKeeps DEF LoadOwn
<1> QED BY <1>1, <1>2, <1>3, <1>4, <1>5, <1>6, <1>7

LEMMA AssembleKeeps ==
  ASSUME CorpusAssumption, CorpusInv, Assemble PROVE CorpusInv'
<1>1. /\ args.gold \in [Labels -> Nat] /\ args.factor \in Nat /\ args.replayN \in Nat
      /\ mix \in [Labels -> Nat]
  BY DEF CorpusInv, CorpusAssumption
<1>2. pool' \in [Labels -> Nat]
  <2>1. CASE pool' = mix
    BY <1>1, <2>1
  <2>2. ASSUME NEW drawn \in Subsample(mix, args.replayN), pool' = Stage2(drawn)
        PROVE  pool' \in [Labels -> Nat]
    <3>1. drawn \in [Labels -> Nat]
      BY <1>1, SampleType
    <3>2. Oversample(args.gold, args.factor) \in [Labels -> Nat]
      BY <1>1, SumType
    <3>3. Stage2(drawn) = Plus(Oversample(args.gold, args.factor), drawn)
      BY DEF Stage2
    <3> QED BY <2>2, <3>1, <3>2, <3>3 DEF Plus
  <2> QED BY <2>1, <2>2 DEF Assemble
<1>3. args' = args /\ mix' = mix /\ pc' = "split" /\ UNCHANGED reservoirs
  BY DEF Assemble
<1>4. ReservoirsInv'
  BY <1>3, ReservoirsKept DEF CorpusInv
<1> QED BY <1>2, <1>3, <1>4 DEF CorpusInv, ClassesOnBothSides

LEMMA SplitKeeps ==
  ASSUME CorpusAssumption, CorpusInv, SplitTrainEval PROVE CorpusInv'
<1>1. /\ args' = args /\ mix' = mix /\ pool' = pool /\ UNCHANGED reservoirs
      /\ args \in Arguments /\ pool \in [Labels -> Nat] /\ mix \in [Labels -> Nat]
  BY DEF SplitTrainEval, CorpusInv
<1>2. ReservoirsInv'
  BY <1>1, ReservoirsKept DEF CorpusInv
<1>3. ClassesOnBothSides'
  <2> DEFINE eval == [l \in Labels |-> IF pool[l] = 0 THEN 0 ELSE TestRows(pool[l])]
  <2> SUFFICES ASSUME pc' = "done", ~args.devFromGold, NEW l \in Labels
               PROVE  /\ split'.train[l] + split'.eval[l] = pool[l]
                      /\ pool[l] >= 2 => split'.train[l] >= 1 /\ split'.eval[l] >= 1
                      /\ pool[l] = 1 => split'.train[l] = 1
                      /\ 10 * split'.eval[l] <= pool[l] + 9
    BY <1>1 DEF ClassesOnBothSides
  <2>1. split' = [train |-> [x \in Labels |-> pool[x] - eval[x]], eval |-> eval]
    BY DEF SplitTrainEval
  <2>2. split'.train[l] = pool[l] - eval[l] /\ split'.eval[l] = eval[l]
    BY <2>1
  <2>3. eval[l] = IF pool[l] = 0 THEN 0 ELSE TestRows(pool[l])
    OBVIOUS
  <2>4. pool[l] \in Nat
    BY <1>1
  <2>5. pool[l] > 0 => /\ TestRows(pool[l]) \in 0 .. pool[l] - 1
                       /\ pool[l] >= 2 => TestRows(pool[l]) >= 1
                       /\ 10 * TestRows(pool[l]) <= pool[l] + 9
    BY <2>4, Tenth
  <2> HIDE DEF eval
  <2>6. PICK n \in Nat : n = pool[l]
    BY <2>4
  <2>7. PICK e \in Nat : e = eval[l]
    BY <2>3, <2>5, <2>6
  <2>8. /\ e <= n
        /\ n >= 2 => e >= 1 /\ n - e >= 1
        /\ n = 1 => e = 0
        /\ 10 * e <= n + 9
    BY <2>3, <2>5, <2>6, <2>7
  <2>9. split'.train[l] = n - e /\ split'.eval[l] = e
    BY <2>2, <2>6, <2>7
  <2> QED BY <2>6, <2>8, <2>9
<1> QED BY <1>1, <1>2, <1>3 DEF CorpusInv

-----------------------------------------------------------------------------
(* Induction *)

\* Induction over the numbers, as the least of a set of counterexamples.
LEMMA LeastNumber ==
  ASSUME NEW T, T \subseteq Nat, T # {}
  PROVE  \E x \in T : \A y \in T : x <= y
<1>1. PICK x \in T : \A y \in T : ~ (<<y, x>> \in OpToRel(<, Nat))
  BY NatLessThanWellFounded, WFMin
<1>2. \A y \in T : ~ (y < x)
  BY <1>1 DEF OpToRel
<1> QED BY <1>2

\* Induction over the subsets of a finite set, likewise.
LEMMA LeastSubset ==
  ASSUME NEW S, IsFiniteSet(S), NEW bad \in SUBSET (SUBSET S), bad # {}
  PROVE  \E T \in bad : \A x \in T : T \ {x} \notin bad
<1>1. \A T \in SUBSET S : IsFiniteSet(T) /\ Cardinality(T) \in Nat
  BY FS_Subset, FS_CardinalityType
<1> DEFINE sizes == {n \in Nat : \E T \in bad : n = Cardinality(T)}
<1>2. sizes # {}
  BY <1>1
<1>3. PICK n \in sizes : \A m \in sizes : n <= m
  BY <1>2, LeastNumber
<1>4. PICK T \in bad : n = Cardinality(T)
  BY <1>3
<1>5. ASSUME NEW x \in T, T \ {x} \in bad PROVE FALSE
  <2>1. Cardinality(T \ {x}) = n - 1 /\ n - 1 \in Nat
    BY <1>1, <1>4, <1>5, FS_RemoveElement
  <2>2. n - 1 \in sizes
    BY <1>5, <2>1
  <2> QED BY <1>3, <2>1, <2>2
<1> QED BY <1>5

-----------------------------------------------------------------------------
(* The sums of a corpus *)

\* The element a sum over T takes first, and the equation of the sum at T.
First(T) == CHOOSE x \in T : TRUE
Folds(a, sum, T) == sum[T] = IF T = {} THEN 0 ELSE a[First(T)] + sum[T \ {First(T)}]

\* Sums over the sets of labels exist: one level of cardinality at a time.
LEMMA SumsToLevel ==
  ASSUME IsFiniteSet(Labels), NEW a \in [Labels -> Int], NEW n \in Nat
  PROVE  \E sum \in [SUBSET Labels -> Int] :
           \A T \in SUBSET Labels : Cardinality(T) <= n => Folds(a, sum, T)
<1> DEFINE Good(k) == \E sum \in [SUBSET Labels -> Int] :
                        \A T \in SUBSET Labels : Cardinality(T) <= k => Folds(a, sum, T)
           bad == {k \in Nat : ~ Good(k)}
<1>1. Good(0)
  <2> DEFINE sum == [T \in SUBSET Labels |-> 0]
  <2>1. ASSUME NEW T \in SUBSET Labels, Cardinality(T) <= 0 PROVE T = {}
    <3>1. IsFiniteSet(T) /\ Cardinality(T) \in Nat
      BY FS_Subset, FS_CardinalityType
    <3> QED BY <2>1, <3>1, FS_EmptySet
  <2>2. \A T \in SUBSET Labels : Cardinality(T) <= 0 => Folds(a, sum, T)
    BY <2>1 DEF Folds
  <2>3. sum \in [SUBSET Labels -> Int]
    OBVIOUS
  <2> HIDE DEF sum
  <2> QED BY <2>2, <2>3
<1>2. ASSUME NEW k \in Nat, Good(k) PROVE Good(k + 1)
  <2>1. PICK old \in [SUBSET Labels -> Int] :
          \A T \in SUBSET Labels : Cardinality(T) <= k => Folds(a, old, T)
    BY <1>2
  <2> DEFINE sum == [T \in SUBSET Labels |->
                       IF T = {} THEN 0 ELSE a[First(T)] + old[T \ {First(T)}]]
  <2>2. \A T \in SUBSET Labels : T # {} => First(T) \in T /\ T \ {First(T)} \in SUBSET Labels
    BY DEF First
  <2>3. sum \in [SUBSET Labels -> Int]
    BY <2>2
  <2>4. ASSUME NEW T \in SUBSET Labels, Cardinality(T) <= k + 1
        PROVE  Folds(a, sum, T)
    <3>1. CASE T = {}
      BY <3>1 DEF Folds
    <3>2. CASE T # {}
      <4> DEFINE U == T \ {First(T)}
      <4>1. U \in SUBSET Labels /\ First(T) \in T
        BY <2>2, <3>2
      <4>2. IsFiniteSet(T) /\ Cardinality(T) \in Nat
        BY FS_Subset, FS_CardinalityType
      <4>3. Cardinality(U) = Cardinality(T) - 1
        BY <4>1, <4>2, FS_RemoveElement
      <4>4. Folds(a, old, U)
        BY <2>1, <2>4, <4>1, <4>2, <4>3
      <4>5. sum[U] = old[U]
        BY <4>1, <4>4 DEF Folds
      <4>6. sum[T] = a[First(T)] + old[U]
        BY <3>2
      <4> QED BY <3>2, <4>5, <4>6 DEF Folds
    <3> QED BY <3>1, <3>2
  <2> QED BY <2>3, <2>4
<1> HIDE DEF Good
<1>3. bad = {}
  <2> SUFFICES ASSUME bad # {} PROVE FALSE
    OBVIOUS
  <2>1. PICK k \in bad : \A j \in bad : k <= j
    BY LeastNumber
  <2>2. k # 0
    BY <1>1, <2>1
  <2>3. k - 1 \in Nat /\ k - 1 \notin bad
    BY <2>1, <2>2
  <2>4. Good(k - 1 + 1)
    BY <1>2, <2>3
  <2> QED BY <2>1, <2>4
<1> QED BY <1>3 DEF Good

\* What Total computes: an empty sum is 0, and any label may be taken out first.
Sums(a, sum) ==
  /\ sum \in [SUBSET Labels -> Int]
  /\ sum[{}] = 0
  /\ \A T \in SUBSET Labels : \A x \in T : sum[T] = a[x] + sum[T \ {x}]

LEMMA TotalSums ==
  ASSUME IsFiniteSet(Labels), NEW a \in [Labels -> Int]
  PROVE  \E sum : Sums(a, sum) /\ Total(a) = sum[Labels]
<1> DEFINE Fold(f) == f = [T \in SUBSET Labels |->
                             IF T = {} THEN 0 ELSE a[First(T)] + f[T \ {First(T)}]]
           sum == CHOOSE f : Fold(f)
<1>1. \E f : f \in [SUBSET Labels -> Int] /\ Fold(f)
  <2>1. PICK f \in [SUBSET Labels -> Int] :
          \A T \in SUBSET Labels : Cardinality(T) <= Cardinality(Labels) => Folds(a, f, T)
    BY SumsToLevel, FS_CardinalityType
  <2>2. \A T \in SUBSET Labels : Folds(a, f, T)
    BY <2>1, FS_Subset
  <2> QED BY <2>2 DEF Folds
<1>2. Fold(sum)
  BY <1>1
<1>3. Total(a) = sum[Labels]
  BY DEF Total, MapThenSumSet, MapThenFoldSet, First
<1>4. \A f, g : Fold(f) /\ g \in [SUBSET Labels -> Int] /\ Fold(g) => f = g
  <2> SUFFICES ASSUME NEW f, NEW g, Fold(f), g \in [SUBSET Labels -> Int], Fold(g)
               PROVE  f = g
    OBVIOUS
  <2> DEFINE bad == {T \in SUBSET Labels : f[T] # g[T]}
  <2>1. ASSUME bad # {} PROVE FALSE
    <3>1. PICK T \in bad : \A x \in T : T \ {x} \notin bad
      BY <2>1, LeastSubset
    <3>2. T # {}
      BY <3>1
    <3>3. First(T) \in T /\ T \ {First(T)} \in SUBSET Labels
      BY <3>1, <3>2 DEF First
    <3>4. f[T \ {First(T)}] = g[T \ {First(T)}]
      BY <3>1, <3>3
    <3> QED BY <3>1, <3>2, <3>4
  <2> QED BY <2>1
<1>5. sum \in [SUBSET Labels -> Int]
  <2> HIDE DEF sum, Fold
  <2> QED BY <1>1, <1>2, <1>4
<1> HIDE DEF sum
<1>6. \A T \in SUBSET Labels : \A x \in T : sum[T] = a[x] + sum[T \ {x}]
  <2> DEFINE bad == {T \in SUBSET Labels : \E x \in T : sum[T] # a[x] + sum[T \ {x}]}
  <2>1. ASSUME bad # {} PROVE FALSE
    <3>1. PICK T \in bad : \A x \in T : T \ {x} \notin bad
      BY <2>1, LeastSubset
    <3>2. PICK x \in T : sum[T] # a[x] + sum[T \ {x}]
      BY <3>1
    <3> DEFINE y == First(T)
    <3>3. y \in T
      BY <3>2 DEF First
    <3>4. sum[T] = a[y] + sum[T \ {y}]
      BY <1>2, <3>2
    <3> HIDE DEF y
    <3>5. /\ T \ {y} \in SUBSET Labels /\ T \ {x} \in SUBSET Labels
          /\ x \in T \ {y} /\ y \in T \ {x}
      BY <3>1, <3>2, <3>3, <3>4
    <3>6. /\ sum[T \ {y}] = a[x] + sum[(T \ {y}) \ {x}]
          /\ sum[T \ {x}] = a[y] + sum[(T \ {x}) \ {y}]
      BY <3>1, <3>3, <3>5
    <3>7. (T \ {y}) \ {x} = (T \ {x}) \ {y}
      OBVIOUS
    <3>8. (T \ {x}) \ {y} \in SUBSET Labels
      BY <3>5
    <3>9. PICK r \in Int : r = sum[(T \ {x}) \ {y}]
      BY <1>5, <3>8
    <3>10. PICK ax \in Int, ay \in Int : ax = a[x] /\ ay = a[y]
      BY <3>1, <3>2, <3>3
    <3>11. sum[T] = ay + (ax + r) /\ sum[T \ {x}] = ay + r
      BY <3>4, <3>6, <3>7, <3>9, <3>10
    <3>12. sum[T] = ax + sum[T \ {x}]
      BY <3>11
    <3> QED BY <3>2, <3>10, <3>12
  <2> QED BY <2>1
<1> QED BY <1>2, <1>3, <1>5, <1>6 DEF Sums

\* Induction along an interval.
LEMMA Along ==
  ASSUME NEW lo \in Nat, NEW hi \in Nat, NEW good, lo \in good,
         \A i \in lo .. hi - 1 : i \in good => i + 1 \in good
  PROVE  lo .. hi \subseteq good
<1> DEFINE bad == {i \in lo .. hi : i \notin good}
<1> SUFFICES ASSUME bad # {} PROVE FALSE
  OBVIOUS
<1>0. bad \subseteq Nat
  OBVIOUS
<1>1. PICK i \in bad : \A j \in bad : i <= j
  <2> HIDE DEF bad
  <2> QED BY <1>0, LeastNumber
<1>2. i # lo /\ i \in lo .. hi
  BY <1>1
<1>3. i - 1 \in lo .. hi - 1 /\ i - 1 \notin bad
  BY <1>1, <1>2
<1>4. i - 1 + 1 \in good
  BY <1>3
<1> QED BY <1>1, <1>4

\* The labels in an order in which each occurs once.
LEMMA OrderCovers ==
  ASSUME NEW S, IsFiniteSet(S), NEW order \in SetToSeqs(S)
  PROVE  /\ Cardinality(S) \in Nat
         /\ order \in [1 .. Cardinality(S) -> S] /\ Len(order) = Cardinality(S)
         /\ \A i, j \in 1 .. Cardinality(S) : i # j => order[i] # order[j]
         /\ \A x \in S : \E i \in 1 .. Cardinality(S) : order[i] = x
<1>1. Cardinality(S) \in Nat
  BY FS_CardinalityType
<1>2. PICK k \in Nat : k = Cardinality(S)
  BY <1>1
<1>3. /\ order \in [1 .. k -> S]
      /\ \A i, j \in 1 .. k : i # j => order[i] # order[j]
  BY <1>2 DEF SetToSeqs
<1>4. IsFiniteSet(1 .. k) /\ Cardinality(1 .. k) = k
  BY FS_Interval
<1>5. order \in Injection(1 .. k, S)
  BY <1>3 DEF Injection, IsInjective
<1>6. order \in Surjection(1 .. k, S)
  BY <1>2, <1>4, <1>5, FS_Injection
<1>7. \A x \in S : \E i \in 1 .. k : order[i] = x
  BY <1>6 DEF Surjection
<1>8. Len(order) = k
  BY <1>3
<1> QED BY <1>1, <1>2, <1>3, <1>7, <1>8

\* A total is the last of the running sums along an order that leaves out only
\* labels without rows.
LEMMA RunningSums ==
  ASSUME IsFiniteSet(Labels), NEW a \in [Labels -> Int], NEW K \in Nat,
         NEW order \in [1 .. K -> Labels],
         \A i, j \in 1 .. K : i # j => order[i] # order[j],
         \A l \in Labels : a[l] # 0 => \E i \in 1 .. K : order[i] = l
  PROVE  \E sums \in [0 .. K -> Int] :
           /\ sums[0] = 0
           /\ \A i \in 1 .. K : sums[i] = sums[i - 1] + a[order[i]]
           /\ sums[K] = Total(a)
<1>1. PICK sum : Sums(a, sum) /\ Total(a) = sum[Labels]
  BY TotalSums
<1> DEFINE upTo(i) == {order[j] : j \in 1 .. i}
           sums == [i \in 0 .. K |-> sum[upTo(i)]]
<1>2. \A i \in 0 .. K : upTo(i) \in SUBSET Labels
  OBVIOUS
<1>3. sums \in [0 .. K -> Int]
  BY <1>1, <1>2 DEF Sums
<1>4. sums[0] = 0
  <2>1. upTo(0) = {}
    OBVIOUS
  <2> HIDE DEF upTo
  <2>2. sums[0] = sum[upTo(0)]
    OBVIOUS
  <2> HIDE DEF sums
  <2>3. sums[0] = sum[{}]
    BY <2>1, <2>2
  <2> QED BY <1>1, <2>3 DEF Sums
<1>5. ASSUME NEW i \in 1 .. K PROVE sums[i] = sums[i - 1] + a[order[i]]
  <2>1. /\ order[i] \in upTo(i) /\ upTo(i) \in SUBSET Labels
        /\ i \in 0 .. K /\ i - 1 \in 0 .. K
    OBVIOUS
  <2>2. upTo(i) \ {order[i]} = upTo(i - 1)
    OBVIOUS
  <2>3. sum[upTo(i)] = a[order[i]] + sum[upTo(i) \ {order[i]}]
    <3> HIDE DEF upTo
    <3> QED BY <1>1, <2>1 DEF Sums
  <2>4. a[order[i]] \in Int /\ sums[i - 1] \in Int
    BY <1>3, <2>1
  <2> HIDE DEF upTo
  <2>5. sums[i] = sum[upTo(i)] /\ sums[i - 1] = sum[upTo(i - 1)]
    BY <2>1
  <2> HIDE DEF sums
  <2>6. sum[upTo(i)] = a[order[i]] + sum[upTo(i - 1)]
    BY <2>2, <2>3
  <2>7. sums[i] = a[order[i]] + sums[i - 1]
    BY <2>5, <2>6
  <2> QED BY <2>4, <2>7
<1>6. sum[Labels] = sum[upTo(K)]
  <2> DEFINE bad == {T \in SUBSET Labels : upTo(K) \subseteq T /\ sum[T] # sum[upTo(K)]}
  <2>1. \A l \in Labels \ upTo(K) : a[l] = 0
    OBVIOUS
  <2>2. upTo(K) \in SUBSET Labels
    BY <1>2
  <2> HIDE DEF upTo, sums
  <2>3. ASSUME bad # {} PROVE FALSE
    <3>1. PICK T \in bad : \A x \in T : T \ {x} \notin bad
      BY <2>3, LeastSubset
    <3>0. upTo(K) \subseteq T /\ T # upTo(K)
      BY <3>1
    <3>2. PICK x \in T : x \notin upTo(K)
      BY <3>0
    <3>3. sum[T] = a[x] + sum[T \ {x}] /\ sum[T \ {x}] \in Int
      BY <1>1, <3>1 DEF Sums
    <3>4. T \ {x} \in SUBSET Labels /\ upTo(K) \subseteq T \ {x}
      BY <3>1, <3>2
    <3>5. sum[T \ {x}] = sum[upTo(K)]
      BY <3>1, <3>4
    <3>6. a[x] = 0
      BY <2>1, <3>1, <3>2
    <3> QED BY <3>1, <3>3, <3>5, <3>6
  <2> QED BY <2>2, <2>3
<1>7. sums[K] = Total(a)
  BY <1>1, <1>6
<1> HIDE DEF sums
<1> QED BY <1>3, <1>4, <1>5, <1>7

-----------------------------------------------------------------------------
(* The subsample *)

LEMMA LeastIs ==
  ASSUME NEW S, S \subseteq Nat, S # {}
  PROVE  Least(S) \in S /\ \A y \in S : Least(S) <= y
<1>1. \E x \in S : \A y \in S : x <= y
  BY LeastNumber
<1> QED BY <1>1 DEF Least

\* Rounding moves a share by at most half a row.
LEMMA RoundedNear ==
  ASSUME NEW a \in Nat, NEW b \in Nat \ {0}
  PROVE  /\ Rounded(a, b) \in Nat
         /\ 2 * (b * Rounded(a, b)) <= 2 * a + b
         /\ 2 * a <= 2 * (b * Rounded(a, b)) + b
<1>1. PICK q \in Nat, m \in 0 .. b - 1 : q = a \div b /\ m = a % b /\ a = (b * q) + m
  <2>1. a \div b \in Nat
    OBVIOUS
  <2>2. a % b \in 0 .. b - 1
    OBVIOUS
  <2>3. a = (b * (a \div b)) + (a % b)
    OBVIOUS
  <2> QED BY <2>1, <2>2, <2>3
<1>2. \/ Rounded(a, b) = q /\ 2 * m <= b
      \/ Rounded(a, b) = q + 1 /\ 2 * m >= b
  BY <1>1 DEF Rounded
<1>3. PICK p \in Nat : p = b * q
  <2>1. b * q \in Nat
    OBVIOUS
  <2> QED BY <2>1
<1>4. b * (q + 1) = p + b
  BY <1>3
<1>5. CASE Rounded(a, b) = q /\ 2 * m <= b
  BY <1>1, <1>3, <1>5
<1>6. CASE Rounded(a, b) = q + 1 /\ 2 * m >= b
  <2>1. b * Rounded(a, b) = p + b
    BY <1>4, <1>6
  <2> QED BY <1>1, <1>3, <1>6, <2>1
<1> QED BY <1>2, <1>5, <1>6

\* The rows one turn of the loop may take: no more than there are, than are
\* still wanted or, but for the last label, than the rounded share.
Limits(from, n, order, i, before) ==
  {from[order[i]], n - before} \cup
    IF i = Len(order) THEN {} ELSE {Rounded(n * from[order[i]], Total(from))}

LEMMA LimitsType ==
  ASSUME NEW from \in [Labels -> Nat], NEW n \in Nat, Total(from) \in Nat \ {0},
         NEW order, NEW i \in 1 .. Len(order), order[i] \in Labels,
         NEW before \in 0 .. n
  PROVE  /\ Least(Limits(from, n, order, i, before)) \in Limits(from, n, order, i, before)
         /\ \A y \in Limits(from, n, order, i, before) :
              Least(Limits(from, n, order, i, before)) <= y
         /\ Least(Limits(from, n, order, i, before)) \in 0 .. n - before
<1> DEFINE S == Limits(from, n, order, i, before)
<1>1. from[order[i]] \in Nat /\ n - before \in Nat
  OBVIOUS
<1>2. n * from[order[i]] \in Nat
  BY <1>1
<1>3. Rounded(n * from[order[i]], Total(from)) \in Nat
  BY <1>2, RoundedNear
<1>4. S \subseteq Nat /\ S # {} /\ n - before \in S
  BY <1>1, <1>3 DEF Limits
<1> HIDE DEF S
<1>5. Least(S) \in S /\ \A y \in S : Least(S) <= y
  BY <1>4, LeastIs
<1>6. Least(S) \in Nat /\ Least(S) <= n - before
  BY <1>4, <1>5
<1> QED BY <1>5, <1>6 DEF S

\* The loop never takes more than n rows, and every turn takes the least of its
\* limits.
TakesLeast(from, n, order, K, A) ==
  /\ A \in [0 .. K -> 0 .. n]
  /\ A[0] = 0
  /\ \A i \in 1 .. K : A[i] = A[i - 1] + Least(Limits(from, n, order, i, A[i - 1]))

LEMMA AllocatedLoop ==
  ASSUME NEW from \in [Labels -> Nat], NEW n \in Nat, Total(from) \in Nat \ {0},
         NEW order, NEW K \in Nat, Len(order) = K, \A i \in 1 .. K : order[i] \in Labels,
         NEW A, A = Allocated(from, n, order)
  PROVE  TakesLeast(from, n, order, K, A)
<1> DEFINE Take(i, before) == Least(Limits(from, n, order, i, before))
           Loop(f) == f = [i \in 0 .. K |->
                             IF i = 0 THEN 0 ELSE f[i - 1] + Take(i, f[i - 1])]
           At(f, i) == f[i] = IF i = 0 THEN 0 ELSE f[i - 1] + Take(i, f[i - 1])
<1>0. Len(order) = K
  OBVIOUS
<1>1. A = CHOOSE f : Loop(f)
  BY <1>0 DEF Allocated, Limits
<1>2. \A i \in 1 .. K, before \in 0 .. n : Take(i, before) \in 0 .. n - before
  BY <1>0, LimitsType
<1> HIDE DEF Take
<1> DEFINE good == {m \in Nat : \E f \in [0 .. K -> 0 .. n] :
                                  \A i \in 0 .. K : i <= m => At(f, i)}
<1>3. 0 \in good
  <2> DEFINE f == [i \in 0 .. K |-> 0]
  <2>1. f \in [0 .. K -> 0 .. n]
    OBVIOUS
  <2>2. \A i \in 0 .. K : i <= 0 => At(f, i)
    OBVIOUS
  <2> HIDE DEF f, At
  <2> QED BY <2>1, <2>2
<1>4. ASSUME NEW m \in 0 .. K - 1, m \in good PROVE m + 1 \in good
  <2>1. PICK f \in [0 .. K -> 0 .. n] : \A i \in 0 .. K : i <= m => At(f, i)
    BY <1>4
  <2> DEFINE g == [f EXCEPT ![m + 1] = f[m] + Take(m + 1, f[m])]
  <2>2. /\ m + 1 \in 1 .. K /\ m \in 0 .. K
        /\ m + 1 \in 0 .. K /\ f[m] \in 0 .. n
    OBVIOUS
  <2>3. f[m] + Take(m + 1, f[m]) \in 0 .. n
    <3>1. Take(m + 1, f[m]) \in 0 .. n - f[m]
      BY <1>2, <2>2
    <3> QED BY <2>2, <3>1
  <2>4. g \in [0 .. K -> 0 .. n]
    BY <2>3
  <2>5. ASSUME NEW i \in 0 .. K, i <= m + 1 PROVE At(g, i)
    <3>1. CASE i = m + 1
      <4>1. g[i] = f[m] + Take(m + 1, f[m]) /\ g[i - 1] = f[m] /\ i # 0
        BY <2>2, <3>1
      <4> HIDE DEF g
      <4> QED BY <3>1, <4>1
    <3>2. CASE i <= m
      <4>1. At(f, i)
        BY <2>1, <3>2
      <4>2. g[i] = f[i]
        BY <3>2
      <4>3. i # 0 => g[i - 1] = f[i - 1]
        BY <3>2
      <4> HIDE DEF g
      <4> QED BY <4>1, <4>2, <4>3
    <3> QED BY <2>5, <3>1, <3>2
  <2>6. m + 1 \in Nat
    OBVIOUS
  <2> HIDE DEF g, At
  <2> QED BY <2>4, <2>5, <2>6
<1>5. PICK f \in [0 .. K -> 0 .. n] : \A i \in 0 .. K : At(f, i)
  <2> HIDE DEF good
  <2>1. 0 .. K \subseteq good
    BY <1>3, <1>4, Along
  <2>2. K \in good
    BY <2>1
  <2> HIDE DEF At
  <2> QED BY <2>2 DEF good
<1>6. Loop(f)
  BY <1>5
<1>7. Loop(A)
  BY <1>1, <1>6
<1> HIDE DEF good
<1>8. A[0] = 0 /\ \A i \in 1 .. K : A[i] = A[i - 1] + Take(i, A[i - 1])
  BY <1>7
<1>9. A \in [0 .. K -> 0 .. n]
  <2> DEFINE typed == {i \in 0 .. K : A[i] \in 0 .. n}
  <2>1. 0 \in typed
    BY <1>8
  <2>2. ASSUME NEW i \in 0 .. K - 1, i \in typed PROVE i + 1 \in typed
    <3>1. /\ A[i + 1] = A[i] + Take(i + 1, A[i]) /\ A[i] \in 0 .. n
          /\ Take(i + 1, A[i]) \in 0 .. n - A[i]
      <4>1. i + 1 \in 1 .. K /\ i + 1 - 1 = i /\ A[i] \in 0 .. n
        BY <2>2
      <4>2. A[i + 1] = A[i] + Take(i + 1, A[i])
        BY <1>8, <4>1
      <4>3. Take(i + 1, A[i]) \in 0 .. n - A[i]
        BY <1>2, <4>1
      <4> QED BY <4>1, <4>2, <4>3
    <3> QED BY <3>1
  <2> HIDE DEF typed
  <2>3. 0 .. K \subseteq typed
    BY <2>1, <2>2, Along
  <2>4. \A i \in 0 .. K : A[i] \in 0 .. n
    BY <2>3 DEF typed
  <2>5. A = [i \in 0 .. K |-> A[i]]
    BY <1>7
  <2> QED BY <2>4, <2>5
<1> QED BY <1>8, <1>9 DEF Take, TakesLeast

\* sum[i] is the sum of the first i parts.
Running(K, part, sum) ==
  /\ part \in [1 .. K -> Int] /\ sum \in [0 .. K -> Int]
  /\ sum[0] = 0
  /\ \A i \in 1 .. K : sum[i] = sum[i - 1] + part[i]

LEMMA RunningNext ==
  ASSUME NEW K \in Nat, NEW part, NEW sum, Running(K, part, sum), NEW i \in 0 .. K - 1
  PROVE  /\ sum[i] \in Int /\ sum[i + 1] \in Int /\ part[i + 1] \in Int
         /\ sum[i + 1] = sum[i] + part[i + 1]
<1>1. i + 1 \in 1 .. K /\ i + 1 - 1 = i /\ i \in 0 .. K /\ i + 1 \in 0 .. K
  OBVIOUS
<1> QED BY <1>1 DEF Running

\* Sums of smaller parts grow less.
LEMMA RunningOrder ==
  ASSUME NEW K \in Nat, NEW p, NEW P, NEW q, NEW Q, Running(K, p, P), Running(K, q, Q),
         NEW a \in 0 .. K, NEW b \in a .. K, \A i \in a + 1 .. b : p[i] <= q[i]
  PROVE  P[b] - P[a] <= Q[b] - Q[a]
<1> DEFINE good == {i \in a .. b : P[i] - P[a] <= Q[i] - Q[a]}
<1>1. P[a] \in Int /\ Q[a] \in Int /\ a \in Nat /\ b \in Nat
  BY DEF Running
<1>2. a \in good
  BY <1>1
<1>3. ASSUME NEW i \in a .. b - 1, i \in good PROVE i + 1 \in good
  <2>1. i \in 0 .. K - 1 /\ i + 1 \in a + 1 .. b /\ i + 1 \in a .. b
    OBVIOUS
  <2>2. /\ P[i] \in Int /\ P[i + 1] \in Int /\ p[i + 1] \in Int /\ P[i + 1] = P[i] + p[i + 1]
        /\ Q[i] \in Int /\ Q[i + 1] \in Int /\ q[i + 1] \in Int /\ Q[i + 1] = Q[i] + q[i + 1]
    BY <2>1, RunningNext
  <2>3. p[i + 1] <= q[i + 1] /\ P[i] - P[a] <= Q[i] - Q[a]
    BY <1>3, <2>1
  <2>4. P[i + 1] - P[a] <= Q[i + 1] - Q[a]
    BY <1>1, <2>2, <2>3
  <2> QED BY <2>1, <2>4
<1> HIDE DEF good
<1>4. a .. b \subseteq good
  BY <1>1, <1>2, <1>3, Along
<1> QED BY <1>1, <1>4 DEF good

\* Twice what n rows in unit leave a label behind its share, n * f of all.
Behind(n, unit, f, t) == 2 * ((n * f) - (unit * t))

LEMMA BehindType ==
  ASSUME NEW n \in Int, NEW unit \in Int, NEW f \in Int, NEW t \in Int
  PROVE  Behind(n, unit, f, t) \in Int
BY DEF Behind

LEMMA BehindMono ==
  ASSUME NEW n \in Int, NEW unit \in Nat, NEW f \in Int, NEW t \in Int, NEW u \in Int, t <= u
  PROVE  Behind(n, unit, f, u) <= Behind(n, unit, f, t)
<1>1. PICK d \in Nat : u = t + d
  OBVIOUS
<1>2. unit * u = (unit * t) + (unit * d) /\ unit * d \in Nat
  BY <1>1
<1> HIDE DEF Behind
<1>3. PICK a \in Int, b \in Int, c \in Nat : a = n * f /\ b = unit * t /\ c = unit * d
  BY <1>2
<1>4. 2 * (a - (b + c)) <= 2 * (a - b)
  OBVIOUS
<1> QED BY <1>2, <1>3, <1>4 DEF Behind

LEMMA BehindRunning ==
  ASSUME NEW K \in Nat, NEW n \in Int, NEW unit \in Int,
         NEW f, NEW F, NEW t, NEW A, Running(K, f, F), Running(K, t, A),
         NEW d, d = [i \in 1 .. K |-> Behind(n, unit, f[i], t[i])],
         NEW D, D = [i \in 0 .. K |-> Behind(n, unit, F[i], A[i])]
  PROVE  Running(K, d, D)
<1>1. d \in [1 .. K -> Int] /\ D \in [0 .. K -> Int]
  BY BehindType DEF Running
<1>2. D[0] = 0
  BY DEF Running, Behind
<1>3. ASSUME NEW i \in 1 .. K PROVE D[i] = D[i - 1] + d[i]
  <2>1. i - 1 \in 0 .. K - 1 /\ i - 1 + 1 = i /\ i \in 0 .. K
    OBVIOUS
  <2>2. /\ F[i - 1] \in Int /\ f[i] \in Int /\ F[i] = F[i - 1] + f[i]
        /\ A[i - 1] \in Int /\ t[i] \in Int /\ A[i] = A[i - 1] + t[i]
    BY <2>1, RunningNext
  <2>3. n * F[i] = (n * F[i - 1]) + (n * f[i])
    BY <2>2
  <2>4. unit * A[i] = (unit * A[i - 1]) + (unit * t[i])
    BY <2>2
  <2>5. /\ n * F[i - 1] \in Int /\ n * f[i] \in Int
        /\ unit * A[i - 1] \in Int /\ unit * t[i] \in Int
    BY <2>2
  <2>6. Behind(n, unit, F[i], A[i]) = Behind(n, unit, F[i - 1], A[i - 1]) + Behind(n, unit, f[i], t[i])
    BY <2>3, <2>4, <2>5 DEF Behind
  <2> QED BY <2>1, <2>6
<1> QED BY <1>1, <1>2, <1>3 DEF Running

LEMMA UnitsRunning ==
  ASSUME NEW K \in Nat, NEW unit \in Int,
         NEW p, p = [i \in 1 .. K |-> unit], NEW P, P = [i \in 0 .. K |-> i * unit]
  PROVE  Running(K, p, P)
<1>1. ASSUME NEW i \in 1 .. K PROVE i * unit = (i - 1) * unit + unit
  OBVIOUS
<1>2. \A i \in 0 .. K : i * unit \in Int
  OBVIOUS
<1>3. 0 * unit = 0
  OBVIOUS
<1> QED BY <1>1, <1>2, <1>3 DEF Running

\* One apportionment of n rows by shares f of unit: t is what the loop takes of
\* the K labels, c what is drawn in the end.
Apportionment(K, unit, n, f, F, t, A, c, C) ==
  /\ Running(K, f, F) /\ Running(K, t, A) /\ Running(K, c, C)
  /\ F[K] = unit /\ C[K] = n
  /\ A \in [0 .. K -> 0 .. n]
  /\ \A i \in 1 .. K : /\ f[i] \in Nat /\ t[i] \in 0 .. f[i] /\ t[i] <= c[i]
                       /\ \/ t[i] = f[i]
                          \/ A[i] = n
                          \/ i < K /\ Behind(n, unit, f[i], t[i]) <= unit
                       /\ i < K => -unit <= Behind(n, unit, f[i], t[i])

LEMMA Apportioned ==
  ASSUME NEW K \in Nat \ {0}, NEW unit \in Nat \ {0}, NEW n \in 0 .. unit - 1,
         NEW f, NEW F, NEW t, NEW A, NEW c, NEW C,
         Apportionment(K, unit, n, f, F, t, A, c, C), NEW l \in 1 .. K
  PROVE  /\ Behind(n, unit, f[l], c[l]) <= (K - 1) * unit
         /\ -((K - 1) * unit) <= Behind(n, unit, f[l], c[l])
<1> DEFINE d == [i \in 1 .. K |-> Behind(n, unit, f[i], t[i])]
           D == [i \in 0 .. K |-> Behind(n, unit, F[i], A[i])]
           zero == [i \in 1 .. K |-> 0]
           Zeros == [i \in 0 .. K |-> 0]
           one == [i \in 1 .. K |-> unit]
           H == [i \in 0 .. K |-> i * unit]
           minus == [i \in 1 .. K |-> -unit]
           Minus == [i \in 0 .. K |-> i * (-unit)]
<1>a. K \in Nat /\ n \in Int /\ unit \in Int /\ -unit \in Int /\ n \in Nat /\ unit \in Nat
  OBVIOUS
<1>b. Running(K, f, F) /\ Running(K, t, A) /\ Running(K, c, C)
  BY DEF Apportionment
<1>3. /\ \A i \in 0 .. K : Zeros[i] = 0 /\ Minus[i] = -H[i] /\ H[i] \in Nat
      /\ \A i \in 1 .. K : zero[i] = 0 /\ one[i] = unit /\ minus[i] = -unit
  OBVIOUS
<1>4. H[K - 1] = (K - 1) * unit /\ H[0] = 0
  OBVIOUS
<1>5. \A i \in 1 .. K : d[i] = Behind(n, unit, f[i], t[i])
  OBVIOUS
<1>6. \A i \in 0 .. K : D[i] = Behind(n, unit, F[i], A[i])
  OBVIOUS
<1>c. /\ d = [i \in 1 .. K |-> Behind(n, unit, f[i], t[i])]
      /\ D = [i \in 0 .. K |-> Behind(n, unit, F[i], A[i])]
      /\ zero = [i \in 1 .. K |-> 0] /\ Zeros = [i \in 0 .. K |-> 0]
      /\ one = [i \in 1 .. K |-> unit] /\ H = [i \in 0 .. K |-> i * unit]
      /\ minus = [i \in 1 .. K |-> -unit] /\ Minus = [i \in 0 .. K |-> i * (-unit)]
  OBVIOUS
<1> HIDE DEF d, D, zero, Zeros, one, H, minus, Minus
<1>1. Running(K, d, D)
  BY <1>a, <1>b, <1>c, BehindRunning
<1>2. Running(K, zero, Zeros) /\ Running(K, one, H) /\ Running(K, minus, Minus)
  <2>1. Running(K, zero, Zeros)
    BY <1>c DEF Running
  <2>2. Running(K, one, H)
    BY <1>a, <1>c, UnitsRunning
  <2>3. Running(K, minus, Minus)
    BY <1>a, <1>c, UnitsRunning
  <2> QED BY <2>1, <2>2, <2>3
\* Who got all his rows is not behind.
<1>0. \A i \in 1 .. K : d[i] \in Int /\ (t[i] = f[i] => d[i] <= 0)
  <2> SUFFICES ASSUME NEW i \in 1 .. K PROVE d[i] \in Int /\ (t[i] = f[i] => d[i] <= 0)
    OBVIOUS
  <2>1. f[i] \in Nat /\ n \in Nat /\ unit \in Nat /\ n <= unit
    BY DEF Apportionment
  <2>2. n * f[i] <= unit * f[i] /\ n * f[i] \in Int /\ unit * f[i] \in Int
    BY <2>1
  <2>3. Behind(n, unit, f[i], f[i]) <= 0
    BY <2>2 DEF Behind
  <2> QED BY <1>1, <1>5, <2>3 DEF Running
\* The taken rows only grow, and so do the rows there are.
<1>7. \A a \in 0 .. K : \A b \in a .. K : A[a] <= A[b] /\ F[a] <= F[b] /\ H[a] <= H[b]
  <2> SUFFICES ASSUME NEW a \in 0 .. K, NEW b \in a .. K
               PROVE  A[a] <= A[b] /\ F[a] <= F[b] /\ H[a] <= H[b]
    OBVIOUS
  <2>1. \A i \in a + 1 .. b : zero[i] <= t[i] /\ zero[i] <= f[i] /\ zero[i] <= one[i]
    <3> SUFFICES ASSUME NEW i \in a + 1 .. b
                 PROVE  zero[i] <= t[i] /\ zero[i] <= f[i] /\ zero[i] <= one[i]
      OBVIOUS
    <3>1. i \in 1 .. K
      OBVIOUS
    <3>2. f[i] \in Nat /\ t[i] \in 0 .. f[i]
      BY <3>1 DEF Apportionment
    <3> QED BY <1>3, <1>a, <3>1, <3>2
  <2>2. Running(K, t, A) /\ Running(K, f, F)
    BY DEF Apportionment
  <2>3. /\ Zeros[b] - Zeros[a] <= A[b] - A[a]
        /\ Zeros[b] - Zeros[a] <= F[b] - F[a]
        /\ Zeros[b] - Zeros[a] <= H[b] - H[a]
    BY <1>2, <2>1, <2>2, RunningOrder
  <2>4. /\ A[a] \in Int /\ A[b] \in Int /\ F[a] \in Int /\ F[b] \in Int
        /\ H[a] \in Int /\ H[b] \in Int /\ Zeros[a] = 0 /\ Zeros[b] = 0
    <3>1. a \in 0 .. K /\ b \in 0 .. K
      OBVIOUS
    <3>2. A[a] \in Int /\ A[b] \in Int
      BY <2>2, <3>1 DEF Running
    <3>3. F[a] \in Int /\ F[b] \in Int
      BY <2>2, <3>1 DEF Running
    <3>4. H[a] \in Int /\ H[b] \in Int /\ Zeros[a] = 0 /\ Zeros[b] = 0
      BY <1>3, <3>1
    <3> QED BY <3>2, <3>3, <3>4
  <2> QED BY <2>3, <2>4
\* A full sample is never behind.
<1>8. ASSUME NEW i \in 0 .. K, A[i] = n PROVE D[i] <= 0
  <2>1. F[i] <= unit /\ F[i] \in Int /\ n \in Int /\ unit \in Nat
    <3>1. i \in 0 .. K /\ K \in i .. K
      BY <1>a
    <3>2. F[i] <= F[K]
      BY <1>7, <3>1
    <3>3. F[K] = unit
      BY DEF Apportionment
    <3>4. F[i] \in Int
      BY <1>b, <3>1 DEF Running
    <3> QED BY <1>a, <3>2, <3>3, <3>4
  <2>2. Behind(n, unit, F[i], n) = 2 * (n * (F[i] - unit))
    <3>1. n * (F[i] - unit) = (n * F[i]) - (unit * n)
      BY <2>1
    <3> QED BY <3>1 DEF Behind
  <2>3. n * (F[i] - unit) <= 0
    BY <2>1
  <2>4. n * (F[i] - unit) \in Int
    BY <2>1
  <2> QED BY <1>6, <1>8, <2>2, <2>3, <2>4
\* Until the last label the loop runs ahead of the shares by half a row at most.
<1>9. \A i \in 0 .. K - 1 : -H[i] <= D[i]
  <2> SUFFICES ASSUME NEW i \in 0 .. K - 1 PROVE -H[i] <= D[i]
    OBVIOUS
  <2>1. \A j \in 0 + 1 .. i : minus[j] <= d[j]
    BY <1>3, <1>5 DEF Apportionment
  <2>2. Minus[i] - Minus[0] <= D[i] - D[0]
    BY <1>1, <1>2, <2>1, RunningOrder
  <2>3. D[0] = 0 /\ D[i] \in Int /\ Minus[0] = 0 /\ Minus[i] = -H[i] /\ H[i] \in Nat
    <3>1. i \in 0 .. K
      OBVIOUS
    <3>2. D[0] = 0 /\ D[i] \in Int /\ Minus[0] = 0
      BY <1>1, <1>2, <3>1 DEF Running
    <3> QED BY <1>3, <3>1, <3>2
  <2> QED BY <2>2, <2>3
\* While rows are left it falls behind by half a row at most.
<1>10. \A a \in 0 .. K - 1 : \A b \in a .. K - 1 : A[b] # n => D[b] - D[a] <= H[b] - H[a]
  <2> SUFFICES ASSUME NEW a \in 0 .. K - 1, NEW b \in a .. K - 1, A[b] # n
               PROVE  D[b] - D[a] <= H[b] - H[a]
    OBVIOUS
  <2>1. ASSUME NEW i \in a + 1 .. b PROVE d[i] <= one[i]
    <3>1. A[i] <= A[b] /\ A[i] \in 0 .. n /\ A[b] \in 0 .. n
      BY <1>7 DEF Apportionment
    <3>2. A[i] # n
      BY <3>1
    <3>3. \/ t[i] = f[i]
          \/ Behind(n, unit, f[i], t[i]) <= unit
      BY <3>2 DEF Apportionment
    <3>5. d[i] = Behind(n, unit, f[i], t[i]) /\ one[i] = unit /\ d[i] \in Int
      BY <1>1, <1>3, <1>5 DEF Running
    <3> QED BY <1>0, <3>3, <3>5
  <2> QED BY <1>1, <1>2, <2>1, RunningOrder
<1>11. /\ D[l] = D[l - 1] + d[l] /\ D[K] = D[K - 1] + d[K]
       /\ C[l] = C[l - 1] + c[l] /\ A[l] = A[l - 1] + t[l] /\ H[l] = H[l - 1] + unit
       /\ {D[l], D[l - 1], D[K], D[K - 1], d[l], d[K], H[l], H[l - 1], H[K - 1],
           C[l], C[l - 1], c[l], A[l], A[l - 1], A[K], t[l], f[l]} \subseteq Int
       /\ D[0] = 0 /\ A[0] = 0 /\ C[0] = 0 /\ C[K] = n
  <2>1. /\ l - 1 \in 0 .. K - 1 /\ l - 1 + 1 = l /\ K - 1 \in 0 .. K - 1 /\ K - 1 + 1 = K
        /\ l \in 0 .. K /\ K \in 1 .. K /\ one[l] = unit
    BY <1>3
  <2>2. Running(K, t, A) /\ Running(K, c, C) /\ f[l] \in Nat
    BY DEF Apportionment
  <2>3. /\ D[l] = D[l - 1] + d[l] /\ {D[l], D[l - 1], d[l]} \subseteq Int
        /\ D[K] = D[K - 1] + d[K] /\ {D[K], D[K - 1], d[K]} \subseteq Int
        /\ C[l] = C[l - 1] + c[l] /\ {C[l], C[l - 1], c[l]} \subseteq Int
        /\ A[l] = A[l - 1] + t[l] /\ {A[l], A[l - 1], t[l], A[K]} \subseteq Int
        /\ H[l] = H[l - 1] + one[l] /\ {H[l], H[l - 1], H[K - 1]} \subseteq Int
    BY <1>1, <1>2, <2>1, <2>2 DEF Running
  <2>4. D[0] = 0 /\ A[0] = 0 /\ C[0] = 0 /\ C[K] = n
    BY <1>1, <2>2 DEF Running, Apportionment
  <2> QED BY <2>1, <2>2, <2>3, <2>4
<1> DEFINE B == Behind(n, unit, f[l], c[l])
<1>12. B \in Int /\ B <= d[l]
  <2>1. t[l] <= c[l]
    BY DEF Apportionment
  <2>2. t[l] \in Int /\ c[l] \in Int /\ f[l] \in Int
    BY <1>11
  <2>3. B \in Int
    BY <1>a, <2>2, BehindType
  <2>4. B <= Behind(n, unit, f[l], t[l])
    BY <1>a, <2>1, <2>2, BehindMono
  <2> QED BY <1>5, <2>3, <2>4
<1>13. 0 <= H[K - 1] /\ H[l - 1] <= H[K - 1] /\ (l < K => unit <= H[K - 1])
  <2>1. H[l - 1] <= H[K - 1] /\ 0 <= H[l - 1]
    BY <1>3, <1>7
  <2>2. l < K => H[l] <= H[K - 1]
    BY <1>7
  <2> QED BY <1>11, <2>1, <2>2
<1>14. B <= H[K - 1]
  <2>1. CASE t[l] = f[l]
    BY <1>0, <1>11, <1>12, <1>13, <2>1
  <2>2. CASE A[l] = n
    <3>1. D[l] <= 0 /\ -H[l - 1] <= D[l - 1]
      BY <1>8, <1>9, <2>2
    <3> QED BY <1>11, <1>12, <1>13, <3>1
  <2>3. CASE l < K /\ Behind(n, unit, f[l], t[l]) <= unit
    BY <1>5, <1>11, <1>12, <1>13, <2>3
  <2> QED BY <2>1, <2>2, <2>3 DEF Apportionment
\* The rows that fill up come on top of what is taken.
<1>15. c[l] - t[l] <= n - A[K] /\ t[l] <= c[l] /\ A[K] <= n
  <2>1. /\ \A i \in 0 + 1 .. l - 1 : t[i] <= c[i]
        /\ \A i \in l + 1 .. K : t[i] <= c[i]
        /\ Running(K, t, A) /\ Running(K, c, C) /\ t[l] <= c[l] /\ A[K] <= n
    BY DEF Apportionment
  <2>2. A[l - 1] - A[0] <= C[l - 1] - C[0] /\ A[K] - A[l] <= C[K] - C[l]
    BY <2>1, RunningOrder
  <2> QED BY <1>11, <2>1, <2>2
<1>16. A[K - 1] # n => D[K - 1] <= H[K - 1]
  <2>1. 0 \in 0 .. K - 1 /\ K - 1 \in 0 .. K - 1
    OBVIOUS
  <2>2. A[K - 1] # n => D[K - 1] - D[0] <= H[K - 1] - H[0]
    BY <1>10, <2>1
  <2> QED BY <1>4, <1>11, <2>2
<1>17. -H[K - 1] <= B
  <2>1. CASE A[K] = n
    <3>1. c[l] = t[l]
      BY <1>11, <1>15, <2>1
    <3>2. B = d[l]
      BY <1>5, <3>1
    <3>3. CASE l < K
      <4>1. -unit <= d[l]
        BY <1>5, <3>3 DEF Apportionment
      <4> QED BY <1>11, <1>13, <3>2, <3>3, <4>1
    <3>4. CASE l = K
      <4>1. D[K] = 0
        <5>1. D[K] = Behind(n, unit, unit, n)
          BY <1>6, <2>1 DEF Apportionment
        <5>2. n * unit = unit * n /\ n * unit \in Int
          OBVIOUS
        <5> QED BY <5>1, <5>2 DEF Behind
      <4>2. D[K - 1] <= H[K - 1]
        <5>1. A[K - 1] = n => D[K - 1] <= 0
          BY <1>8
        <5> QED BY <1>11, <1>13, <1>16, <5>1
      <4> QED BY <1>11, <3>2, <3>4, <4>1, <4>2
    <3> QED BY <3>3, <3>4
  <2>2. CASE A[K] # n
    <3> DEFINE rest == n - A[K]
    <3>1. rest \in Int /\ A[K] < n
      <4>1. A[K] \in Int /\ A[K] <= n
        BY <1>11, <1>15
      <4> QED BY <1>a, <2>2, <4>1
    <3>0. 0 \in Int /\ t[l] \in Int /\ c[l] \in Int /\ f[l] \in Int /\ A[K] \in Int
      BY <1>11
    <3> HIDE DEF rest
    <3>2. d[l] - D[K] <= B
      <4> DEFINE v == t[l] + rest
      <4>1. v \in Int /\ c[l] <= v
        BY <1>15, <3>0, <3>1 DEF rest
      <4> HIDE DEF v
      <4>2. Behind(n, unit, f[l], v) <= B
        BY <1>a, <3>0, <4>1, BehindMono
      <4>3. Behind(n, unit, f[l], v) = Behind(n, unit, f[l], t[l]) - 2 * (unit * rest)
        <5>1. unit * v = (unit * t[l]) + (unit * rest)
          BY <1>a, <3>0, <3>1 DEF v
        <5>2. n * f[l] \in Int /\ unit * t[l] \in Int /\ unit * rest \in Int
          BY <1>a, <3>0, <3>1
        <5> QED BY <5>1, <5>2 DEF Behind
      <4>4. Behind(n, unit, unit, n) = Behind(n, unit, unit, A[K]) - 2 * (unit * rest)
        <5>1. unit * n = (unit * A[K]) + (unit * rest)
          BY <1>a, <3>0 DEF rest
        <5>2. n * unit \in Int /\ unit * A[K] \in Int /\ unit * rest \in Int
          BY <1>a, <3>0, <3>1
        <5> QED BY <5>1, <5>2 DEF Behind
      <4>5. Behind(n, unit, unit, n) = 0
        <5>1. n * unit = unit * n /\ n * unit \in Int
          OBVIOUS
        <5> QED BY <5>1 DEF Behind
      <4>6. D[K] = Behind(n, unit, unit, A[K])
        BY <1>6 DEF Apportionment
      <4>7. PICK r \in Int : r = 2 * (unit * rest)
        BY <1>a, <3>1
      <4> HIDE DEF B
      <4>8. D[K] - r = 0
        BY <4>4, <4>5, <4>6, <4>7
      <4>9. d[l] - r <= B
        BY <1>5, <4>2, <4>3, <4>7
      <4> QED BY <1>11, <1>12, <4>8, <4>9
    <3>3. d[K] <= 0
      <4>1. t[K] = f[K]
        BY <2>2 DEF Apportionment
      <4> QED BY <1>0, <4>1
    <3>4. A[K - 1] # n /\ A[l - 1] # n
      <4>1. A[K - 1] <= A[K] /\ A[l - 1] <= A[K]
        BY <1>7
      <4> QED BY <1>11, <3>1, <4>1
    <3>5. CASE l = K
      BY <1>11, <1>12, <1>16, <3>2, <3>3, <3>4, <3>5
    <3>6. CASE l < K
      <4>1. /\ D[K - 1] - D[l] <= H[K - 1] - H[l]
            /\ D[l - 1] - D[0] <= H[l - 1] - H[0]
        BY <1>10, <3>4, <3>6
      <4> HIDE DEF B
      <4> QED BY <1>4, <1>11, <1>12, <3>2, <3>3, <4>1
    <3> QED BY <3>5, <3>6
  <2> QED BY <2>1, <2>2
<1> QED BY <1>4, <1>14, <1>17

LEMMA TotalType ==
  ASSUME IsFiniteSet(Labels)
  PROVE  /\ \A a \in [Labels -> Nat] : Total(a) \in Nat
         /\ Total(Zero) = 0
<1>1. ASSUME NEW a \in [Labels -> Nat] PROVE Total(a) \in Nat
  <2>1. a \in [Labels -> Int]
    OBVIOUS
  <2>2. PICK sum : Sums(a, sum) /\ Total(a) = sum[Labels]
    BY <2>1, TotalSums
  <2> DEFINE bad == {T \in SUBSET Labels : sum[T] \notin Nat}
  <2>3. ASSUME bad # {} PROVE FALSE
    <3>1. PICK T \in bad : \A x \in T : T \ {x} \notin bad
      BY <2>3, LeastSubset
    <3>2. T # {}
      <4>1. sum[{}] \in Nat
        BY <2>2 DEF Sums
      <4> QED BY <3>1, <4>1
    <3>3. PICK x \in T : TRUE
      BY <3>2
    <3>4. sum[T \ {x}] \in Nat /\ a[x] \in Nat
      BY <3>1, <3>3
    <3>5. sum[T] = a[x] + sum[T \ {x}]
      BY <2>2, <3>1, <3>3 DEF Sums
    <3> QED BY <3>1, <3>4, <3>5
  <2> QED BY <2>2, <2>3
<1>2. Total(Zero) = 0
  <2>1. Zero \in [Labels -> Int]
    BY DEF Zero
  <2> DEFINE order == <<>>
  <2>2. order \in [1 .. 0 -> Labels] /\ \A i, j \in 1 .. 0 : i # j => order[i] # order[j]
    OBVIOUS
  <2>3. \A l \in Labels : Zero[l] = 0
    BY DEF Zero
  <2> HIDE DEF order
  <2>4. 0 \in Nat
    OBVIOUS
  <2>5. \E sums \in [0 .. 0 -> Int] : sums[0] = 0 /\ sums[0] = Total(Zero)
    BY <2>1, <2>2, <2>3, <2>4, RunningSums
  <2> QED BY <2>5
<1> QED BY <1>1, <1>2

\* What the loop and the leftovers draw is apportioned.
LEMMA ProportionalShares ==
  ASSUME IsFiniteSet(Labels), NEW from \in [Labels -> Nat], NEW n \in 1 .. Total(from) - 1,
         NEW order \in SetToSeqs({l \in Labels : from[l] > 0}),
         NEW c \in Proportional(from, n, order), NEW l \in Labels
  PROVE  /\ Behind(n, Total(from), from[l], c[l]) <= (Cardinality(Labels) - 1) * Total(from)
         /\ -((Cardinality(Labels) - 1) * Total(from)) <= Behind(n, Total(from), from[l], c[l])
<1> DEFINE S == {x \in Labels : from[x] > 0}
           unit == Total(from)
           K == Cardinality(S)
           A == Allocated(from, n, order)
           f == [i \in 1 .. K |-> from[order[i]]]
           t == [i \in 1 .. K |-> A[i] - A[i - 1]]
           d == [i \in 1 .. K |-> c[order[i]]]
<1>1. /\ IsFiniteSet(S) /\ K <= Cardinality(Labels) /\ K \in Nat /\ Cardinality(Labels) \in Nat
  <2>1. S \in SUBSET Labels
    OBVIOUS
  <2> HIDE DEF S
  <2> QED BY <2>1, FS_Subset, FS_CardinalityType
<1>2. /\ order \in [1 .. K -> S] /\ Len(order) = K
      /\ \A i, j \in 1 .. K : i # j => order[i] # order[j]
      /\ \A x \in S : \E i \in 1 .. K : order[i] = x
  BY <1>1, OrderCovers
<1>3. \A x \in Labels : x \in S <=> from[x] > 0
  OBVIOUS
<1>4. unit \in Nat \ {0} /\ n \in 0 .. unit - 1 /\ n \in Nat
  <2>1. unit \in Nat
    BY TotalType
  <2> QED BY <2>1
<1>5. /\ c \in [Labels -> 0 .. n] /\ Total(c) = n
      /\ \A x \in Labels : c[x] <= from[x]
      /\ \A i \in 1 .. K : A[i] - A[i - 1] <= c[order[i]]
  <2>1. DOMAIN order = 1 .. K
    BY <1>2
  <2> QED BY <2>1 DEF Proportional
<1> HIDE DEF S, unit, K, A, f, t, d
<1>6. order \in [1 .. K -> Labels]
  BY <1>2 DEF S
<1>7. PICK F \in [0 .. K -> Int] :
        /\ F[0] = 0 /\ \A i \in 1 .. K : F[i] = F[i - 1] + from[order[i]]
        /\ F[K] = unit
  <2>1. from \in [Labels -> Int] /\ \A x \in Labels : from[x] # 0 => \E i \in 1 .. K : order[i] = x
    BY <1>2, <1>3
  <2>2. K \in Nat /\ \A i, j \in 1 .. K : i # j => order[i] # order[j]
    BY <1>1, <1>2
  <2> QED BY <1>6, <2>1, <2>2, RunningSums DEF unit
<1>8. PICK C \in [0 .. K -> Int] :
        /\ C[0] = 0 /\ \A i \in 1 .. K : C[i] = C[i - 1] + c[order[i]]
        /\ C[K] = n
  <2>1. c \in [Labels -> Int] /\ \A x \in Labels : c[x] # 0 => \E i \in 1 .. K : order[i] = x
    BY <1>2, <1>3, <1>5
  <2>2. K \in Nat /\ \A i, j \in 1 .. K : i # j => order[i] # order[j]
    BY <1>1, <1>2
  <2>3. Total(c) = n
    BY <1>5
  <2> QED BY <1>6, <2>1, <2>2, <2>3, RunningSums
<1>9. /\ A \in [0 .. K -> 0 .. n] /\ A[0] = 0
      /\ \A i \in 1 .. K : A[i] = A[i - 1] + Least(Limits(from, n, order, i, A[i - 1]))
  <2>1. /\ \A i \in 1 .. K : order[i] \in Labels
        /\ Len(order) = K /\ K \in Nat /\ n \in Nat /\ Total(from) \in Nat \ {0}
    BY <1>1, <1>2, <1>4, <1>6 DEF unit
  <2>2. A = Allocated(from, n, order)
    BY DEF A
  <2>3. TakesLeast(from, n, order, K, A)
    BY <2>1, <2>2, AllocatedLoop
  <2> QED BY <2>3 DEF TakesLeast
<1>10. Running(K, f, F) /\ Running(K, d, C)
  <2>1. f \in [1 .. K -> Int] /\ d \in [1 .. K -> Int]
    BY <1>5, <1>6 DEF f, d
  <2>2. \A i \in 1 .. K : f[i] = from[order[i]] /\ d[i] = c[order[i]]
    BY DEF f, d
  <2> QED BY <1>7, <1>8, <2>1, <2>2 DEF Running
<1>11. Running(K, t, A)
  <2>1. ASSUME NEW i \in 1 .. K PROVE A[i] \in Int /\ A[i - 1] \in Int /\ t[i] = A[i] - A[i - 1]
    <3>1. i \in 0 .. K /\ i - 1 \in 0 .. K
      BY <1>1
    <3> QED BY <1>9, <3>1 DEF t
  <2>2. t \in [1 .. K -> Int] /\ A \in [0 .. K -> Int]
    BY <1>9, <2>1 DEF t
  <2> QED BY <1>9, <2>1, <2>2 DEF Running
<1>12. ASSUME NEW i \in 1 .. K
       PROVE  /\ f[i] \in Nat /\ t[i] \in 0 .. f[i] /\ t[i] <= d[i]
              /\ \/ t[i] = f[i]
                 \/ A[i] = n
                 \/ i < K /\ Behind(n, unit, f[i], t[i]) <= unit
              /\ i < K => -unit <= Behind(n, unit, f[i], t[i])
  <2> DEFINE least == Least(Limits(from, n, order, i, A[i - 1]))
             share == Rounded(n * f[i], unit)
  <2>1. /\ f[i] = from[order[i]] /\ d[i] = c[order[i]] /\ t[i] = A[i] - A[i - 1]
        /\ f[i] \in Nat /\ order[i] \in Labels
    BY <1>6 DEF f, t, d
  <2>2. A[i - 1] \in 0 .. n /\ A[i] \in 0 .. n /\ A[i] = A[i - 1] + least
    <3>1. i \in 0 .. K /\ i - 1 \in 0 .. K
      BY <1>1
    <3>2. A[i - 1] \in 0 .. n /\ A[i] \in 0 .. n
      BY <1>9, <3>1
    <3> QED BY <1>9, <3>2
  <2>3. /\ least \in Limits(from, n, order, i, A[i - 1])
        /\ \A y \in Limits(from, n, order, i, A[i - 1]) : least <= y
        /\ least \in 0 .. n - A[i - 1]
    <3>1. i \in 1 .. Len(order)
      BY <1>2
    <3> QED BY <1>4, <2>1, <2>2, <3>1, LimitsType DEF unit
  <2>4. Limits(from, n, order, i, A[i - 1]) = {f[i], n - A[i - 1]} \cup IF i = K THEN {} ELSE {share}
    BY <1>2, <2>1 DEF Limits, unit
  <2>5. t[i] = least
    BY <2>1, <2>2, <2>3
  <2>6. t[i] <= d[i]
    BY <1>5, <2>1
  <2>7. /\ share \in Nat
        /\ 2 * (unit * share) <= 2 * (n * f[i]) + unit
        /\ 2 * (n * f[i]) <= 2 * (unit * share) + unit
    <3>1. n * f[i] \in Nat
      BY <1>4, <2>1
    <3> QED BY <1>4, <3>1, RoundedNear
  <2> HIDE DEF least, share
  <2>8. t[i] \in 0 .. f[i] /\ t[i] \in Nat
    BY <2>1, <2>3, <2>4, <2>5
  <2>9. \/ t[i] = f[i]
        \/ t[i] = n - A[i - 1]
        \/ i # K /\ t[i] = share
    BY <2>3, <2>4, <2>5
  <2>10. i # K => t[i] <= share
    BY <2>3, <2>4, <2>5
  <2>11. t[i] = n - A[i - 1] => A[i] = n
    BY <2>2, <2>5, <1>4
  <2>12. i < K <=> i # K
    BY <1>1
  <2>13. PICK a \in Int, b \in Int : a = n * f[i] /\ b = unit * share
    BY <1>4, <2>1, <2>7
  <2>14. i # K => -unit <= Behind(n, unit, f[i], t[i])
    <3>1. Behind(n, unit, f[i], share) = 2 * (a - b)
      BY <2>13 DEF Behind
    <3>2. -unit <= Behind(n, unit, f[i], share)
      BY <1>4, <2>7, <2>13, <3>1
    <3>0. n \in Int /\ unit \in Nat /\ unit \in Int /\ f[i] \in Int /\ share \in Int /\ t[i] \in Int
      BY <1>4, <2>1, <2>7, <2>8
    <3>3. i # K => Behind(n, unit, f[i], share) <= Behind(n, unit, f[i], t[i])
      BY <2>10, <3>0, BehindMono
    <3>4. Behind(n, unit, f[i], share) \in Int /\ Behind(n, unit, f[i], t[i]) \in Int
      BY <3>0, BehindType
    <3> QED BY <1>4, <3>2, <3>3, <3>4
  <2>15. t[i] = share => Behind(n, unit, f[i], t[i]) <= unit
    <3>1. Behind(n, unit, f[i], share) = 2 * (a - b)
      BY <2>13 DEF Behind
    <3> QED BY <1>4, <2>7, <2>13, <3>1
  <2> QED BY <2>1, <2>6, <2>8, <2>9, <2>11, <2>12, <2>14, <2>15
<1>13. Apportionment(K, unit, n, f, F, t, A, d, C)
  <2> QED BY <1>7, <1>8, <1>9, <1>10, <1>11, <1>12 DEF Apportionment
<1>14. K \in Nat \ {0}
  BY <1>1, <1>4, <1>7
<1>15. (K - 1) * unit <= (Cardinality(Labels) - 1) * unit
  <2>1. PICK m \in Nat, k \in Nat : k = K - 1 /\ Cardinality(Labels) - 1 = k + m
    <3>1. K - 1 \in Nat /\ Cardinality(Labels) - K \in Nat
      BY <1>1, <1>14
    <3>2. Cardinality(Labels) - 1 = (K - 1) + (Cardinality(Labels) - K)
      BY <1>1
    <3> QED BY <3>1, <3>2
  <2>2. (k + m) * unit = (k * unit) + (m * unit) /\ m * unit \in Nat /\ k * unit \in Nat
    BY <1>4
  <2> QED BY <2>1, <2>2
<1>16. CASE l \in S
  <2>1. PICK i \in 1 .. K : order[i] = l
    BY <1>2, <1>16
  <2>2. f[i] = from[l] /\ d[i] = c[l]
    BY <2>1 DEF f, d
  <2>3. /\ Behind(n, unit, f[i], d[i]) <= (K - 1) * unit
        /\ -((K - 1) * unit) <= Behind(n, unit, f[i], d[i])
    BY <1>4, <1>13, <1>14, Apportioned
  <2>4. PICK p \in Int, q \in Int : p = (K - 1) * unit /\ q = (Cardinality(Labels) - 1) * unit
    BY <1>1, <1>4
  <2>5. Behind(n, unit, from[l], c[l]) \in Int
    <3>1. from[l] \in Int /\ c[l] \in Int /\ n \in Int /\ unit \in Int
      BY <1>4, <1>5
    <3> QED BY <3>1, BehindType
  <2>6. /\ Behind(n, unit, from[l], c[l]) <= p /\ -p <= Behind(n, unit, from[l], c[l])
    BY <2>2, <2>3, <2>4
  <2>7. p <= q
    BY <1>15, <2>4
  <2> QED BY <2>4, <2>5, <2>6, <2>7 DEF unit
<1>17. CASE l \notin S
  <2>1. from[l] = 0 /\ c[l] = 0
    BY <1>3, <1>5, <1>17
  <2>2. Behind(n, unit, from[l], c[l]) = 0
    <3>1. n * 0 = 0 /\ unit * 0 = 0
      BY <1>4
    <3> QED BY <2>1, <3>1 DEF Behind
  <2>3. (K - 1) * unit \in Nat
    BY <1>4, <1>14
  <2>4. (Cardinality(Labels) - 1) * unit \in Nat
    BY <1>1, <1>4, <1>14
  <2> QED BY <2>2, <2>4 DEF unit
<1> QED BY <1>16, <1>17

\* A sample of n rows out of from is in proportion: no label is further from
\* its share than half a row for every other label.
InShare(from, n, drawn) ==
  LET m == Least({n, Total(from)})
      most == (Cardinality(Labels) - 1) * Total(from)
  IN /\ Total(drawn) = m
     /\ \A l \in Labels : /\ 2 * (m * from[l] - Total(from) * drawn[l]) <= most
                          /\ -most <= 2 * (m * from[l] - Total(from) * drawn[l])

LEMMA SampleInShare ==
  ASSUME CorpusAssumption, NEW from \in [Labels -> Nat], NEW n \in Nat,
         NEW drawn \in Subsample(from, n)
  PROVE  InShare(from, n, drawn)
<1> DEFINE unit == Total(from)
           m == Least({n, unit})
           most == (Cardinality(Labels) - 1) * unit
<1>1. IsFiniteSet(Labels) /\ Cardinality(Labels) \in Nat \ {0}
  <2>1. IsFiniteSet(Labels) /\ Labels # {}
    BY DEF CorpusAssumption
  <2> QED BY <2>1, FS_CardinalityType, FS_EmptySet
<1>2. unit \in Nat
  BY <1>1, TotalType
<1>3. m = IF n <= unit THEN n ELSE unit
  BY <1>2, LeastOfTwo
<1>4. most \in Nat
  BY <1>1, <1>2
<1> SUFFICES /\ Total(drawn) = m
             /\ \A l \in Labels : /\ 2 * (m * from[l] - unit * drawn[l]) <= most
                                  /\ -most <= 2 * (m * from[l] - unit * drawn[l])
  BY DEF InShare
<1>5. CASE n >= unit
  <2>1. drawn = from /\ m = unit
    BY <1>2, <1>3, <1>5 DEF Subsample
  <2>2. \A l \in Labels : m * from[l] - unit * drawn[l] = 0
    BY <1>2, <2>1
  <2> HIDE DEF m, unit, most
  <2>3. Total(drawn) = m
    BY <2>1 DEF unit
  <2> QED BY <1>4, <2>2, <2>3
<1>6. CASE ~(n >= unit) /\ n = 0
  <2>1. drawn = Zero /\ m = 0
    BY <1>2, <1>3, <1>6 DEF Subsample
  <2>2. \A l \in Labels : m * from[l] - unit * drawn[l] = 0
    BY <1>2, <2>1 DEF Zero
  <2> HIDE DEF m, unit, most
  <2>3. Total(drawn) = m
    BY <1>1, <2>1, TotalType
  <2> QED BY <1>4, <2>2, <2>3
<1>7. CASE ~(n >= unit) /\ n # 0
  <2>1. PICK order \in SetToSeqs({l \in Labels : from[l] > 0}) : drawn \in Proportional(from, n, order)
    BY <1>7 DEF Subsample
  <2>2. n \in 1 .. Total(from) - 1 /\ m = n
    BY <1>2, <1>3, <1>7
  <2>3. Total(drawn) = n
    BY <2>1 DEF Proportional
  <2>4. \A l \in Labels : /\ Behind(n, unit, from[l], drawn[l]) <= most
                          /\ -most <= Behind(n, unit, from[l], drawn[l])
    BY <1>1, <2>1, <2>2, ProportionalShares
  <2> HIDE DEF m, unit, most
  <2> QED BY <2>2, <2>3, <2>4 DEF Behind
<1> QED BY <1>5, <1>6, <1>7

-----------------------------------------------------------------------------
(* The theorems *)

\* What the loaders keep at every row and every part, for any corpora
\* (loaders.py load_v2_corpus, train.py:95-129).
THEOREM CorpusInvariant == Spec => []CorpusInv
<1>1. Init => CorpusInv
  <2> SUFFICES ASSUME Init PROVE CorpusInv
    OBVIOUS
  <2>1. ReservoirsInv
    <3>1. ToSet(<<>>) = {}
      BY DEF ToSet
    <3> QED BY <3>1, CorpusAssumption, EmptyReservoirs DEF Init, ReservoirsInv
  <2> QED BY <2>1 DEF Init, CorpusInv, Zero, ClassesOnBothSides
<1>2. CorpusInv /\ [Next]_vars => CorpusInv'
  <2> SUFFICES ASSUME CorpusInv, [Next]_vars PROVE CorpusInv'
    OBVIOUS
  <2>1. CASE ScanClapai
    <3>1. ReservoirsInv'
      BY <2>1, CorpusAssumption, ScanReservoirs DEF CorpusInv
    <3> QED BY <2>1, <3>1 DEF ScanClapai, CorpusInv, ClassesOnBothSides
  <2>2. CASE Assemble
    BY <2>2, CorpusAssumption, AssembleKeeps
  <2>3. CASE SplitTrainEval
    BY <2>3, CorpusAssumption, SplitKeeps
  <2>4. CASE UNCHANGED vars
    <3>1. ReservoirsInv'
      BY <2>4, ReservoirsKept DEF CorpusInv, vars
    <3> QED BY <2>4, <3>1 DEF vars, CorpusInv, ClassesOnBothSides
  <2> QED BY <2>1, <2>2, <2>3, <2>4, CorpusAssumption, PartsKeep DEF Next
<1> QED BY <1>1, <1>2, PTL DEF Spec

\* Every reservoir holds as many rows as it could, all different, after any
\* stream and any draws (Algorithm R, loaders.py:616-642).
THEOREM ReservoirsFull == Spec => []ReservoirsFilled
<1>1. CorpusInv => ReservoirsFilled
  <2> SUFFICES ASSUME ReservoirsInv PROVE ReservoirsFilled
    BY DEF CorpusInv
  <2> SUFFICES ASSUME NEW k \in Keys
               PROVE  /\ Len(buckets[k]) = Least({seen[k], Cap[k[1]]})
                      /\ IsInjective(buckets[k])
                      /\ ToSet(buckets[k]) \subseteq 1 .. scanned
                      /\ \A other \in Keys \ {k} : ToSet(buckets[k]) \cap ToSet(buckets[other]) = {}
    BY DEF ReservoirsFilled
  <2>1. Filled(buckets[k], Cap[k[1]], seen[k], scanned)
    BY DEF ReservoirsInv
  <2>2. ToSet(buckets[k]) \subseteq 1 .. scanned
    BY <2>1, FilledRange DEF ReservoirsInv
  <2>3. IsInjective(buckets[k])
    BY <2>1 DEF Filled, IsInjective
  <2> QED BY <2>1, <2>2, <2>3 DEF ReservoirsInv, Filled
<1> QED BY <1>1, CorpusInvariant, PTL

\* A subsample of any corpus has the rows asked for, in the proportions of the
\* labels: the order of the labels, the rounding and the leftovers move none
\* further than half a row for every other label (subsample_rows,
\* loaders.py:376-429).
THEOREM SharesKept == Spec => []ShareKept
<1>1. ShareKept <=> InShare(sample.from, sample.n, sample.drawn)
  BY DEF ShareKept, InShare
<1>2. ASSUME NEW from \in [Labels -> Nat], NEW n \in Nat, NEW drawn \in Subsample(from, n),
             sample' = [from |-> from, n |-> n, drawn |-> drawn]
      PROVE  ShareKept'
  <2>1. InShare(from, n, drawn)
    BY CorpusAssumption, SampleInShare
  <2>2. sample'.from = from /\ sample'.n = n /\ sample'.drawn = drawn
    BY <1>2
  <2> QED BY <2>1, <2>2 DEF ShareKept, InShare
<1>3. Zero \in [Labels -> Nat] /\ 0 \in Nat /\ Zero \in Subsample(Zero, 0)
  <2>1. Total(Zero) = 0
    BY CorpusAssumption, TotalType DEF CorpusAssumption
  <2> QED BY <2>1 DEF Zero, Subsample
<1>4. InShare(Zero, 0, Zero)
  BY <1>3, CorpusAssumption, SampleInShare
<1>5. sample' = NoSample => ShareKept'
  BY <1>2, <1>3 DEF NoSample
<1>6. Init => ShareKept
  BY <1>1, <1>4 DEF Init, NoSample
<1>7. CorpusInv /\ ShareKept /\ [Next]_vars => ShareKept'
  <2> SUFFICES ASSUME CorpusInv, ShareKept, [Next]_vars PROVE ShareKept'
    OBVIOUS
  <2>1. CASE UNCHANGED sample
    BY <2>1 DEF ShareKept
  <2>2. ASSUME NEW part \in {"tweet_eval", "goemotions"}, NEW target \in Nat,
               LoadSubsampled(part, target)
        PROVE  ShareKept'
    <3>1. PICK from \in Corpora[part] : \E drawn \in Subsample(from, target) :
            sample' = [from |-> from, n |-> target, drawn |-> drawn]
      BY <2>2 DEF LoadSubsampled
    <3>2. from \in [Labels -> Nat]
      BY CorpusAssumption DEF CorpusAssumption
    <3> QED BY <1>2, <3>1, <3>2
  <2>3. CASE Assemble
    <3>1. args.replayN \in Nat /\ mix \in [Labels -> Nat]
      BY CorpusAssumption DEF CorpusInv, CorpusAssumption
    <3>2. \/ sample' = NoSample
          \/ \E drawn \in Subsample(mix, args.replayN) :
               sample' = [from |-> mix, n |-> args.replayN, drawn |-> drawn]
      BY <2>3 DEF Assemble
    <3> QED BY <1>2, <1>5, <3>1, <3>2
  <2>4. args.tweetTarget \in Nat /\ args.goTarget \in Nat
    BY CorpusAssumption DEF CorpusInv, CorpusAssumption
  <2>5. CASE ScanClapai \/ LoadClapai \/ UNCHANGED vars
    BY <2>1, <2>5 DEF ScanClapai, LoadClapai, vars
  <2>6. CASE LoadTweetMl \/ LoadSentiment140 \/ LoadSst2 \/ LoadOwn \/ SplitTrainEval
    BY <1>5, <2>6 DEF LoadTweetMl, LoadSentiment140, LoadSst2, LoadOwn, SplitTrainEval
  <2> QED BY <2>2, <2>3, <2>4, <2>5, <2>6 DEF Next
<1> QED BY <1>6, <1>7, CorpusInvariant, PTL DEF Spec

\* Evaluation takes about a tenth, and a class of two rows or more is on both
\* sides of the split (stratified_indices, train.py:95-129).
THEOREM ClassesSplit == Spec => []ClassesOnBothSides
<1>1. CorpusInv => ClassesOnBothSides
  BY DEF CorpusInv
<1> QED BY <1>1, CorpusInvariant, PTL

=============================================================================
