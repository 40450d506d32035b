------------------------------ MODULE GoldSplits ------------------------------
(***************************************************************************)
(* Which rows of a reviewed gold set become holdout, dev and train         *)
(* (nlp/eval/merge_gold.py), shared by the flagging of rows for review     *)
(* (prelabel_chunks.py select) and by the merge itself. A seeded random    *)
(* choice is the set of all outcomes it may have.                          *)
(***************************************************************************)
EXTENDS Naturals, FiniteSets, FiniteSetsExt, Functions

CONSTANTS
  Language,  \* Language[i]: the language code of row i
  En         \* the code that the EN stratum holds

ASSUME LanguageAssumption == Language \in [DOMAIN Language -> STRING]

\* stratum_key: a row's class and whether it is English.
Stratum(label, i) == <<label[i], Language[i] = En>>

Strata(label, rows) == {Stratum(label, i) : i \in rows}

Bucket(label, rows, key) == {i \in rows : Stratum(label, i) = key}

\* _interleave_languages: the prefixes of m rows that a round over the
\* languages of a bucket can produce. A language with rows left is at most
\* one row behind any other.
RoundPrefixes(bucket, m) ==
  LET Of(rows, i) == {j \in rows : Language[j] = Language[i]}
  IN {p \in kSubset(m, bucket) :
        \A i \in bucket \ p, j \in p : Cardinality(Of(p, j)) <= Cardinality(Of(p, i)) + 1}

\* _take_round_robin_prefix: an equal prefix of every stratum; random
\* leftovers fill up to n, and too many prefix rows are sampled down.
TakeRoundRobin(label, rows, n) ==
  LET keys == Strata(label, rows)
      quota == IF n < Cardinality(keys) THEN 1 ELSE n \div Cardinality(keys)
      take == [k \in keys |-> LET b == Cardinality(Bucket(label, rows, k))
                              IN IF b < quota THEN b ELSE quota]
      Heads(k) == RoundPrefixes(Bucket(label, rows, k), take[k])
  IN IF FoldFunction(+, 0, take) <= n
     THEN {c \in kSubset(n, rows) : \A k \in keys : \E h \in Heads(k) : h \subseteq c}
     ELSE {c \in kSubset(n, rows) : \A k \in keys : \E h \in Heads(k) :
                                      c \cap Bucket(label, rows, k) \subseteq h}

\* pick_stratified: the sets of rows it may return for n seats.
PickStratified(label, rows, n) ==
  IF n >= Cardinality(rows) THEN {rows} ELSE TakeRoundRobin(label, rows, n)

\* allocate_new_splits: holdout seats first, dev seats from the remainder.
AllocateNewSplits(label, rows, holdout, dev) ==
  UNION {{[i \in rows |-> IF i \in h THEN "holdout" ELSE IF i \in d THEN "dev" ELSE "train"] :
            d \in PickStratified(label, rows \ h, dev)} :
           h \in PickStratified(label, rows, holdout)}

Seats(rows, n) == IF Cardinality(rows) >= n THEN 0 ELSE n - Cardinality(rows)

\* count_holdout, for any split: the rows of gold that sit in it.
InSplit(gold, splits) == {i \in DOMAIN gold : gold[i].split \in splits}

Need(gold, target) == Seats(InSplit(gold, {"holdout"}), target)

\* The union of two dicts of rows; what the first says of a row wins.
Joined(f, g) ==
  [i \in DOMAIN f \cup DOMAIN g |-> IF i \in DOMAIN f THEN f[i] ELSE g[i]]

\* Mutant: the LLM's rows get a full set of seats of their own.
SeatRowsTwice(label, human, llm, holdout, dev) ==
  {Joined(h, l) : h \in AllocateNewSplits(label, human, holdout, dev),
            l \in AllocateNewSplits(label, llm, holdout, dev)}

\* merge_gold_rows: human-labelled rows fill the seats, LLM-labelled rows
\* what is left of them.
SeatRows(label, human, llm, holdout, dev) ==
  UNION {{Joined(h, l) : l \in AllocateNewSplits(label, llm,
                           Seats({i \in human : h[i] = "holdout"}, holdout),
                           Seats({i \in human : h[i] = "dev"}, dev))} :
           h \in AllocateNewSplits(label, human, holdout, dev)}
===============================================================================
