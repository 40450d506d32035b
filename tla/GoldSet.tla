------------------------------- MODULE GoldSet -------------------------------
(***************************************************************************)
(* The life of the gold set: candidates are exported, packed into chunks,  *)
(* labelled by an LLM, flagged for review, reviewed by a human, merged     *)
(* with the gold already there and split (nlp/eval/prelabel_chunks.py,     *)
(* merge_gold.py), and then trained on and evaluated against               *)
(* (nlp/training/train.py, loaders.py, nlp/eval/predict.py,                *)
(* tune_threshold.py). Each command reads and rewrites whole files and is  *)
(* typed by hand, so any of them may follow any other, on either gold      *)
(* file.                                                                   *)
(*                                                                         *)
(* Rows are known by their ids. The files keep no other state, and a       *)
(* command that raises leaves them as they were.                           *)
(***************************************************************************)
EXTENDS GoldSplits, Sequences, SequencesExt

CONSTANTS
  Gold,           \* gold.jsonl: row -> its label, split and label_source
  Exports,        \* the exports of raw_staging that candidates come from
  Text,           \* Text[i]: the text of candidate i
  Prelabels,      \* Prelabels[i]: what the LLM may answer for candidate i
  Verdicts,       \* Verdicts[i]: the labels a human may give it
  ChunkSize,      \* rows per chunk
  HoldoutTarget,  \* DEFAULT_HOLDOUT_TARGET
  DevN,           \* DEFAULT_DEV_N
  MaxSplits,      \* bound: how often chunks are written
  MaxMerges       \* bound: how often gold_v3.jsonl is written

Labels == {"neg", "neu", "pos"}
Splits == {"train", "dev", "holdout"}
Sources == {"human", "llm"}
Candidates == (UNION {ToSet(x) : x \in Exports}) \ DOMAIN Gold

ASSUME GoldAssumption ==
  /\ \A x \in Exports : x \in Seq(ToSet(x))
  /\ IsFiniteSet(DOMAIN Gold) /\ IsFiniteSet(Candidates)
  /\ Gold \in [DOMAIN Gold ->
                [label : Labels, split : Splits, source : {"human"}]]
  /\ \A i \in Candidates : /\ Prelabels[i] \subseteq Labels \X {"high", "low"}
                           /\ Verdicts[i] \subseteq Labels
  /\ ChunkSize \in Nat \ {0}
  /\ {HoldoutTarget, DevN, MaxSplits, MaxMerges} \subseteq Nat

VARIABLES
  chunks,    \* the chunk files, in name order
  splits,    \* history: how often they were written
  llm,       \* what the LLM has written into them so far
  review,    \* gold_v3_review.jsonl: row -> LLM label, label, review_required
  goldV3,    \* gold_v3.jsonl
  preds,     \* the rows of the prediction file
  selected,  \* history: the holdout seats the review was flagged for, if it was
  merges,    \* history: how often gold_v3.jsonl was written
  placed,    \* history: the rows that were ever given a split
  replaced,  \* history: some row was given a split a second time
  trained,   \* history: the rows some model was trained on
  tuned      \* history: the rows outside training that chose a checkpoint or
             \* a threshold

labelling == <<chunks, splits, llm>>
history == <<trained, tuned>>
seating == <<selected, merges, placed, replaced>>
vars == <<labelling, review, goldV3, preds, seating, history>>

Empty == [i \in {} |-> {}]
GoldRow == [label : Labels, split : Splits, source : Sources]
Review == [llm : Labels, low : BOOLEAN, label : Labels \cup {""}, required : BOOLEAN]

Packed == UNION {ToSet(chunks[k]) : k \in DOMAIN chunks}

TypeOK ==
  /\ \A k \in DOMAIN chunks : Len(chunks[k]) \in 1 .. ChunkSize
  /\ \A k, l \in DOMAIN chunks : \A i \in DOMAIN chunks[k], j \in DOMAIN chunks[l] :
       chunks[k][i] = chunks[l][j] => k = l /\ i = j
  /\ Packed \subseteq Candidates
  /\ splits \in 0 .. MaxSplits
  /\ llm \in [DOMAIN llm -> Labels \X {"high", "low"}] /\ DOMAIN llm \subseteq Packed
  /\ review \in [DOMAIN review -> Review] /\ DOMAIN review \subseteq Candidates
  /\ goldV3 \in [DOMAIN goldV3 -> GoldRow]
  /\ preds \subseteq DOMAIN goldV3 \cup placed
  /\ selected \subseteq 0 .. HoldoutTarget
  /\ merges \in 0 .. MaxMerges
  /\ placed \subseteq Candidates
  /\ \A i \in DOMAIN goldV3 : i \in DOMAIN Gold \cup placed
  /\ replaced \in BOOLEAN
  /\ trained \cup tuned \subseteq DOMAIN Gold \cup placed

-----------------------------------------------------------------------------
\* The places of the rows that filter_candidates keeps: the first of every id
\* and every text, without the rows that are gold already.
FirstRows(export, exclude) ==
  {n \in DOMAIN export :
     /\ export[n] \notin exclude
     /\ \A m \in 1 .. n - 1 :
          export[m] \in exclude \/ Text[export[m]] # Text[export[n]]}

\* filter_candidates: those rows, in their order.
FilterCandidates(export, exclude) ==
  LET first == FirstRows(export, exclude)
      Before(n) == {m \in first : m <= n}
  IN [k \in 1 .. Cardinality(first) |->
        export[CHOOSE n \in first : Cardinality(Before(n)) = k]]

\* Mutant: the slices overlap by a row.
SplitOverlapping(rows) ==
  [k \in 1 .. (Len(rows) + ChunkSize - 1) \div ChunkSize |->
     SubSeq(rows, (k - 1) * ChunkSize + 1,
            IF k * ChunkSize < Len(rows) THEN k * ChunkSize + 1 ELSE Len(rows))]

\* split_into_chunks: consecutive packs, the last one possibly shorter.
SplitIntoChunks(rows) ==
  [k \in 1 .. (Len(rows) + ChunkSize - 1) \div ChunkSize |->
     SubSeq(rows, (k - 1) * ChunkSize + 1,
            IF k * ChunkSize < Len(rows) THEN k * ChunkSize ELSE Len(rows))]

\* cmd_split: replaces whatever chunks there were.
Split(export, base) ==
  /\ splits < MaxSplits /\ splits' = splits + 1
  /\ chunks' = SplitIntoChunks(FilterCandidates(export, DOMAIN base))
  /\ llm' = Empty
  /\ UNCHANGED <<review, goldV3, preds, seating, history>>

\* The agent labels one chunk on disk.
Prelabel(k) ==
  /\ ToSet(chunks[k]) \cap DOMAIN llm = {}
  /\ \E answer \in [ToSet(chunks[k]) -> UNION {Prelabels[i] : i \in ToSet(chunks[k])}] :
       /\ \A i \in DOMAIN answer : answer[i] \in Prelabels[i]
       /\ llm' = Joined(llm, answer)
  /\ UNCHANGED <<chunks, splits, review, goldV3, preds, seating, history>>

\* cmd_merge, merge_chunk_rows: raises while a row has no LLM label; the
\* review file starts over with empty labels.
MergeChunks ==
  /\ chunks # <<>> /\ DOMAIN llm = Packed
  /\ review' = [i \in Packed |-> [llm |-> llm[i][1], low |-> llm[i][2] = "low",
                                  label |-> "", required |-> FALSE]]
  /\ selected' = {}
  /\ UNCHANGED <<labelling, goldV3, preds, merges, placed, replaced, history>>

LlmLabel == [i \in DOMAIN review |-> review[i].llm]

\* Mutant: only the seats are flagged for new holdout rows.
RequiredHoldout(seats, i) ==
  review[i].llm = "neg" \/ review[i].low \/ seats[i] = "holdout"

\* mark_review_required: whether row i is for a human to check.
Required(seats, i) ==
  review[i].llm = "neg" \/ review[i].low \/ seats[i] \in {"holdout", "dev"}

\* cmd_select: flags the review file for the gold it is to be merged with.
Select(base) ==
  /\ review # Empty
  /\ \E seats \in AllocateNewSplits(LlmLabel, DOMAIN review, Need(base, HoldoutTarget), DevN) :
       review' = [i \in DOMAIN review |->
                    [review[i] EXCEPT !.required = Required(seats, i)]]
  /\ selected' = {Need(base, HoldoutTarget)}
  /\ UNCHANGED <<labelling, goldV3, preds, merges, placed, replaced, history>>

\* The reviewer fills in the label of a row, flagged or not.
Fill(i) ==
  /\ review[i].label = ""
  /\ \E verdict \in Verdicts[i] : review' = [review EXCEPT ![i].label = verdict]
  /\ UNCHANGED <<labelling, goldV3, preds, seating, history>>

\* resolve_review_row: the rows that become gold. A human label wins over the
\* LLM's, and a flagged row without one is dropped.
Resolved(base) ==
  {i \in DOMAIN review \ DOMAIN base : review[i].label # "" \/ ~review[i].required}

Human(rows) == {i \in rows : review[i].label # ""}

\* merge_gold_rows: existing ids win, whatever the review says of them.
Merged(base, new) == Joined(base, new)

HumanOnly(gold) ==
  Restrict(gold, {i \in DOMAIN gold : ~(gold[i].split = "train" /\ gold[i].source = "llm")})

\* merge_gold, main: writes gold_v3.jsonl from the review and one gold file.
MergeGold(base, humanOnly) ==
  LET rows == Resolved(base)
      need == Need(base, HoldoutTarget)
      label == [i \in rows |-> IF i \in Human(rows) THEN review[i].label ELSE review[i].llm]
  IN
  /\ review # Empty /\ merges < MaxMerges
  /\ \E seats \in SeatRows(label, Human(rows), rows \ Human(rows), need, DevN) :
       LET new == [i \in rows |-> [label |-> label[i], split |-> seats[i],
                                   source |-> IF i \in Human(rows) THEN "human" ELSE "llm"]]
           merged == Merged(base, new)
       IN goldV3' = IF humanOnly THEN HumanOnly(merged) ELSE merged
  /\ merges' = merges + 1
  /\ placed' = placed \cup rows
  /\ replaced' = (replaced \/ rows \cap placed # {})
  /\ UNCHANGED <<labelling, review, preds, selected, history>>

-----------------------------------------------------------------------------
\* Mutant: only the holdout is kept out of training.
OwnDomainSkipsHoldout(gold) == InSplit(gold, {"train", "dev"})

\* load_own_domain: dev and holdout rows are skipped.
OwnDomain(gold) == DOMAIN gold \ InSplit(gold, {"holdout", "dev"})

\* main of train: own-domain rows come from one gold file; the checkpoint is
\* chosen on a tenth of them, or on the dev rows of gold_v3.jsonl.
Train(gold, devFromGold) ==
  /\ OwnDomain(gold) # {}
  /\ devFromGold => InSplit(goldV3, {"dev"}) # {}
  /\ trained' = trained \cup OwnDomain(gold)
  /\ tuned' = IF devFromGold THEN tuned \cup InSplit(goldV3, {"dev"}) ELSE tuned
  /\ UNCHANGED <<labelling, review, goldV3, preds, seating>>

\* predict: one prediction per gold row; raises on an empty file.
Predict ==
  /\ goldV3 # Empty
  /\ preds' = DOMAIN goldV3
  /\ UNCHANGED <<labelling, review, goldV3, seating, history>>

\* join_split: the rows of one split that have a prediction.
JoinSplit(split) == InSplit(goldV3, {split}) \cap preds

\* tune: the threshold is chosen on dev and reported on holdout, the splits
\* that --tune-split and --eval-split default to; either being empty raises.
Tune ==
  /\ JoinSplit("dev") # {} /\ JoinSplit("holdout") # {}
  /\ tuned' = tuned \cup JoinSplit("dev")
  /\ UNCHANGED <<labelling, review, goldV3, preds, seating, trained>>

-----------------------------------------------------------------------------
Init ==
  /\ chunks = <<>> /\ splits = 0 /\ llm = Empty
  /\ review = Empty
  /\ goldV3 = Empty
  /\ preds = {}
  /\ selected = {}
  /\ merges = 0
  /\ placed = {} /\ replaced = FALSE
  /\ trained = {} /\ tuned = {}

\* The gold files that exist.
Bases == {Gold} \cup (IF goldV3 = Empty THEN {} ELSE {goldV3})

Next ==
  \/ \E x \in Exports, base \in Bases : Split(x, base)
  \/ \E k \in DOMAIN chunks : Prelabel(k)
  \/ MergeChunks
  \/ \E base \in Bases : Select(base)
  \/ \E i \in DOMAIN review : Fill(i)
  \/ \E base \in Bases, humanOnly \in BOOLEAN : MergeGold(base, humanOnly)
  \/ \E gold \in Bases, devFromGold \in BOOLEAN : Train(gold, devFromGold)
  \/ Predict
  \/ Tune

Spec == Init /\ [][Next]_vars

-----------------------------------------------------------------------------
\* A step of merge_gold onto base, and the rows it gives one of the splits.
Merging(base) ==
  merges' # merges /\ \E humanOnly \in BOOLEAN : MergeGold(base, humanOnly)
NewIn(base, names) == InSplit(goldV3', names) \ DOMAIN base

\* Flagging and splitting are two allocations of different rows by different
\* labels (prelabel_chunks.py:278 and merge_gold.py:452), and only the number
\* of seats ties them together: when every flagged row was read, and the
\* review was flagged for the gold it is merged with, no row enters holdout
\* or dev on the LLM's word.
SeatsReviewed ==
  [][\A base \in Bases :
       /\ Merging(base)
       /\ selected = {Need(base, HoldoutTarget)}
       /\ DOMAIN review \cap DOMAIN base = {}
       /\ \A i \in DOMAIN review : review[i].required => review[i].label # ""
       => \A i \in NewIn(base, {"holdout", "dev"}) : goldV3'[i].source = "human"]_vars

\* The seats are filled in two rounds, human rows and then LLM rows, and the
\* rounds add up: holdout reaches its target and never passes it, dev gets its
\* number, and a row trains only when no seat was left for it
\* (merge_gold.py:448-461).
SeatCounts ==
  [][\A base \in Bases :
       Merging(base) =>
         LET held == Cardinality(NewIn(base, {"holdout"}))
             dev == Cardinality(NewIn(base, {"dev"}))
             need == Need(base, HoldoutTarget)
         IN /\ held <= need /\ dev <= DevN
            /\ held < need => NewIn(base, {"dev", "train"}) = {}
            /\ dev < DevN => NewIn(base, {"train"}) = {}]_vars

\* As long as no row is split a second time, a row that is held out today was
\* never trained on, and no holdout row helped to choose a checkpoint or a
\* threshold: through further exports, re-merges, dropped LLM rows and
\* predictions that are older than the gold file (loaders.py:266-268).
HeldOutUntouched ==
  ~replaced =>
    /\ trained \cap InSplit(goldV3, {"holdout", "dev"}) = {}
    /\ tuned \cap InSplit(goldV3, {"holdout"}) = {}
===============================================================================
