-------------------------- MODULE MCTrainingCorpus --------------------------
\* Command lines that load every part of the mix: the v2 mix with and without
\* its options, and continued runs with gold and replay, with gold alone and
\* with replay alone. tweet_eval holds any three counts up to 5, so that its
\* subsample of six meets every rounding; the other corpora are lopsided.
EXTENDS TrainingCorpus

ByLabel(neg, neu, pos) == [neg |-> neg, neu |-> neu, pos |-> pos]
V2 == [parts |-> {"clapai", "own"}, initFrom |-> FALSE, devFromGold |-> FALSE,
       gold |-> ByLabel(1, 0, 2), dev |-> ByLabel(0, 0, 0), factor |-> 8,
       replayN |-> 5, tweetTarget |-> 6, goTarget |-> 3]
MCArguments == {
  V2,
  [V2 EXCEPT !.parts = {"tweet_eval", "goemotions", "own"}],
  [V2 EXCEPT !.parts = {"tweet_ml", "sentiment140", "sst2"}, !.devFromGold = TRUE],
  [V2 EXCEPT !.parts = {"tweet_ml", "tweet_eval", "own"}, !.initFrom = TRUE,
             !.devFromGold = TRUE, !.dev = ByLabel(1, 0, 0), !.factor = 2],
  [V2 EXCEPT !.initFrom = TRUE, !.replayN = 0],
  [V2 EXCEPT !.parts = {"tweet_eval", "sst2", "own"}, !.initFrom = TRUE,
             !.gold = ByLabel(0, 0, 0), !.replayN = 7]}
MCCap == [en |-> 2, de |-> 1, it |-> 0]
MCCorpora == [tweet_eval |-> [Labels -> 0 .. 5],
              sentiment140 |-> {ByLabel(3, 0, 3)},
              goemotions |-> {ByLabel(1, 4, 1), ByLabel(0, 1, 1)},
              sst2 |-> {ByLabel(2, 0, 3)}]
===============================================================================
