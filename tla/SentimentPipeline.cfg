SPECIFICATION FairPipelineSpec
CONSTANTS
  Records = {1, 2, 3, 4}
  Unparsable = {3}
  Refused = {4}
  Unbuildable = {2}
  Workers = {w1, w2}
  MaxBundle = 2
  MaxCopies = 1
  MaxMishaps = 2
INVARIANTS
  NothingUnaccounted
  DeadLettersDidNotLand
PROPERTIES
  EveryRecordAnswered
