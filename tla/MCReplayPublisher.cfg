SPECIFICATION FairSpec
CONSTANTS
  Rows = {1, 2, 3, 4}
  Selections <- MCSelections
  MaxAttempts = 3
  MaxRuns = 2
INVARIANTS
  ChronologicalTopic
  NoGap
  BoundedCopies
PROPERTIES
  RunEnds
  ImplementsPublishJob
CHECK_DEADLOCK FALSE
