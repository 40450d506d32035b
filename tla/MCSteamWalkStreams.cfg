SPECIFICATION Spec
CONSTANTS
  LastReview = 5
  Windows <- MCWindow
  Streams <- MCTwoStreams
  Chronological <- MCTwoStreams
  Member <- MCTwoMember
  Rank <- MCTwoRank
  Depth <- MCTwoDepth
  Tags = {"launch", "general"}
  TagOf <- MCTagOf
  ResumeModes = {TRUE}
  PageSize = 2
  BatchSize = 2
  MaxPages = 3
  CheckpointEvery = 2
  MaxFaults = 1
  NoCheckpoint = NoCheckpoint
INVARIANTS
  NothingSkipped
