SPECIFICATION Spec
CONSTANTS
  LastReview = 5
  Windows <- MCTwoWindows
  Streams <- MCOneStream
  Chronological <- MCOneStream
  Member <- MCMember
  Rank <- MCRank
  Depth <- MCDepth
  Tags = {"launch", "general"}
  TagOf <- MCTagOf
  ResumeModes = {TRUE, FALSE}
  PageSize = 2
  BatchSize = 2
  MaxPages = 3
  CheckpointEvery = 2
  MaxFaults = 2
  NoCheckpoint = NoCheckpoint
INVARIANTS
  TypeOK
  CheckpointBacked
  EndedWalkComplete
PROPERTIES
  ClearedOnlyWhenComplete
