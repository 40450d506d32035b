SPECIFICATION FairSpec
CONSTANTS
  LastReview = 5
  Windows <- MCWindow
  Streams <- MCUpdated
  Chronological = {}
  Member <- MCUpdatedMember
  Rank <- MCUpdatedRank
  Depth <- MCUpdatedDepth
  Tags = {"launch", "general"}
  TagOf <- MCTagOf
  ResumeModes = {TRUE}
  PageSize = 2
  BatchSize = 2
  MaxPages = 3
  CheckpointEvery = 2
  MaxFaults = 2
  NoCheckpoint = NoCheckpoint
INVARIANTS
  WalkInv
PROPERTIES
  EveryReviewArchived
