SPECIFICATION CollectSpec
CONSTANTS
  Keys <- MCKeys
  Rows <- MCRows
  Loaders = {l1, l2}
  MaxLoads = 2
  Absent = Absent
  WindowFrom = 1
  WindowTo = 4
  Time <- MCTime
  Videos <- MCVideos
  Event = "launch"
  Threads <- MCThreads
  Subreddits <- MCSubreddits
  Posts <- MCPosts
  Replies <- MCReplies
  Ceiling = 2
  SliceLength = 2
  MaxDepth = 0
  BatchSize = 2
  MaxAttempts = 2
  Second <- MCSecond
  MaxPasses = 3
  MaxFaults = 2
SYMMETRY Symmetry
INVARIANTS
  PassComplete
  StagedWhole
PROPERTIES
  StagingNeverRegresses
  RerunIsNoOp
  LoadSpec
CHECK_DEADLOCK FALSE
