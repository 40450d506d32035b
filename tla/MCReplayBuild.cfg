SPECIFICATION FairSpec
CONSTANTS
  Records = {1, 2, 3}
  Keys = {1, 2, 3}
  Unparsable = {}
  Refused = {3}
  Unbuildable = {}
  Workers = {w1}
  MaxBundle = 2
  MaxCopies = 1
  MaxMishaps = 0
  Filters <- MCFilters
  FirstStaged = {1, 2}
  MaxBuilds = 2
  MaxPolls = 2
  StablePolls = 1
  QueriesMayFail = FALSE
  Unknown = Unknown
  Absent = Absent
INVARIANTS
  NothingLost
PROPERTIES
  MissingReplaced
  PromotedAfterDrain
  JobDrained
CHECK_DEADLOCK FALSE
