SPECIFICATION FairSpec
CONSTANTS
  Runs <- MCRuns
  Listed <- MCListed
  Experiment <- MCExperiment
  Retired = {"r2"}
  Status <- MCStatus
  InGcs = {"r1"}
  Params <- MCParams
  Metrics <- MCMetrics
  Objects <- MCObjects
  ParamBatch = 2
  MetricBatch = 2
  CopyModes = {TRUE}
  MaxFaults = 2
  MaxLost = 1
INVARIANTS
  MarkedIsWhole
  OneMarkedCopy
  LeftoversExplained
PROPERTIES
  EveryRunMigrated
