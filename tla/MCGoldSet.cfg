SPECIFICATION Spec
CONSTANTS
  En = "en"
  Language <- MCLanguage
  Gold <- MCGold
  Exports <- MCExports
  Text <- MCText
  Prelabels <- MCPrelabels
  Verdicts <- MCVerdicts
  ChunkSize = 2
  HoldoutTarget = 2
  DevN = 1
  MaxSplits = 2
  MaxMerges = 2
INVARIANTS
  TypeOK
  HeldOutUntouched
PROPERTIES
  SeatsReviewed
  SeatCounts
