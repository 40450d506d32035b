SPECIFICATION FairSpec
CONSTANTS
  Threads = {t1, t2}
  Texts <- MCTexts
  Blank = {"blank"}
  Fits <- MCFits
  Batches <- MCBatches
  Deployments = {d1, d2}
  Endpoint = Endpoint
  MaxTokens = 240
  MinTokens = 16
  TruncationAttempts = 4
  MaxAttempts = 5
  None = None
INVARIANTS
  TypeOK
  RowsMatchBatch
  OneVersion
  FullProfiles
PROPERTIES
  LadderDecides
  BatchEnds
