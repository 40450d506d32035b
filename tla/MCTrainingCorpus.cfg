SPECIFICATION Spec
CONSTANTS
  Labels = {"neg", "neu", "pos"}
  Languages = {"en", "de", "it"}
  Cap <- MCCap
  MaxStream = 5
  Configs = {"english", "french"}
  ConfigRows = 1
  Corpora <- MCCorpora
  TwitterTarget = 6
  Arguments <- MCArguments
INVARIANTS
  ReservoirsFilled
  ShareKept
  ClassesOnBothSides
CHECK_DEADLOCK FALSE
