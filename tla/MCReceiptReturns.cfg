SPECIFICATION FairSpec
CONSTANTS
  Null = Null
  NoFile = NoFile
  Char = {"a", "b"}
  TextMax = 1
  MaxBytes = 14
  MaxRuns = 1
  MaxInterrupts = 1
  Modes = {"require-clean"}
  Receipts <- SpliceReceipts
  Foreign <- AllForeign
PROPERTIES
  CallReturns
  StepsRunOut
CHECK_DEADLOCK FALSE
