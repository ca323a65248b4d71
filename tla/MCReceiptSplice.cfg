SPECIFICATION Spec
CONSTANTS
  Null = Null
  NoFile = NoFile
  Char = {"a", "b"}
  TextMax = 1
  MaxBytes = 12
  MaxRuns = 2
  MaxInterrupts = 0
  Modes = {"require-clean"}
  Receipts <- SpliceReceipts
  Foreign = {}
INVARIANT
  ValidWasHeld
CHECK_DEADLOCK FALSE
