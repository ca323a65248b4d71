SPECIFICATION Spec
CONSTANTS
  Null = Null
  NoFile = NoFile
  Char = {"a", "b"}
  TextMax = 1
  MaxBytes = 14
  MaxRuns = 1
  MaxInterrupts = 0
  Modes = {"verify", "require-clean"}
  Receipts <- AllReceipts
  Foreign <- AllForeign
INVARIANTS
  TypeOK
  ExitZeroIsEarned
  CompleteIsAccepted
  BadDigestMeansRewritten
  BadVersionWasOld
  OneErrorPerFailure
  ExitZeroIsDurable
CHECK_DEADLOCK FALSE
