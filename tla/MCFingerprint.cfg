SPECIFICATION FairSpec
CONSTANTS
  Null = Null
  Newline = n
  Byte = {n, x}
  BufferSize = 2
  MaxBytes = 3
  MaxRecords = 2
  AppendOnly = FALSE
  MaxLength = 6
INVARIANTS
  TypeOK
  SuccessDescribes
  RefusalIsDeserved
  FailureIsBlank
PROPERTIES
  CallReturns
  StepsRunOut
CHECK_DEADLOCK FALSE
