SPECIFICATION Spec
CONSTANTS
  Null = Null
  Newline = n
  Byte = {n, x}
  BufferSize = 2
  MaxBytes = 4
  MaxRecords = 2
  AppendOnly = TRUE
  MaxLength = 6
PROPERTY
  IsSnapshot
CHECK_DEADLOCK FALSE
