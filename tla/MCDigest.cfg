SPECIFICATION DigestSpec
CONSTANTS
  Char = {1, 2, 3}
  ByteBase = 4
  WordBytes = 2
  Weight <- MCWeight
  LabelOf <- MCLabelOf
  Receipts <- MCReceipts
  HalfWord = 16
  PrimeHigh = 2
  PrimeLow = 7
  Bytes = {0, 1, 2, 3}
  BitXor <- MCXor
  Offset = 197
INVARIANTS
  DigestBinds
  MultiplyIsProduct
  NoIntermediateWrap
  OneByteShows
CHECK_DEADLOCK FALSE
