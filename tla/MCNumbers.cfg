SPECIFICATION Spec
CONSTANTS
  SizeMax = 255
  HexLength = 2
  HexWord = 256
  Characters <- MCCharacters
  MaxLength = 4
INVARIANTS
  TypeOK
  AcceptedIsDenoted
  RefusedIsDeserved
CHECK_DEADLOCK FALSE
