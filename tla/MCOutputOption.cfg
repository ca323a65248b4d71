SPECIFICATION Spec
CONSTANTS
  Null = Null
  MaxLength = 6
INVARIANTS
  TypeOK
  StreamsAreApart
  BegunAsAsked
CHECK_DEADLOCK FALSE
