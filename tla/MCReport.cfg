SPECIFICATION Spec
CONSTANTS
  Null = Null
  Diagnostics <- MCDiagnostics
  CounterLists <- MCCounterLists
  WellFormedNames <- MCNames
  OutcomeNames <- MCOutcomeNames
  ExitStatuses <- MCExitStatuses
  MaxCalls = 5
  MaxFailures = 2
INVARIANTS
  TypeOK
  CountIsWritten
  EndedIsFramed
  EndIsHonest
  SummaryKeysDiffer
PROPERTY
  EndedStaysAsItIs
  IsLog
CHECK_DEADLOCK FALSE
