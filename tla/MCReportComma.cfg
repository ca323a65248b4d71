SPECIFICATION Spec
CONSTANTS
  Null = Null
  Diagnostics <- MCDiagnostics
  CounterLists <- MCCounterLists
  WellFormedNames <- MCNames
  OutcomeNames <- MCOutcomeNames
  ExitStatuses <- MCExitStatuses
  MaxCalls = 4
  MaxFailures = 0
INVARIANT
  EndedIsAlwaysFramed
CHECK_DEADLOCK FALSE
