SPECIFICATION Spec
CONSTANTS
  Null = Null
  Diagnostics <- MCDiagnostics
  CounterLists <- MCCounterLists
  WellFormedNames <- MCNames
  OutcomeNames <- MCOutcomeNames
  ExitStatuses <- MCExitStatuses
  MaxCalls = 2
  MaxFailures = 0
INVARIANT
  EndNeverCrashes
CHECK_DEADLOCK FALSE
