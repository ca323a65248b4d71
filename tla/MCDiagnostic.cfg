SPECIFICATION Spec
CONSTANTS
  Null = Null
  NewLine = "nl"
  Broken = {BrokenName}
  NoText = NoText
  Findings <- MCFindings
  Ids <- MCIds
  Severities <- MCSeverities
  Paths <- MCPaths
  Functions <- MCFunctions
  Messages <- MCMessages
  Filled <- MCFilled
  MaxCalls = 2
  MaxFailures = 1
INVARIANTS
  TypeOK
  ZeroIsWhole
  LinesAreRecords
  SameLesson
  NotesAreCatalogued
  NameIsNumber
CHECK_DEADLOCK FALSE
