CONSTANTS
  Databases <- MCDatabases
  Source <- MCSource
  SheetName <- MCSheetName
  Statements <- MCStatements
  Validators <- MCValidators
SPECIFICATION Spec
CHECK_DEADLOCK FALSE
INVARIANTS EveryTableAccessed
