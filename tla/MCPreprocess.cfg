CONSTANTS
  Databases <- MCDatabases
  Source <- MCSource
  SheetName <- MCSheetName
  Statements <- MCStatements
  Validators <- MCValidators
SPECIFICATION Spec
CHECK_DEADLOCK FALSE
INVARIANTS TypeOK ExtractExact UnresolvedOnlyIfExempt ClassifiedWritesPermitted DenialHasReason
           SourcesRewritten OthersUntouched ColumnRefsFollowSchema
