CONSTANTS
  MaxRows = 4
  MaxChars = 8
  RowNote = 2
  FitNote = 4
  SourceSizes <- MCSourceSizes
  Bodies <- MCBodies
SPECIFICATION FairSpec
CHECK_DEADLOCK FALSE
INVARIANTS TypeOK NoPartialSuccess LongestPrefix TruncationReported SearchBrackets
PROPERTIES Terminates
