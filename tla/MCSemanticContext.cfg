CONSTANTS
  SourceMaps <- MCSourceMaps
  ConfigFiles <- MCConfigFiles
  FlagFiles <- MCFlagFiles
  Unset = ""
SPECIFICATION Spec
CHECK_DEADLOCK FALSE
INVARIANTS TypeOK CommentsAreTrue LaterFileWins MetricsAreLatest ModelMatchesCatalog
PROPERTIES ArraysKeepTheirItems
