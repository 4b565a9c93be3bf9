CONSTANTS
  Documents <- MCDocuments
  AccessLists <- MCAccessLists
  Probes <- MCProbes
SPECIFICATION Spec
CHECK_DEADLOCK FALSE
INVARIANTS TypeOK VerdictIsExact OrderIrrelevant RaisingBaseKeepsGrants
           DeniedBeatsShorthands SchemaReplacesCatalog
