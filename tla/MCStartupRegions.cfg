CONSTANTS
  Padding <- MCPadding
  Documents <- MCDocuments
  Booted <- MCBooted
  Environments <- MCEnvironments
  Processes = {p, q}
  MaxLogins = 2
SPECIFICATION FairSpec
CHECK_DEADLOCK FALSE
INVARIANTS EverySourceInItsRegion
