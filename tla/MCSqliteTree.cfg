CONSTANTS
  None = None Truncated = Truncated
  PageSize = 200
  ShortRecord = 24
  Databases <- MCDatabases
SPECIFICATION Spec
INVARIANTS PagesFit TablesReadBack EveryPageUsedOnce
PROPERTIES CallReturns
CHECK_DEADLOCK FALSE
