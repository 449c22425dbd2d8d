CONSTANTS
  None = None Truncated = Truncated
  PageSize = 200
  ShortRecord = 24
  Databases <- MCDatabases
SPECIFICATION Spec
INVARIANTS IndexKeepsEveryRecord
CHECK_DEADLOCK FALSE
