\* Tables of up to three rows whose ids are below, at and beyond their positions.
CONSTANTS
  a = a b = b c = c
  Features = {a, b, c}
  Fids = {0, 1, 2, 4, 5, 6}
  None = None
  Edits = {"reorder", "remove", "insert", "exchange"}
  MaxRuns = 2
SPECIFICATION Spec
INVARIANTS RowsCanBePacked ReferencesResolve
PROPERTIES PlainCopyKeepsRows RemovalKeepsMeaning
CHECK_DEADLOCK FALSE
