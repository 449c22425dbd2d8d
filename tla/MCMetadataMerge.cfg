CONSTANTS
  d1 = d1 d2 = d2 d3 = d3 P = P None = None
  MaxId = 3
  Docs <- MCDocs
  Scopes <- MCScopes
  Names <- MCNames
  Columns <- MCColumns
  Sides <- MCRooted
  RowMaps <- MCRowMaps
SPECIFICATION Spec
INVARIANTS MergedIdsDistinct MergedMeaningIsUnion
CHECK_DEADLOCK FALSE
