CONSTANTS
  k1 = k1 k2 = k2 k3 = k3 b1 = b1 b2 = b2 good = good odd = odd
  None = None
  MaxTiles = 2
  MaxRowid = 3
  Keys <- MCKeys
  Blobs <- MCBlobs
  Schemes <- MCSchemes
  Mergeable <- MCMergeable
  Pyramids <- MCPyramids
SPECIFICATION Spec
INVARIANTS TypeOK MergedRowsAscend MergeIsUnion RefusedExactlyOnConflict MarkAndExtentCover
CHECK_DEADLOCK FALSE
