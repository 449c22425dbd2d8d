CONSTANTS
  k1 = k1 k2 = k2 k3 = k3 b1 = b1 b2 = b2 good = good odd = odd d1 = d1 d2 = d2
  roads = roads lakes = lakes imagery = imagery relief = relief notes = notes depot = depot
  width = width
  None = None Blank = Blank
  MaxRuns = 3
  Keys <- MCKeys
  Blobs <- MCBlobs
  Schemes <- MCSchemes
  Mergeable <- MCMergeable
  Docs <- MCDocs
  Scopes <- MCScopes
  Names <- MCNames
  Columns <- MCColumns
  Sources <- MCSources
SPECIFICATION Spec
INVARIANTS RefusedOnlyOnConflict RegistryKeysHold WrittenReferencesResolve
PROPERTIES ImplementsUnion NothingStatedIsLost AppendAgainAddsOnlyRepeats
CHECK_DEADLOCK FALSE
