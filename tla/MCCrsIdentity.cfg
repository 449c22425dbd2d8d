CONSTANTS
  Foreign = {}
  Spoilt <- NoFile
  Sources <- MCSources
  Overrides <- BaseOnly
  CutNames <- MCCutNames
  Targets = {"GeoJson", "Parquet", "FlatGeobuf", "Csv", "Wkt", "Shapefile", "Gpkg"}
  MaxRuns = 2
  Methods = {9807, 9802}
  EnDefaultSafe = {9802}
SPECIFICATION Spec
INVARIANT IdentityIsItsOwn
