CONSTANTS
  Foreign <- MCForeign
  Spoilt <- MCSpoilt
  Sources <- MCSources
  Overrides <- MCOverrides
  CutNames <- MCCutNames
  Targets = {"GeoJson", "Parquet", "FlatGeobuf", "Csv", "Wkt", "Shapefile", "Gpkg"}
  MaxRuns = 3
  Methods = {9807, 9802}
  EnDefaultSafe = {9802}
SPECIFICATION Spec
INVARIANTS LandsAsRecast DeclarationsDestroyNothing GeometryReturns SameFormatSettles CrsNeverRelabelled LeastType EitherReaderReads RecordsReadBack
