CONSTANTS
  x = x y = y p = p q = q wkt1 = wkt1 wkt2 = wkt2 esri = esri
  Epsg = Epsg NoAuthority = NoAuthority Unknown = Unknown Word = Word None = None
  Wgs84Id = 2
  SyntheticBase = 5
  MaxRuns = 3
  LayerNames <- MCLayerNames
  ObjectNames <- MCObjectNames
  Auths <- MCAuths
  Defs <- MCDefs
  Systems <- MCAll
  Objects <- MCObjects
SPECIFICATION Spec
INVARIANTS EveryIdHasOneRow CarriedDefinitionStands RegisteredLayersKeepTheirCrs
CHECK_DEADLOCK FALSE
