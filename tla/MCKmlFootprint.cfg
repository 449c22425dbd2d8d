CONSTANTS
  Files <- FootprintFiles
  Collections = {}
  Values = {}
  Shapes <- FootprintShapes
  MaxEdits = 1
SPECIFICATION Spec
INVARIANT FootprintsReadBack
CHECK_DEADLOCK FALSE
