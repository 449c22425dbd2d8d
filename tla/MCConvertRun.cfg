CONSTANTS
  roads = roads rivers = rivers
  Older = Older New = New Absent = Absent Broken = Broken Directory = Directory
  Stems <- MCStems
  LayerNames <- MCLayerNames
  Inputs <- MCInputs
  Outputs <- MCOutputs
  Disks <- MCDisks
SPECIFICATION Spec
INVARIANTS LowerCaseInputStands StaleFilesWarned EndsWhole
PROPERTIES TouchesOnlyItsOutput
CHECK_DEADLOCK FALSE
