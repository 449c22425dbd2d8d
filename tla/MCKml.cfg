CONSTANTS
  Files <- MCFiles
  Collections <- MCCollections
  Values <- MCValues
  Shapes <- MCShapes
  MaxEdits = 1
SPECIFICATION Spec
INVARIANTS EditsShow DocumentStands EditTouchesOnlyItsMembers VersionChangeAnnounced
CHECK_DEADLOCK FALSE
