SPECIFICATION Spec
CONSTANTS
  Branches = {main, topic}
  NoBranch = NoBranch
  Nobody = Nobody
  PopupLimit = 50
  Scenes <- MCScenes
INVARIANTS
  TypeOK
  ForcePushRewritten
PROPERTIES
  ConflictsReachUser
  ConflictsGo
  ProgressEnds
CHECK_DEADLOCK FALSE
