SPECIFICATION Spec
CONSTANTS
  dotcom = dotcom  ghe = ghe
  pull = pull  push = push  fetch = fetch  clone = clone  peek = peek  lfs = lfs  greet = greet
  Nobody = Nobody
  Endpoints = {dotcom, ghe}  DotCom = dotcom
  Askers = {pull, push, fetch, clone, peek, lfs, greet}
  Kind <- KindOf  Server <- ServerOf  InBackground = {peek}
  Scenes <- ScenesPlayed
  PopupLimit = 3  MaxAuth = 2  MaxUser = 1  MaxAsks = 2
INVARIANTS PromptsTypeOK StackShape EnvironmentCleared RejectedPasswordForgotten
PROPERTIES NoCallerForgotten AnswersStand BackgroundEnds
CHECK_DEADLOCK FALSE
