SPECIFICATION Spec
CONSTANTS
  Start <- MCStart
  ViewSet <- MCViews
  Configs <- MCConfigs
INVARIANTS
  OpportunitiesPayOff
  NoneMissed
  OneWayAtMost
  LotsRespected
  ShortByAStepAtMost
  PctErrsOneWay
