SPECIFICATION Spec
CHECK_DEADLOCK FALSE
CONSTANTS
  none = none
  car = car
  van = van
  main = main
  other = other
  NoObject = none
  Rois = {main, other}
  Scenes <- MCScenes
  Places <- MCPlaces
  Lamps <- MCLamps
  Line <- MCLine
  Polygon <- MCPolygon
  Band = 1
  FromSide = 1
  ToSide <- MCToSide
  RuleGap = 2
  TrackGap = 3
  MergeGap = 0
  Margin = 1
  Stability = 0
  Threshold = 5
  FrameLimit = 6
  ProgressEvery = 5
  Media <- MCMedia
  MinPixels = 10
  MaxGlare = 50
  MaxDark = 90
  MinColor = 30
  WinnerMargin = 10
  Specs <- MCSpecs
  Videos <- MCVideos
  WindowAnswers <- MCWindowAnswers
  HardCalls = 4
  GuardCalls = 5
  MaxDuration = 6
  MaxConditions = 2
  MaxFindings = 2
  Retries = 2
  Statuses = {0, 429, 400}
  Broken = 0
  Plans <- MCPlans
  Drawings <- MCDrawings
  NoNumber = 99999
  Unit = 10
  Fine = 80000
  ConditionAnswers <- MCConditionAnswers
INVARIANTS
  CrossingsAreReal
  SupportedUnderRed
  VisitsAreReal
  UnbrokenTracksAreCounted
  RequestsStayInBudget
  CompletedIsAssessed
  EventsComeFromWholeAnswers
  NothingIsPassedOver
  EpisodesAreSeen
  RegionsStayInPlace
PROPERTIES
  RunEnds
