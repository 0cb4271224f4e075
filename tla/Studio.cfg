SPECIFICATION Spec
CHECK_DEADLOCK FALSE
CONSTANTS
  Capabilities <- MCCapabilities
  Drafts <- MCDrafts
  Drawings <- MCDrawings
  RedPhase = RedPhase
  InZone = InZone
  LineCrossing = LineCrossing
  Semantic = Semantic
  Person = Person
  Cars = Cars
  Light = Light
  Lane = Lane
  StopLine = StopLine
  SignalOne = SignalOne
  RedRule = RedRule
  NoCalibration = NoCalibration
  NoROI = NoROI
  None = None
  a1 = a1
  t1 = t1
  v1 = v1
  v2 = v2
  Apps = {a1}
  Tabs = {t1}
  Videos = {v1, v2}
  Large = {v2}
  MostDuration = 300
  MostCalls = 100
  Window = 30
  CountMarkers = {"how many"}
  Countables = {"cars"}
  TrackingTerms = {"follow"}
  MaxConditions = 2
  RepairAttempts = 2
  MaxVersions = 2
  MaxCalibrations = 1
  MaxRuns = 1
INVARIANTS
  AcceptedIsPublished
  AdmittedRunsAreConfigured
PROPERTIES
  TurnsEnd
