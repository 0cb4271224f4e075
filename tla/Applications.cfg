CONSTANTS
  Clients = {c1, c2}
  Apps = {a}
  Versions = {v1, v2}
  Calibrations = {k}
  NoVersion = NoVersion
  NoCalibration = NoCalibration
  Scenes = {s1, s2}
  Drawings = {d1, d2}
  MaxRevision = 3
SYMMETRY Symmetry
SPECIFICATION Spec
\* Everything may be deleted or at its bound.
CHECK_DEADLOCK FALSE
INVARIANTS
  ConfirmedAsSeen
PROPERTIES
  NoLostDraft
  PublishesTheDraft
