CONSTANTS
  Nothing = Nothing
  u1 = u1
  u2 = u2
  short = short
  long = long
  broken = broken
  v1 = v1
  v2 = v2
  Uploads = {u1}
  Contents = {short, long, broken}
  Playable = {short, long}
  Long = {long}
  Viewers = {v1, v2}
  MaxExtracts = 2
  MaxFaults = 2
SPECIFICATION Spec
CHECK_DEADLOCK FALSE
INVARIANTS
  ServesWhatWasChecked
  DeletedIsGone
  NoOrphans
PROPERTIES
  DeletionStands
