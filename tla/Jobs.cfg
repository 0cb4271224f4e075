CONSTANTS
  Runs = {r1}
  Procs = {p1, p2}
  NoRun = NoRun
  LeaseTime = 1
  MaxTime = 2
  MaxAttempts = 2
  MaxSequence = 1
SPECIFICATION Spec
SYMMETRY ProcSymmetry
INVARIANTS
  FenceNamesAttempt
PROPERTIES
  NoLiveTakeover
  KeepsPromise
